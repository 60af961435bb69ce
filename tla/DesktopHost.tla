----------------------------- MODULE DesktopHost -----------------------------
(***************************************************************************)
(* The desktop control plane (src/desktop/control.cpp, Host::Impl) and the *)
(* llama-server child it owns (src/desktop/platform.cpp, Process).  Pool   *)
(* threads of the HTTP server (Handler) run the API handlers; the engine   *)
(* worker ("loader") starts the child, the log thread ("reader") turns its *)
(* output into loading stages, the chat worker ("chatter") streams one     *)
(* reply, and shutdown() runs on a thread of its own ("closer").           *)
(*                                                                         *)
(* at[t] is the point thread t has reached: one label for every access to  *)
(* state that another thread may change in between.  A refused request     *)
(* changes nothing, so its refusal is the guard of its first step.  The    *)
(* registers then and seen are cleared once their value is dead.           *)
(***************************************************************************)
EXTENDS Integers, Sequences

CONSTANTS Handler,      \* threads of the request pool
          Model,        \* selectable models
          Tuning,       \* values of the settings that need a reload
          Conversation, \* saved conversations that may be switched to
          Requests,     \* which requests the clients send
          MaxRequests,  \* bound on the requests of one behaviour
          MaxLines,     \* bound on the lines of output not yet read
          NoThread      \* owner of a free lock

Kinds == {"load", "unload", "chat", "cancel", "switch", "select", "patch",
          "configure", "shutdown"}

ASSUME HostAssumption ==
  /\ Model # {} /\ Tuning # {} /\ Conversation # {}
  /\ Requests \subseteq Kinds
  /\ MaxRequests \in Nat /\ MaxLines \in Nat \ {0}
  /\ Handler \cap {"loader", "reader", "chatter", "closer"} = {}
  /\ NoThread \notin Handler

Thread == Handler \union {"loader", "reader", "chatter", "closer"}
EngineState == {"Stopped", "Loading", "Ready", "Error"}
Config == [model : Model, tuning : Tuning]

VARIABLES
  at, then, seen, copy,     \* per thread: label, label after publishing,
                            \* engine state read, settings copied
  engine, bus,              \* engine state, and the one last published
  port, pendingReload,      \* activePort # 0; settings differ from the engine
  cancelled, generating,
  lifecycle, chatOp,        \* owners of the two operation mutexes
  child,                    \* llama-server: its status and unread output
  running,                  \* the settings the child was launched with
  config, wanted,           \* saved settings; what the accepted edits asked
  chat, log,                \* active conversation; every message saved
  sent                      \* requests so far

engineVars == <<engine, bus, port, pendingReload>>
flags == <<cancelled, generating>>
locks == <<lifecycle, chatOp>>
settings == <<config, wanted>>
talk == <<chat, log>>
regs == <<then, seen, copy>>
vars == <<at, regs, engineVars, flags, locks, child, running, settings, talk, sent>>

HostInit ==
  \E c \in Config, active \in Conversation :
    /\ at = [t \in Thread |-> "idle"]
    /\ then = [t \in Thread |-> "idle"]
    /\ seen = [t \in Thread |-> "Stopped"]
    /\ copy = [t \in Thread |-> c]
    /\ engine = "Stopped" /\ bus = "Stopped"
    /\ port = FALSE /\ pendingReload = FALSE
    /\ cancelled = FALSE /\ generating = FALSE
    /\ lifecycle = NoThread /\ chatOp = NoThread
    /\ child = [status |-> "none", lines |-> 0]
    /\ running = c /\ config = c /\ wanted = c
    /\ chat = active /\ log = <<>>
    /\ sent = 0

Go(t, label) == at' = [at EXCEPT ![t] = label]
Alive == child.status \in {"starting", "healthy", "serving"}
ReaderDone == child.lines = 0 /\ at["reader"] = "idle"

-----------------------------------------------------------------------------
(* set_engine: the state is stored under stateMutex, read back by          *)
(* engine_json() under the same mutex, and published with neither held.    *)
SetEngine(t, state, next) ==
  /\ engine' = state
  /\ then' = [then EXCEPT ![t] = next]
  /\ Go(t, "snapshot")

Snapshot(t) ==
  /\ at[t] = "snapshot"
  /\ seen' = [seen EXCEPT ![t] = engine]
  /\ Go(t, "publish")
  /\ UNCHANGED <<then, copy, engineVars, flags, locks, child, running, settings, talk, sent>>

Publish(t) ==
  /\ at[t] = "publish"
  /\ bus' = seen[t]
  /\ Go(t, then[t])
  /\ then' = [then EXCEPT ![t] = "idle"]
  /\ seen' = [seen EXCEPT ![t] = "Stopped"]
  /\ UNCHANGED <<copy, engine, port, pendingReload, flags, locks, child, running,
                 settings, talk, sent>>

(* set_engine(engine.load(), ""): the refresh at both ends of a reply.     *)
ReadState(t) ==
  /\ at[t] = "readState"
  /\ seen' = [seen EXCEPT ![t] = engine]
  /\ Go(t, "writeState")
  /\ UNCHANGED <<then, copy, engineVars, flags, locks, child, running, settings, talk, sent>>

WriteState(t) ==
  /\ at[t] = "writeState"
  /\ SetEngine(t, seen[t], IF t = "chatter" THEN "idle" ELSE "spawnChat")
  /\ UNCHANGED <<seen, copy, bus, port, pendingReload, flags, locks, child, running,
                 settings, talk, sent>>

-----------------------------------------------------------------------------
(* Process::stop: kill the child, then join the log thread, which first    *)
(* delivers the lines still in the pipe.                                   *)
AfterKill == [stopOld |-> "reapOld", failed |-> "reapFailed",
              stopChild |-> "reapChild", closeKill |-> "reapLast"]
AfterReap == [reapOld |-> "rebudget", reapFailed |-> "report",
              reapChild |-> "clearPort", reapLast |-> "closed"]

Kill(t) ==
  /\ at[t] \in DOMAIN AfterKill
  /\ child' = [child EXCEPT !.status = "none"]
  /\ Go(t, AfterKill[at[t]])
  /\ UNCHANGED <<regs, engineVars, flags, locks, running, settings, talk, sent>>

(* Slip: the log thread is not joined. *)
Reap_NoJoin(t) ==
  /\ at[t] \in DOMAIN AfterReap
  /\ Go(t, AfterReap[at[t]])
  /\ UNCHANGED <<regs, engineVars, flags, locks, child, running, settings, talk, sent>>

Reap(t) ==
  /\ at[t] \in DOMAIN AfterReap
  /\ ReaderDone
  /\ Go(t, AfterReap[at[t]])
  /\ UNCHANGED <<regs, engineVars, flags, locks, child, running, settings, talk, sent>>

(* join() of the engine worker, before going on to then[t].                *)
JoinLoader(t) ==
  /\ at[t] = "joinLoader"
  /\ at["loader"] = "idle"
  /\ Go(t, then[t])
  /\ UNCHANGED <<regs, engineVars, flags, locks, child, running, settings, talk, sent>>

Leave(t) ==
  /\ at[t] = "leave"
  /\ lifecycle' = IF lifecycle = t THEN NoThread ELSE lifecycle
  /\ chatOp' = IF chatOp = t THEN NoThread ELSE chatOp
  /\ Go(t, "idle")
  /\ UNCHANGED <<regs, engineVars, flags, child, running, settings, talk, sent>>

(* A request of a kind reaches an idle thread of a server still listening. *)
Arrives(t, kind) ==
  /\ at[t] = "idle" /\ at["closer"] # "closed"
  /\ kind \in Requests
  /\ sent < MaxRequests
  /\ sent' = sent + 1
-----------------------------------------------------------------------------
(* POST /api/engine/load: start_engine() under the lifecycle mutex.        *)
EnterLoad(t) ==
  /\ Arrives(t, "load")
  /\ lifecycle = NoThread
  /\ lifecycle' = t
  /\ Go(t, "admit")
  /\ UNCHANGED <<regs, engineVars, flags, chatOp, child, running, settings, talk>>

(* Two atomics, read one after the other.                                  *)
Admit(t) ==
  /\ \/ /\ at[t] = "admit"
        /\ Go(t, IF generating THEN "leave" ELSE "admitEngine")
        /\ UNCHANGED then
     \/ /\ at[t] = "admitEngine"
        /\ Go(t, IF engine = "Loading" THEN "leave" ELSE "joinLoader")
        /\ then' = [then EXCEPT ![t] = "prepare"]
  /\ UNCHANGED <<seen, copy, engineVars, flags, locks, child, running, settings, talk, sent>>

(* Slip: the engine keeps its state until the worker reports.              *)
Prepare_KeepsState(t) ==
  /\ at[t] = "prepare"
  /\ copy' = [copy EXCEPT !["loader"] = config]
  /\ cancelled' = FALSE
  /\ Go(t, "spawn")
  /\ UNCHANGED <<then, seen, engineVars, generating, locks, child, running, settings,
                 talk, sent>>

(* Settings that cannot be saved end the request here.                     *)
Prepare(t) ==
  /\ at[t] = "prepare"
  /\ \/ /\ copy' = [copy EXCEPT !["loader"] = config]
        /\ cancelled' = FALSE
        /\ SetEngine(t, "Loading", "spawn")
     \/ Go(t, "leave") /\ UNCHANGED <<then, copy, engine, cancelled>>
  /\ UNCHANGED <<seen, bus, port, pendingReload, generating, locks, child, running,
                 settings, talk, sent>>

Spawn(t) ==
  /\ at[t] = "spawn"
  /\ at' = [at EXCEPT ![t] = "leave", !["loader"] = "validate"]
  /\ UNCHANGED <<regs, engineVars, flags, locks, child, running, settings, talk, sent>>

(* The engine worker.  Every failure goes through the catch block: stop    *)
(* the child, then report the error.                                       *)
Validate ==
  /\ at["loader"] = "validate"
  /\ Go("loader", "stopOld") \/ Go("loader", "failed")
  /\ UNCHANGED <<regs, engineVars, flags, locks, child, running, settings, talk, sent>>

(* An untouched automatic profile is computed afresh and the whole copy    *)
(* taken by start_engine is stored, then written to disk; a write that     *)
(* fails leaves it stored.  The profile itself is not modelled.            *)
Rebudget ==
  /\ at["loader"] = "rebudget"
  /\ Go("loader", "bindPort") \/ Go("loader", "failed")
  /\ config' \in {config, copy["loader"]}
  /\ UNCHANGED <<regs, engineVars, flags, locks, child, running, wanted, talk, sent>>

BindPort ==
  /\ at["loader"] = "bindPort"
  /\ port' = FALSE
  /\ \/ Go("loader", "launch") /\ running' = copy["loader"]
     \/ Go("loader", "failed") /\ UNCHANGED running
  /\ UNCHANGED <<regs, engine, bus, pendingReload, flags, locks, child, settings, talk, sent>>

Launch ==
  /\ at["loader"] = "launch"
  /\ \/ Go("loader", "poll") /\ child' = [status |-> "starting", lines |-> 0]
     \/ Go("loader", "failed") /\ UNCHANGED child
  /\ UNCHANGED <<regs, engineVars, flags, locks, running, settings, talk, sent>>

(* Slip: no deadline.                                                      *)
Poll_Forever ==
  /\ at["loader"] = "poll"
  /\ \/ (cancelled \/ child.status = "exited") /\ Go("loader", "failed")
     \/ ~cancelled /\ child.status \in {"healthy", "serving"} /\ Go("loader", "healthy")
  /\ UNCHANGED <<regs, engineVars, flags, locks, child, running, settings, talk, sent>>

(* The health loop ends on a cancellation, a child that exited, the        *)
(* deadline (at any time), or an answer from /health.                      *)
Poll ==
  /\ at["loader"] = "poll"
  /\ \/ Go("loader", "failed")
     \/ ~cancelled /\ child.status \in {"healthy", "serving"} /\ Go("loader", "healthy")
  /\ UNCHANGED <<regs, engineVars, flags, locks, child, running, settings, talk, sent>>

Healthy ==
  /\ at["loader"] = "healthy"
  /\ IF cancelled
       THEN Go("loader", "failed") /\ UNCHANGED <<port, pendingReload>>
       ELSE Go("loader", "ready") /\ port' = TRUE /\ pendingReload' = FALSE
  /\ UNCHANGED <<regs, engine, bus, flags, locks, child, running, settings, talk, sent>>

Report ==
  /\ \/ at["loader"] = "ready" /\ SetEngine("loader", "Ready", "idle")
     \/ at["loader"] = "report" /\ SetEngine("loader", "Error", "idle")
  /\ UNCHANGED <<seen, copy, bus, port, pendingReload, flags, locks, child, running,
                 settings, talk, sent>>

(* Slip: a line is taken without waiting for one.                          *)
ReadLine_Blind ==
  /\ at["reader"] = "idle" /\ Alive
  /\ child' = [child EXCEPT !.lines = @ - 1]
  /\ SetEngine("reader", "Loading", "idle")
  /\ UNCHANGED <<seen, copy, bus, port, pendingReload, flags, locks, running,
                 settings, talk, sent>>

(* on_server_line: every line naming a loading stage sets Loading.         *)
ReadLine ==
  /\ at["reader"] = "idle" /\ child.lines > 0
  /\ child' = [child EXCEPT !.lines = @ - 1]
  /\ SetEngine("reader", "Loading", "idle")
  /\ UNCHANGED <<seen, copy, bus, port, pendingReload, flags, locks, running,
                 settings, talk, sent>>

(* llama-server prints stages while it starts, answers /health, and only   *)
(* then prints that it is listening (tools/server/server.cpp).  It may     *)
(* exit at any time.                                                       *)
ChildStep ==
  /\ \/ /\ child.status = "starting" /\ child.lines < MaxLines
        /\ child' = [child EXCEPT !.lines = @ + 1]
     \/ /\ child.status = "starting"
        /\ child' = [child EXCEPT !.status = "healthy"]
     \/ /\ child.status = "healthy" /\ child.lines < MaxLines
        /\ child' = [status |-> "serving", lines |-> child.lines + 1]
     \/ /\ Alive
        /\ child' = [child EXCEPT !.status = "exited"]
  /\ UNCHANGED <<at, regs, engineVars, flags, locks, running, settings, talk, sent>>
-----------------------------------------------------------------------------
(* POST /api/engine/unload: unload_engine() under the lifecycle mutex.     *)
EnterUnload(t) ==
  /\ Arrives(t, "unload")
  /\ lifecycle = NoThread
  /\ lifecycle' = t
  /\ Go(t, "quiet")
  /\ UNCHANGED <<regs, engineVars, flags, chatOp, child, running, settings, talk>>

Quiet(t) ==
  /\ at[t] = "quiet"
  /\ cancelled' = (cancelled \/ generating)
  /\ then' = [then EXCEPT ![t] = "stopChild"]
  /\ Go(t, "joinLoader")
  /\ UNCHANGED <<seen, copy, engineVars, generating, locks, child, running, settings,
                 talk, sent>>

ClearPort(t) ==
  /\ at[t] = "clearPort"
  /\ port' = FALSE
  /\ Go(t, "unloaded")
  /\ UNCHANGED <<regs, engine, bus, pendingReload, flags, locks, child, running,
                 settings, talk, sent>>

Unloaded(t) ==
  /\ at[t] = "unloaded"
  /\ SetEngine(t, "Stopped", "leave")
  /\ UNCHANGED <<seen, copy, bus, port, pendingReload, flags, locks, child, running,
                 settings, talk, sent>>

(* POST /api/chat/cancel: one flag for the reply and for the startup.      *)
CancelChat(t) ==
  /\ Arrives(t, "cancel")
  /\ cancelled' = TRUE
  /\ UNCHANGED <<at, regs, engineVars, generating, locks, child, running, settings, talk>>
-----------------------------------------------------------------------------
(* POST /api/chat: admitted, the message saved, then run_chat(), all under *)
(* chatOperationMutex.                                                     *)
EnterChat(t) ==
  /\ Arrives(t, "chat")
  /\ chatOp = NoThread
  /\ engine = "Ready" /\ ~pendingReload /\ ~generating
  /\ chatOp' = t
  /\ log' = Append(log, [role |-> "user", chat |-> chat])
  /\ Go(t, "joinChatter")
  /\ UNCHANGED <<regs, engineVars, flags, lifecycle, child, running, settings, chat>>

(* Slip: the previous chat worker is not joined.                           *)
JoinChatter_NoJoin(t) ==
  /\ at[t] = "joinChatter"
  /\ cancelled' = FALSE
  /\ generating' = TRUE
  /\ Go(t, "readState")
  /\ UNCHANGED <<regs, engineVars, locks, child, running, settings, talk, sent>>

JoinChatter(t) ==
  /\ at[t] = "joinChatter"
  /\ at["chatter"] = "idle"
  /\ cancelled' = FALSE
  /\ generating' = TRUE
  /\ Go(t, "readState")
  /\ UNCHANGED <<regs, engineVars, locks, child, running, settings, talk, sent>>

SpawnChat(t) ==
  /\ at[t] = "spawnChat"
  /\ at' = [at EXCEPT ![t] = "leave", !["chatter"] = "stream"]
  /\ UNCHANGED <<regs, engineVars, flags, locks, child, running, settings, talk, sent>>

(* The stream ends, by its end, an error, a timeout or a cancellation; a   *)
(* reply that has text is appended to the conversation.                    *)
EndStream ==
  /\ at["chatter"] = "stream"
  /\ log' \in {log, Append(log, [role |-> "assistant", chat |-> chat])}
  /\ Go("chatter", "answered")
  /\ UNCHANGED <<regs, engineVars, flags, locks, child, running, settings, chat, sent>>

Answered ==
  /\ at["chatter"] = "answered"
  /\ generating' = FALSE
  /\ Go("chatter", "readState")
  /\ UNCHANGED <<regs, engineVars, cancelled, locks, child, running, settings, talk, sent>>

(* Slip: conversations are switched under a reply in progress.             *)
SwitchChat_Anytime(t) ==
  /\ Arrives(t, "switch")
  /\ chatOp = NoThread
  /\ chat' \in Conversation
  /\ UNCHANGED <<at, regs, engineVars, flags, locks, child, running, settings, log>>

(* POST /api/conversation/new and /select.                                 *)
SwitchChat(t) ==
  /\ Arrives(t, "switch")
  /\ chatOp = NoThread /\ ~generating
  /\ chat' \in Conversation
  /\ UNCHANGED <<at, regs, engineVars, flags, locks, child, running, settings, log>>
-----------------------------------------------------------------------------
(* POST /api/models/select: a newly chosen model brings its recommended    *)
(* settings; the reload flag is raised after cfgMutex was released.        *)
SelectModel(t) ==
  /\ Arrives(t, "select")
  /\ \E c \in Config :
       /\ c.model = config.model => c = config
       /\ config' = c /\ wanted' = [c EXCEPT !.tuning = IF c.model = config.model
                                                          THEN wanted.tuning ELSE @]
       /\ Go(t, IF c.model = config.model THEN "idle" ELSE "flag")
  /\ UNCHANGED <<regs, engineVars, flags, locks, child, running, talk>>

Flag(t) ==
  /\ at[t] = "flag"
  /\ pendingReload' = (pendingReload \/ engine = "Ready")
  /\ Go(t, "idle")
  /\ UNCHANGED <<regs, engine, bus, port, flags, locks, child, running, settings, talk, sent>>

(* POST /api/settings copies the settings, edits the copy and writes all   *)
(* of it back; POST /api/freetoken/configure does the same, when idle.     *)
CopySettings(t) ==
  /\ \/ Arrives(t, "patch") /\ Go(t, "writePatch")
     \/ /\ Arrives(t, "configure") /\ ~generating /\ engine # "Loading"
        /\ Go(t, "writeProfile")
  /\ \E v \in Tuning : copy' = [copy EXCEPT ![t] = [config EXCEPT !.tuning = v]]
  /\ UNCHANGED <<then, seen, engineVars, flags, locks, child, running, settings, talk>>

WriteSettings(t) ==
  /\ at[t] \in {"writePatch", "writeProfile"}
  /\ config' = copy[t]
  /\ wanted' = [wanted EXCEPT !.tuning = copy[t].tuning]
  /\ IF at[t] = "writePatch"
       THEN /\ pendingReload' = (pendingReload \/ (engine = "Ready" /\ copy[t] # config))
            /\ Go(t, "idle")
       ELSE Go(t, "flag") /\ UNCHANGED pendingReload
  /\ UNCHANGED <<regs, engine, bus, port, flags, locks, child, running, talk, sent>>
-----------------------------------------------------------------------------
(* shutdown(): cancel, join the chat and the engine worker, stop the child *)
(* and only then the HTTP server.  It takes no operation mutex.            *)
Shutdown ==
  /\ "shutdown" \in Requests
  /\ at["closer"] = "idle"
  /\ cancelled' = TRUE
  /\ Go("closer", "joinChat")
  /\ then' = [then EXCEPT !["closer"] = "closeKill"]
  /\ UNCHANGED <<seen, copy, engineVars, generating, locks, child, running, settings,
                 talk, sent>>

JoinChat ==
  /\ at["closer"] = "joinChat"
  /\ at["chatter"] = "idle"
  /\ Go("closer", "joinLoader")
  /\ UNCHANGED <<regs, engineVars, flags, locks, child, running, settings, talk, sent>>
-----------------------------------------------------------------------------
SharedStep(t) ==
  \/ Snapshot(t) \/ Publish(t) \/ ReadState(t) \/ WriteState(t)
  \/ Kill(t) \/ Reap(t) \/ JoinLoader(t)

HandlerStep(t) ==
  \/ SharedStep(t) \/ Leave(t) \/ Admit(t) \/ Prepare(t) \/ Spawn(t)
  \/ Quiet(t) \/ ClearPort(t) \/ Unloaded(t)
  \/ JoinChatter(t) \/ SpawnChat(t)
  \/ Flag(t) \/ WriteSettings(t)

Request(t) ==
  \/ EnterLoad(t) \/ EnterUnload(t) \/ CancelChat(t) \/ EnterChat(t) \/ SwitchChat(t)
  \/ SelectModel(t) \/ CopySettings(t)

Loader ==
  \/ SharedStep("loader") \/ Validate \/ Rebudget \/ BindPort \/ Launch \/ Poll
  \/ Healthy \/ Report

Reader == SharedStep("reader") \/ ReadLine
Chatter == SharedStep("chatter") \/ EndStream \/ Answered
Closer == SharedStep("closer") \/ JoinChat

HostNext ==
  \/ \E t \in Handler : Request(t) \/ HandlerStep(t)
  \/ Loader \/ Reader \/ Chatter \/ Closer \/ ChildStep \/ Shutdown

HostSpec == HostInit /\ [][HostNext]_vars

(* Every thread is scheduled; the health loop and the stream end by their  *)
(* own timeouts.  Nothing is assumed of clients or of the child.           *)
FairHost ==
  /\ HostSpec
  /\ \A t \in Handler : WF_vars(HandlerStep(t))
  /\ WF_vars(Loader) /\ WF_vars(Reader) /\ WF_vars(Chatter) /\ WF_vars(Closer)
-----------------------------------------------------------------------------
HostTypeOK ==
  /\ DOMAIN at = Thread
  /\ seen \in [Thread -> EngineState] /\ copy \in [Thread -> Config]
  /\ engine \in EngineState /\ bus \in EngineState
  /\ {port, pendingReload, cancelled, generating} \subseteq BOOLEAN
  /\ {lifecycle, chatOp} \subseteq Handler \union {NoThread}
  /\ child \in [status : {"none", "starting", "healthy", "serving", "exited"},
                lines : 0..MaxLines]
  /\ {running, config, wanted} \subseteq Config
  /\ sent \in 0..MaxRequests

(* A std::thread is assigned only when the thread it held has ended and    *)
(* was joined; assigning to a running one terminates the program.          *)
(* (control.cpp: engineWorker 416, chatWorker 569)                         *)
ThreadsJoined ==
  \A t \in Handler :
    /\ at[t] \in {"prepare", "spawn"} => at["loader"] = "idle"
    /\ at[t] = "spawnChat" => at["chatter"] = "idle"

(* While the engine is Stopped or in Error no child is left, and no line   *)
(* of the dead one is still to be read: nothing can turn the state that    *)
(* the user sees into Loading again.  (process.stop() joins the log thread *)
(* before every such report, control.cpp 466-467, 484-485, 505-510)        *)
(* Only as long as no chat is requested: the chat worker writes back a     *)
(* state it has read earlier (557, 677).                                   *)
SettledWithoutServer ==
  engine \in {"Stopped", "Error"} => child.status = "none" /\ ReaderDone

(* The engine is Ready only over a child it launched, except while an      *)
(* unload is between killing it and reporting, or a shutdown has killed    *)
(* it.  A child that exited of its own accord counts until it is stopped.  *)
(* Only as long as no chat is requested, for the same reason.              *)
ReadyHasServer ==
  engine = "Ready" =>
    \/ child.status # "none"
    \/ \E t \in Handler : at[t] \in {"reapChild", "clearPort", "unloaded"}
    \/ at["closer"] \in {"reapLast", "closed"}

(* Every reply directly follows a question, in the conversation where it   *)
(* was asked: no switch and no second question come between.               *)
RepliesFollowQuestions ==
  \A i \in 1..Len(log) :
    log[i].role = "assistant" =>
      i > 1 /\ log[i - 1] = [role |-> "user", chat |-> log[i].chat]

(* Every request is answered: no join, lock or log thread holds a handler  *)
(* forever.                                                                *)
HandlersReturn == \A t \in Handler : at[t] # "idle" ~> at[t] = "idle"

(* Shutdown completes: its joins of the chat worker, the engine worker and *)
(* the log thread all come back, whatever those are in the middle of.      *)
ShutdownEnds == at["closer"] # "idle" ~> at["closer"] = "closed"
-----------------------------------------------------------------------------
(* What the documentation and the messages say, and the code does not keep.*)
(* README.md:31, "Selecting another model disables sending until that      *)
(* model is loaded": a message is admitted only when the selected model is *)
(* the one the server runs.                                                *)
SendsToSelected ==
  [][\A t \in Handler : EnterChat(t) => config.model = running.model]_vars

(* README.md:31, "Valid settings edits save automatically": what is saved  *)
(* is what the accepted edits asked for.                                   *)
EditsSurvive == config = wanted
=============================================================================
