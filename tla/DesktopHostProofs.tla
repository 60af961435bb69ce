-------------------------- MODULE DesktopHostProofs --------------------------
(***************************************************************************)
(* What the desktop control plane guarantees for any number of request     *)
(* threads, models and requests.  The invariant says which mutex a thread  *)
(* holds at each point, which worker it has joined, and, for the engine,   *)
(* what the points of a startup and of an unload promise of the child.     *)
(***************************************************************************)
EXTENDS DesktopHost, SequenceTheorems, TLAPS

(* The points of each thread. *)
HandlerLabel == {"idle", "leave", "admit", "admitEngine", "joinLoader", "prepare", "spawn", "quiet",
                 "stopChild", "reapChild", "clearPort", "unloaded", "joinChatter", "readState",
                 "writeState", "spawnChat", "flag", "writePatch", "writeProfile",
                 "snapshot", "publish"}
Starting     == {"validate", "stopOld", "reapOld", "rebudget", "bindPort", "launch", "poll",
                 "healthy", "ready", "failed", "reapFailed", "report"}
LoaderLabel  == {"idle", "snapshot", "publish"} \union Starting
ReaderLabel  == {"idle", "snapshot", "publish"}
ChatterLabel == {"idle", "stream", "answered", "readState", "writeState", "snapshot", "publish"}
CloserLabel  == {"idle", "joinChat", "joinLoader", "closeKill", "reapLast", "closed"}
Label == HandlerLabel \union LoaderLabel \union ChatterLabel \union CloserLabel

Publishing(t) == at[t] \in {"snapshot", "publish"}

(* Where each thread stands, and where it goes on to. *)
Places ==
    /\ at \in [Thread -> Label] /\ then \in [Thread -> Label]
    /\ \A t \in Handler :
          /\ at[t] \in HandlerLabel
          /\ Publishing(t) => then[t] \in {"spawn", "leave", "spawnChat"}
          /\ at[t] = "joinLoader" => then[t] \in {"prepare", "stopChild"}
    /\ at["loader"] \in LoaderLabel
    /\ at["reader"] \in ReaderLabel
    /\ at["chatter"] \in ChatterLabel
    /\ at["closer"] \in CloserLabel
    /\ \A w \in {"loader", "reader", "chatter"} : Publishing(w) => then[w] = "idle"
    /\ at["closer"] \in {"joinChat", "joinLoader"} => then["closer"] = "closeKill"

(* A handler that has joined the engine worker, to start another one ...   *)
Loads(t) == at[t] \in {"prepare", "spawn"} \/ (Publishing(t) /\ then[t] = "spawn")
(* ... or to unload the engine, and one that has joined the chat worker.   *)
Unloads(t) == at[t] \in {"stopChild", "reapChild", "clearPort", "unloaded"}
              \/ (Publishing(t) /\ then[t] = "leave")
Chats(t) == at[t] \in {"readState", "writeState", "spawnChat"}
            \/ (Publishing(t) /\ then[t] = "spawnChat")

Asks(t) == at[t] = "joinChatter" \/ Chats(t)
Locks(t) == at[t] \in {"admit", "admitEngine", "quiet", "joinLoader"} \/ Loads(t) \/ Unloads(t)

(* An operation holds its mutex until it leaves, and once it has joined a
   worker no other can start it.                                           *)
Exclusive ==
    \A t \in Handler :
        /\ Locks(t) => lifecycle = t
        /\ Asks(t) => chatOp = t
        /\ Loads(t) \/ Unloads(t) => at["loader"] = "idle"
        /\ Chats(t) => at["chatter"] = "idle"

Control == HostTypeOK /\ Places /\ Exclusive

-----------------------------------------------------------------------------
(* Chats: while a question is being asked or answered, it is the last      *)
(* message of the conversation, and no other can be asked.                 *)
Message == [role : {"user", "assistant"}, chat : Conversation]
Asked == log # <<>> /\ log[Len(log)] = [role |-> "user", chat |-> chat]

Talking ==
    /\ log \in Seq(Message) /\ chat \in Conversation
    /\ at["chatter"] \in {"stream", "answered"} =>
          generating /\ \A t \in Handler : ~Asks(t)
    /\ \A t \in Handler : Chats(t) => generating
    /\ \A t \in Handler : Asks(t) => Asked
    /\ at["chatter"] = "stream" => Asked

TalkInv == Control /\ Talking /\ RepliesFollowQuestions

-----------------------------------------------------------------------------
(* The engine, when no chat refreshes its state.                           *)
Dead == child.status = "none" /\ ReaderDone
Closing == at["closer"] \in {"reapLast", "closed"}

NoChats ==
    /\ at["chatter"] = "idle"
    /\ \A t \in Handler : ~Asks(t)

(* A startup runs under Loading, over a child that is gone until it is
   launched; an unload reports after its child and log thread have ended.  *)
Startup ==
    /\ at["loader"] \in Starting => engine = "Loading"
    /\ \A t \in Handler : at[t] = "spawn" \/ (Publishing(t) /\ then[t] = "spawn") => engine = "Loading"
    /\ at["loader"] \in {"reapOld", "reapFailed"} => child.status = "none"
    /\ at["loader"] \in {"rebudget", "bindPort", "launch", "report"} => Dead
    /\ at["loader"] \in {"poll", "healthy", "ready"} => child.status # "none" \/ Closing
    /\ \A t \in Handler : at[t] = "reapChild" => child.status = "none"
    /\ \A t \in Handler : at[t] \in {"clearPort", "unloaded"} => Dead

EngineInv == Control /\ NoChats /\ Startup /\ SettledWithoutServer /\ ReadyHasServer

-----------------------------------------------------------------------------
(* Facts about threads and about the tables of labels.                     *)
LEMMA Threads ==
    /\ {"loader", "reader", "chatter", "closer"} \subseteq Thread
    /\ \A t \in Handler :
          t \in Thread /\ t \notin {"loader", "reader", "chatter", "closer"} /\ t # NoThread
    BY HostAssumption DEF Thread

LEMMA Kills ==
    /\ DOMAIN AfterKill = {"stopOld", "failed", "stopChild", "closeKill"}
    /\ AfterKill["stopOld"] = "reapOld" /\ AfterKill["failed"] = "reapFailed"
    /\ AfterKill["stopChild"] = "reapChild" /\ AfterKill["closeKill"] = "reapLast"
    BY DEF AfterKill

LEMMA Reaps ==
    /\ DOMAIN AfterReap = {"reapOld", "reapFailed", "reapChild", "reapLast"}
    /\ AfterReap["reapOld"] = "rebudget" /\ AfterReap["reapFailed"] = "report"
    /\ AfterReap["reapChild"] = "clearPort" /\ AfterReap["reapLast"] = "closed"
    BY DEF AfterReap

-----------------------------------------------------------------------------
(* Type correctness, a lemma for the steps of each kind.                   *)
FlagTypes == {port, pendingReload, cancelled, generating} \subseteq BOOLEAN
DataTypes ==
    /\ DOMAIN at = Thread
    /\ seen \in [Thread -> EngineState] /\ copy \in [Thread -> Config]
    /\ engine \in EngineState /\ bus \in EngineState
    /\ {lifecycle, chatOp} \subseteq Handler \union {NoThread}
    /\ child \in [status : {"none", "starting", "healthy", "serving", "exited"},
                  lines : 0..MaxLines]
    /\ {running, config, wanted} \subseteq Config
    /\ sent \in 0..MaxRequests

LEMMA TypesSplit == HostTypeOK <=> FlagTypes /\ DataTypes
    BY DEF HostTypeOK, FlagTypes, DataTypes

LEMMA InitControl == HostInit => Control /\ Talking /\ RepliesFollowQuestions /\ Startup
                                 /\ NoChats /\ SettledWithoutServer /\ ReadyHasServer
<1> SUFFICES ASSUME NEW c \in Config, NEW active \in Conversation,
                    at = [t \in Thread |-> "idle"], then = [t \in Thread |-> "idle"],
                    seen = [t \in Thread |-> "Stopped"], copy = [t \in Thread |-> c],
                    engine = "Stopped", bus = "Stopped", port = FALSE, pendingReload = FALSE,
                    cancelled = FALSE, generating = FALSE, lifecycle = NoThread, chatOp = NoThread,
                    child = [status |-> "none", lines |-> 0],
                    running = c, config = c, wanted = c, chat = active, log = <<>>, sent = 0
             PROVE  Control /\ Talking /\ RepliesFollowQuestions /\ Startup
                    /\ NoChats /\ SettledWithoutServer /\ ReadyHasServer
    BY DEF HostInit
<1>1. HostTypeOK
  <2>1. FlagTypes
    BY DEF FlagTypes
  <2>2. DataTypes
    BY HostAssumption DEF DataTypes, EngineState
  <2>3. QED
    BY <2>1, <2>2, TypesSplit
<1>2. \A t \in Thread : at[t] = "idle" /\ ~Publishing(t)
    BY DEF Publishing
<1>3. Places
    BY <1>2, Threads DEF Places, HandlerLabel, LoaderLabel, ReaderLabel, ChatterLabel,
        CloserLabel, Label
<1>4. \A t \in Handler : ~Locks(t) /\ ~Asks(t) /\ ~Chats(t) /\ ~Loads(t) /\ ~Unloads(t)
    BY <1>2, Threads DEF Locks, Asks, Chats, Loads, Unloads
<1>5. Exclusive
    BY <1>4 DEF Exclusive
<1>6. Talking /\ RepliesFollowQuestions
    BY <1>2, <1>4, Threads DEF Talking, RepliesFollowQuestions
<1>7. Startup /\ NoChats /\ SettledWithoutServer /\ ReadyHasServer
    BY <1>2, <1>4, Threads DEF Startup, NoChats, SettledWithoutServer, ReadyHasServer,
        ReaderDone, Starting, Closing
<1>8. QED
    BY <1>1, <1>3, <1>5, <1>6, <1>7 DEF Control

(* A request is admitted, or done at once. *)
LEMMA RequestControl ==
    ASSUME Control, NEW t \in Handler, Request(t)
    PROVE  Control'
<1>1. FlagTypes /\ DataTypes
    BY TypesSplit DEF Control
<1>2. FlagTypes'
    BY <1>1, Zenon DEF FlagTypes, Request, EnterLoad, EnterUnload, CancelChat, EnterChat,
        SwitchChat, SelectModel, CopySettings, Arrives,
       engineVars, flags
<1>3. DataTypes'
    BY <1>1, Threads, HostAssumption
       DEF DataTypes, Request, EnterLoad, EnterUnload, CancelChat, EnterChat, SwitchChat,
           SelectModel, CopySettings, Arrives,
       Go, engineVars, flags, locks, settings, talk, regs, Config, EngineState, Places
<1>4. Places'
    BY Threads
       DEF Control, Places, Request, EnterLoad, EnterUnload, CancelChat, EnterChat,
           SwitchChat, SelectModel, CopySettings, Arrives,
       Go, engineVars, flags, locks, settings, talk, regs, Publishing, HandlerLabel,
       LoaderLabel, ReaderLabel, ChatterLabel, CloserLabel,
       Label, Starting
<1>5. Exclusive'
    BY Threads
       DEF Control, Places, Exclusive, Locks, Asks, Loads, Unloads, Chats, Request,
           EnterLoad, EnterUnload, CancelChat, EnterChat, SwitchChat, SelectModel,
           CopySettings, Arrives,
       Go, engineVars, flags, locks, settings, talk, regs, Publishing
<1>6. HostTypeOK'
    BY <1>2, <1>3 DEF HostTypeOK, FlagTypes, DataTypes
<1>7. QED
    BY <1>4, <1>5, <1>6 DEF Control

(* The steps of a load up to the new worker. *)
LEMMA LoadControl ==
    ASSUME Control, NEW t \in Handler, Admit(t) \/ Prepare(t) \/ Spawn(t) \/ Leave(t)
    PROVE  Control'
<1>1. FlagTypes /\ DataTypes
    BY TypesSplit DEF Control
<1>2. FlagTypes'
    BY <1>1, Zenon DEF FlagTypes, Admit, Prepare, Spawn, Leave, SetEngine,
       engineVars, flags
<1>3. DataTypes'
    BY <1>1, Threads, HostAssumption
       DEF DataTypes, Admit, Prepare, Spawn, Leave, SetEngine,
       Go, engineVars, flags, locks, settings, talk, regs, Config, EngineState, Places
<1>4. Places'
    BY Threads
       DEF Control, Places, Admit, Prepare, Spawn, Leave, SetEngine,
       Go, engineVars, flags, locks, settings, talk, regs, Publishing, HandlerLabel,
       LoaderLabel, ReaderLabel, ChatterLabel, CloserLabel,
       Label, Starting
<1>5. Exclusive'
    BY Threads
       DEF Control, Places, Exclusive, Locks, Asks, Loads, Unloads, Chats, Admit, Prepare,
           Spawn, Leave, SetEngine,
       Go, engineVars, flags, locks, settings, talk, regs, Publishing
<1>6. HostTypeOK'
    BY <1>2, <1>3 DEF HostTypeOK, FlagTypes, DataTypes
<1>7. QED
    BY <1>4, <1>5, <1>6 DEF Control

(* The steps of an unload. *)
LEMMA UnloadControl ==
    ASSUME Control, NEW t \in Handler, Quiet(t) \/ ClearPort(t) \/ Unloaded(t)
    PROVE  Control'
<1>1. FlagTypes /\ DataTypes
    BY TypesSplit DEF Control
<1>2. FlagTypes'
    BY <1>1, Zenon DEF FlagTypes, Quiet, ClearPort, Unloaded, SetEngine,
       engineVars, flags
<1>3. DataTypes'
    BY <1>1, Threads, HostAssumption
       DEF DataTypes, Quiet, ClearPort, Unloaded, SetEngine,
       Go, engineVars, flags, locks, settings, talk, regs, Config, EngineState, Places
<1>4. Places'
    BY Threads
       DEF Control, Places, Quiet, ClearPort, Unloaded, SetEngine,
       Go, engineVars, flags, locks, settings, talk, regs, Publishing, HandlerLabel,
       LoaderLabel, ReaderLabel, ChatterLabel, CloserLabel,
       Label, Starting
<1>5. Exclusive'
    BY Threads
       DEF Control, Places, Exclusive, Locks, Asks, Loads, Unloads, Chats, Quiet, ClearPort,
           Unloaded, SetEngine,
       Go, engineVars, flags, locks, settings, talk, regs, Publishing
<1>6. HostTypeOK'
    BY <1>2, <1>3 DEF HostTypeOK, FlagTypes, DataTypes
<1>7. QED
    BY <1>4, <1>5, <1>6 DEF Control

(* The steps of a chat request, and of the edits. *)
LEMMA ChatControl ==
    ASSUME Control, NEW t \in Handler, JoinChatter(t) \/ SpawnChat(t) \/ Flag(t) \/ WriteSettings(t)
    PROVE  Control'
<1>1. FlagTypes /\ DataTypes
    BY TypesSplit DEF Control
<1>2. FlagTypes'
    BY <1>1, Zenon DEF FlagTypes, JoinChatter, SpawnChat, Flag, WriteSettings,
       engineVars, flags
<1>3. DataTypes'
    BY <1>1, Threads, HostAssumption
       DEF DataTypes, JoinChatter, SpawnChat, Flag, WriteSettings,
       Go, engineVars, flags, locks, settings, talk, regs, Config, EngineState, Places
<1>4. Places'
    BY Threads
       DEF Control, Places, JoinChatter, SpawnChat, Flag, WriteSettings,
       Go, engineVars, flags, locks, settings, talk, regs, Publishing, HandlerLabel,
       LoaderLabel, ReaderLabel, ChatterLabel, CloserLabel,
       Label, Starting
<1>5. Exclusive'
    BY Threads
       DEF Control, Places, Exclusive, Locks, Asks, Loads, Unloads, Chats, JoinChatter,
           SpawnChat, Flag, WriteSettings,
       Go, engineVars, flags, locks, settings, talk, regs, Publishing
<1>6. HostTypeOK'
    BY <1>2, <1>3 DEF HostTypeOK, FlagTypes, DataTypes
<1>7. QED
    BY <1>4, <1>5, <1>6 DEF Control

(* The engine worker. *)
LEMMA LoaderControl ==
    ASSUME Control, Validate \/ Rebudget \/ BindPort \/ Launch \/ Poll \/ Healthy \/ Report
    PROVE  Control'
<1>1. FlagTypes /\ DataTypes
    BY TypesSplit DEF Control
<1>2. FlagTypes'
    BY <1>1, Zenon DEF FlagTypes, Validate, Rebudget, BindPort, Launch, Poll, Healthy,
        Report, SetEngine,
       engineVars, flags
<1>3. DataTypes'
    BY <1>1, Threads, HostAssumption
       DEF DataTypes, Validate, Rebudget, BindPort, Launch, Poll, Healthy, Report,
           SetEngine,
       Go, engineVars, flags, locks, settings, talk, regs, Config, EngineState, Places
<1>4. Places'
    BY Threads
       DEF Control, Places, Validate, Rebudget, BindPort, Launch, Poll, Healthy, Report,
           SetEngine,
       Go, engineVars, flags, locks, settings, talk, regs, Publishing, HandlerLabel,
       LoaderLabel, ReaderLabel, ChatterLabel, CloserLabel,
       Label, Starting
<1>5. Exclusive'
    BY Threads
       DEF Control, Places, Exclusive, Locks, Asks, Loads, Unloads, Chats, Validate,
           Rebudget, BindPort, Launch, Poll, Healthy, Report, SetEngine,
       Go, engineVars, flags, locks, settings, talk, regs, Publishing
<1>6. HostTypeOK'
    BY <1>2, <1>3 DEF HostTypeOK, FlagTypes, DataTypes
<1>7. QED
    BY <1>4, <1>5, <1>6 DEF Control

(* The log thread, the chat worker, the child and the shutdown. *)
LEMMA OthersControl ==
    ASSUME Control, ReadLine \/ EndStream \/ Answered \/ JoinChat \/ Shutdown \/ ChildStep
    PROVE  Control'
<1>1. FlagTypes /\ DataTypes
    BY TypesSplit DEF Control
<1>2. FlagTypes'
    BY <1>1, Zenon DEF FlagTypes, ReadLine, EndStream, Answered, JoinChat, Shutdown,
        ChildStep, SetEngine, Alive,
       engineVars, flags
<1>3. DataTypes'
    BY <1>1, Threads, HostAssumption
       DEF DataTypes, ReadLine, EndStream, Answered, JoinChat, Shutdown, ChildStep,
           SetEngine, Alive,
       Go, engineVars, flags, locks, settings, talk, regs, Config, EngineState, Places
<1>4. Places'
    BY Threads
       DEF Control, Places, ReadLine, EndStream, Answered, JoinChat, Shutdown, ChildStep,
           SetEngine, Alive,
       Go, engineVars, flags, locks, settings, talk, regs, Publishing, HandlerLabel,
       LoaderLabel, ReaderLabel, ChatterLabel, CloserLabel,
       Label, Starting
<1>5. Exclusive'
    BY Threads
       DEF Control, Places, Exclusive, Locks, Asks, Loads, Unloads, Chats, ReadLine,
           EndStream, Answered, JoinChat, Shutdown, ChildStep, SetEngine, Alive,
       Go, engineVars, flags, locks, settings, talk, regs, Publishing
<1>6. HostTypeOK'
    BY <1>2, <1>3 DEF HostTypeOK, FlagTypes, DataTypes
<1>7. QED
    BY <1>4, <1>5, <1>6 DEF Control

(* An event of the engine is published, by any thread. *)
LEMMA PublishControl ==
    ASSUME Control, NEW t \in Thread, Snapshot(t) \/ Publish(t) \/ ReadState(t) \/ WriteState(t)
    PROVE  Control'
<1>1. FlagTypes /\ DataTypes
    BY TypesSplit DEF Control
<1>2. FlagTypes'
    BY <1>1, Zenon DEF FlagTypes, Snapshot, Publish, ReadState, WriteState, SetEngine,
       engineVars, flags
<1>3. DataTypes'
    BY <1>1, Threads, HostAssumption
       DEF DataTypes, Snapshot, Publish, ReadState, WriteState, SetEngine,
       Go, engineVars, flags, locks, settings, talk, regs, Config, EngineState, Places
<1>4. Places'
    BY Threads
       DEF Control, Places, Snapshot, Publish, ReadState, WriteState, SetEngine,
       Go, engineVars, flags, locks, settings, talk, regs, Publishing, HandlerLabel,
       LoaderLabel, ReaderLabel, ChatterLabel, CloserLabel,
       Label, Starting
<1>5. Exclusive'
    BY Threads
       DEF Control, Places, Exclusive, Locks, Asks, Loads, Unloads, Chats, Snapshot,
           Publish, ReadState, WriteState, SetEngine,
       Go, engineVars, flags, locks, settings, talk, regs, Publishing
<1>6. HostTypeOK'
    BY <1>2, <1>3 DEF HostTypeOK, FlagTypes, DataTypes
<1>7. QED
    BY <1>4, <1>5, <1>6 DEF Control

(* The child is killed and its log thread joined, by any thread. *)
LEMMA StopControl ==
    ASSUME Control, NEW t \in Thread, Kill(t) \/ Reap(t) \/ JoinLoader(t)
    PROVE  Control'
<1>1. FlagTypes /\ DataTypes
    BY TypesSplit DEF Control
<1>2. FlagTypes'
    BY <1>1, Zenon DEF FlagTypes, Kill, Reap, JoinLoader, ReaderDone,
       engineVars, flags
<1>3. DataTypes'
    BY <1>1, Threads, HostAssumption
       DEF DataTypes, Kill, Reap, JoinLoader, ReaderDone,
       Go, engineVars, flags, locks, settings, talk, regs, Config, EngineState, Places
<1>4. Places'
    BY Threads, Kills, Reaps
       DEF Control, Places, Kill, Reap, JoinLoader, ReaderDone,
       Go, engineVars, flags, locks, settings, talk, regs, Publishing, HandlerLabel,
       LoaderLabel, ReaderLabel, ChatterLabel, CloserLabel,
       Label, Starting
<1>5. Exclusive'
    BY Threads, Kills, Reaps
       DEF Control, Places, Exclusive, Locks, Asks, Loads, Unloads, Chats, Kill, Reap,
           JoinLoader, ReaderDone,
       Go, engineVars, flags, locks, settings, talk, regs, Publishing
<1>6. HostTypeOK'
    BY <1>2, <1>3 DEF HostTypeOK, FlagTypes, DataTypes
<1>7. QED
    BY <1>4, <1>5, <1>6 DEF Control

(* Every step of the host keeps control. *)
LEMMA ControlInductive ==
    ASSUME Control, [HostNext]_vars
    PROVE  Control'
<1>1. CASE \E t \in Handler : Request(t) \/ HandlerStep(t)
  <2> SUFFICES ASSUME NEW t \in Handler, Request(t) \/ HandlerStep(t)
               PROVE  Control'
      BY <1>1
  <2>1. t \in Thread
    BY Threads
  <2>2. QED
    BY <2>1, RequestControl, LoadControl, UnloadControl, ChatControl, PublishControl,
        StopControl
       DEF HandlerStep, SharedStep
<1>2. CASE Loader \/ Reader \/ Chatter \/ Closer
    BY <1>2, Threads, LoaderControl, OthersControl, PublishControl, StopControl
       DEF Loader, Reader, Chatter, Closer, SharedStep
<1>3. CASE ChildStep \/ Shutdown
    BY <1>3, OthersControl
<1>4. CASE UNCHANGED vars
  <2>1. HostTypeOK'
    <3>1. FlagTypes' /\ DataTypes'
        BY <1>4, TypesSplit DEF Control, FlagTypes, DataTypes, vars, engineVars, flags,
            locks, settings, talk, regs
    <3>2. QED
        BY <3>1 DEF HostTypeOK, FlagTypes, DataTypes
  <2>2. Places' /\ Exclusive'
    BY <1>4 DEF Control, Places, Exclusive, Locks, Asks, Loads, Unloads, Chats, Publishing,
           vars, locks, regs
  <2>3. QED
    BY <2>1, <2>2 DEF Control
<1>5. QED
    BY <1>1, <1>2, <1>3, <1>4 DEF HostNext

LEMMA ControlAlways == HostSpec => []Control
    BY InitControl, ControlInductive, PTL DEF HostSpec

(* The host's state is well formed whatever the requests. *)
THEOREM HostTypeCorrect == HostSpec => []HostTypeOK
<1>1. Control => HostTypeOK
    BY DEF Control
<1>2. QED
    BY <1>1, ControlAlways, PTL

(* No worker is assigned over one that has not been joined: the mutexes and
   the joins of start_engine and run_chat suffice, with any number of
   request threads (control.cpp 416, 569).                                 *)
THEOREM WorkersJoined == HostSpec => []ThreadsJoined
<1>1. Control => ThreadsJoined
    BY DEF Control, Exclusive, Loads, Chats, ThreadsJoined
<1>2. QED
    BY <1>1, ControlAlways, PTL

-----------------------------------------------------------------------------
(* Chats.                                                                  *)

(* The steps that write no message. *)
SaysNothing ==
    \/ \E t \in Handler :
          \/ EnterLoad(t) \/ EnterUnload(t) \/ CancelChat(t) \/ SelectModel(t) \/ CopySettings(t)
          \/ HandlerStep(t)
    \/ Loader \/ Reader \/ Answered \/ SharedStep("chatter") \/ Closer \/ ChildStep \/ Shutdown

LEMMA KeepsTalking ==
    ASSUME Control, Talking, SaysNothing
    PROVE  Talking' /\ UNCHANGED log
<1>1. ASSUME NEW t \in Handler,
             EnterLoad(t) \/ EnterUnload(t) \/ CancelChat(t) \/ SelectModel(t) \/ CopySettings(t)
      PROVE  Talking' /\ UNCHANGED log
    BY <1>1, Threads
       DEF Control, Places, Exclusive, Talking, Asked, Asks, Chats, Go, Publishing,
           HandlerLabel,
           LoaderLabel, ReaderLabel, ChatterLabel, CloserLabel, Label, Starting, engineVars,
           flags, locks, settings, talk, regs,
           EnterLoad, EnterUnload, CancelChat, SelectModel, CopySettings, Arrives
<1>2. ASSUME NEW t \in Handler, Admit(t) \/ Prepare(t) \/ Spawn(t) \/ Leave(t)
      PROVE  Talking' /\ UNCHANGED log
    BY <1>2, Threads
       DEF Control, Places, Exclusive, Talking, Asked, Asks, Chats, Go, Publishing,
           HandlerLabel,
           LoaderLabel, ReaderLabel, ChatterLabel, CloserLabel, Label, Starting, engineVars,
           flags, locks, settings, talk, regs,
           Admit, Prepare, Spawn, Leave, SetEngine
<1>3. ASSUME NEW t \in Handler, Quiet(t) \/ ClearPort(t) \/ Unloaded(t)
      PROVE  Talking' /\ UNCHANGED log
    BY <1>3, Threads
       DEF Control, Places, Exclusive, Talking, Asked, Asks, Chats, Go, Publishing,
           HandlerLabel,
           LoaderLabel, ReaderLabel, ChatterLabel, CloserLabel, Label, Starting, engineVars,
           flags, locks, settings, talk, regs,
           Quiet, ClearPort, Unloaded, SetEngine
<1>4. ASSUME NEW t \in Handler, JoinChatter(t) \/ SpawnChat(t) \/ Flag(t) \/ WriteSettings(t)
      PROVE  Talking' /\ UNCHANGED log
    BY <1>4, Threads
       DEF Control, Places, Exclusive, Talking, Asked, Asks, Chats, Go, Publishing,
           HandlerLabel,
           LoaderLabel, ReaderLabel, ChatterLabel, CloserLabel, Label, Starting, engineVars,
           flags, locks, settings, talk, regs,
           JoinChatter, SpawnChat, Flag, WriteSettings
<1>5. ASSUME Validate \/ Rebudget \/ BindPort \/ Launch \/ Poll \/ Healthy \/ Report
      PROVE  Talking' /\ UNCHANGED log
    BY <1>5, Threads
       DEF Control, Places, Exclusive, Talking, Asked, Asks, Chats, Go, Publishing,
           HandlerLabel,
           LoaderLabel, ReaderLabel, ChatterLabel, CloserLabel, Label, Starting, engineVars,
           flags, locks, settings, talk, regs,
           Validate, Rebudget, BindPort, Launch, Poll, Healthy, Report, SetEngine
<1>6. ASSUME ReadLine \/ Answered \/ JoinChat \/ Shutdown \/ ChildStep
      PROVE  Talking' /\ UNCHANGED log
    BY <1>6, Threads
       DEF Control, Places, Exclusive, Talking, Asked, Asks, Chats, Go, Publishing,
           HandlerLabel,
           LoaderLabel, ReaderLabel, ChatterLabel, CloserLabel, Label, Starting, engineVars,
           flags, locks, settings, talk, regs,
           ReadLine, Answered, JoinChat, Shutdown, ChildStep, SetEngine, Alive
<1>7. ASSUME NEW t \in Thread, Snapshot(t) \/ Publish(t) \/ ReadState(t) \/ WriteState(t)
      PROVE  Talking' /\ UNCHANGED log
    BY <1>7, Threads
       DEF Control, Places, Exclusive, Talking, Asked, Asks, Chats, Go, Publishing,
           HandlerLabel,
           LoaderLabel, ReaderLabel, ChatterLabel, CloserLabel, Label, Starting, engineVars,
           flags, locks, settings, talk, regs,
           Snapshot, Publish, ReadState, WriteState, SetEngine
<1>8. ASSUME NEW t \in Thread, Kill(t) \/ Reap(t) \/ JoinLoader(t)
      PROVE  Talking' /\ UNCHANGED log
    BY <1>8, Threads, Kills, Reaps
       DEF Control, Places, Exclusive, Talking, Asked, Asks, Chats, Go, Publishing,
           HandlerLabel,
           LoaderLabel, ReaderLabel, ChatterLabel, CloserLabel, Label, Starting, engineVars,
           flags, locks, settings, talk, regs,
           Kill, Reap, JoinLoader, ReaderDone
<1>9. ASSUME NEW t \in Handler, HandlerStep(t)
      PROVE  Talking' /\ UNCHANGED log
  <2>1. t \in Thread
    BY Threads
  <2>2. QED
    BY <1>9, <2>1, <1>2, <1>3, <1>4, <1>7, <1>8 DEF HandlerStep, SharedStep
<1>10. QED
    BY Threads, <1>1, <1>5, <1>6, <1>7, <1>8, <1>9 DEF SaysNothing, Loader, Reader, Closer,
        SharedStep

(* A message appended is the last; the ones before stay where they were. *)
LEMMA Appends ==
    ASSUME Talking, NEW m \in Message, log' = Append(log, m)
    PROVE  /\ log' \in Seq(Message) /\ log' # <<>> /\ log'[Len(log')] = m
           /\ RepliesFollowQuestions
              /\ (m.role = "assistant" => log # <<>> /\ log[Len(log)] = [role |-> "user", chat |-> m.chat])
              => RepliesFollowQuestions'
<1>1. log \in Seq(Message) /\ Len(log) \in Nat
    BY LenProperties DEF Talking
<1>2. /\ log' \in Seq(Message) /\ Len(log') = Len(log) + 1
      /\ \A i \in 1..Len(log) : log'[i] = log[i]
      /\ log'[Len(log) + 1] = m
    BY <1>1, AppendProperties
<1>3. log' # <<>>
    BY <1>1, <1>2
<1>4. ASSUME RepliesFollowQuestions,
             m.role = "assistant" => log # <<>> /\ log[Len(log)] = [role |-> "user", chat |-> m.chat]
      PROVE  RepliesFollowQuestions'
  <2> SUFFICES ASSUME NEW i \in 1..Len(log'), log'[i].role = "assistant"
               PROVE  i > 1 /\ log'[i - 1] = [role |-> "user", chat |-> log'[i].chat]
      BY DEF RepliesFollowQuestions
  <2>1. CASE i \in 1..Len(log)
    <3>1. log'[i] = log[i] /\ i > 1 /\ log[i - 1] = [role |-> "user", chat |-> log[i].chat]
        BY <1>2, <1>4, <2>1 DEF RepliesFollowQuestions
    <3>2. i - 1 \in 1..Len(log)
        BY <1>1, <2>1, <3>1
    <3>3. QED
        BY <1>2, <3>1, <3>2
  <2>2. CASE i = Len(log) + 1
    <3>1. log'[i] = m /\ log # <<>> /\ log[Len(log)] = [role |-> "user", chat |-> m.chat]
        BY <1>2, <1>4, <2>2
    <3>2. Len(log) \in 1..Len(log)
        BY <1>1, <3>1, EmptySeq
    <3>3. log'[i - 1] = log[Len(log)] /\ i > 1
        BY <1>1, <1>2, <2>2, <3>2
    <3>4. QED
        BY <3>1, <3>3
  <2>3. QED
    BY <1>1, <1>2, <2>1, <2>2
<1>5. QED
    BY <1>2, <1>3, <1>4

LEMMA EnterChatTalks ==
    ASSUME TalkInv, NEW t \in Handler, EnterChat(t)
    PROVE  Talking' /\ RepliesFollowQuestions'
<1> DEFINE m == [role |-> "user", chat |-> chat]
<1>1. m \in Message /\ m.role # "assistant" /\ log' = Append(log, m) /\ chat' = chat
    BY DEF TalkInv, Talking, Message, EnterChat
<1>2. log' \in Seq(Message) /\ log' # <<>> /\ log'[Len(log')] = m /\ RepliesFollowQuestions'
    BY <1>1, Appends DEF TalkInv
<1>3. Asked'
    BY <1>1, <1>2 DEF Asked
<1>4. \A u \in Handler : ~Asks(u)
    BY Threads DEF TalkInv, Control, Exclusive, EnterChat
<1>5. ~generating /\ generating' = generating /\ at["chatter"] \notin {"stream", "answered"}
    BY DEF TalkInv, Talking, EnterChat, flags
<1>6. at' = [at EXCEPT ![t] = "joinChatter"] /\ then' = then /\ at \in [Thread -> Label]
    BY DEF EnterChat, Go, regs, TalkInv, Control, Places
<1>7. at'["chatter"] = at["chatter"] /\ \A u \in Handler : ~Chats(u)'
    BY <1>4, <1>6, Threads DEF Asks, Chats, Publishing
<1>8. QED
    BY <1>1, <1>2, <1>3, <1>5, <1>7 DEF Talking, TalkInv

LEMMA EndStreamTalks ==
    ASSUME TalkInv, EndStream
    PROVE  Talking' /\ RepliesFollowQuestions'
<1> DEFINE m == [role |-> "assistant", chat |-> chat]
<1>1. m \in Message /\ m.chat = chat /\ chat' = chat /\ Asked
    BY DEF TalkInv, Talking, Message, EndStream
<1>2. log' \in Seq(Message) /\ RepliesFollowQuestions'
  <2>1. CASE log' = log
    BY <2>1 DEF TalkInv, Talking, RepliesFollowQuestions
  <2>2. CASE log' = Append(log, m)
    BY <1>1, <2>2, Appends DEF TalkInv, Asked
  <2>3. QED
    BY <2>1, <2>2 DEF EndStream
<1>3. at' = [at EXCEPT !["chatter"] = "answered"] /\ then' = then /\ at \in [Thread -> Label]
    BY DEF EndStream, Go, regs, TalkInv, Control, Places
<1>4. generating /\ generating' = generating /\ \A u \in Handler : ~Asks(u)
    BY DEF TalkInv, Talking, EndStream, flags
<1>5. at'["chatter"] = "answered" /\ \A u \in Handler : ~Asks(u)' /\ ~Chats(u)'
    BY <1>3, <1>4, Threads DEF Asks, Chats, Publishing
<1>6. QED
    BY <1>1, <1>2, <1>4, <1>5 DEF Talking, TalkInv

(* No conversation is switched under a question. *)
LEMMA SwitchTalks ==
    ASSUME TalkInv, NEW t \in Handler, SwitchChat(t)
    PROVE  Talking' /\ RepliesFollowQuestions'
<1>1. UNCHANGED <<at, then, log, generating>> /\ chat' \in Conversation
    BY DEF SwitchChat, regs, flags
<1>2. \A u \in Handler : ~Asks(u)
    BY Threads DEF TalkInv, Control, Exclusive, SwitchChat
<1>3. at["chatter"] \notin {"stream", "answered"}
    BY DEF TalkInv, Talking, SwitchChat
<1>4. QED
    BY <1>1, <1>2, <1>3 DEF TalkInv, Talking, RepliesFollowQuestions, Asks, Chats,
        Publishing

LEMMA TalkInductive ==
    ASSUME TalkInv, [HostNext]_vars
    PROVE  TalkInv'
<1>1. Control'
    BY ControlInductive DEF TalkInv
<1>2. CASE SaysNothing
    BY <1>1, <1>2, KeepsTalking DEF TalkInv, RepliesFollowQuestions
<1>3. CASE \E t \in Handler : EnterChat(t) \/ SwitchChat(t)
    BY <1>1, <1>3, EnterChatTalks, SwitchTalks DEF TalkInv
<1>4. CASE EndStream
    BY <1>1, <1>4, EndStreamTalks DEF TalkInv
<1>5. CASE UNCHANGED vars
  <2>1. Talking' /\ RepliesFollowQuestions'
    BY <1>5 DEF TalkInv, Talking, Asked, Asks, Chats, Publishing, RepliesFollowQuestions,
        vars, talk, flags, regs
  <2>2. QED
    BY <1>1, <2>1 DEF TalkInv
<1>6. QED
    BY <1>2, <1>3, <1>4, <1>5 DEF HostNext, SaysNothing, Request, Chatter

(* Every reply follows its question in its own conversation: a question is
   the last message as long as it is being asked or answered
   (control.cpp 555-640).                                                  *)
THEOREM RepliesInPlace == HostSpec => []RepliesFollowQuestions
<1>1. HostInit => TalkInv
    BY InitControl DEF TalkInv
<1>2. TalkInv => RepliesFollowQuestions
    BY DEF TalkInv
<1>3. QED
    BY <1>1, <1>2, TalkInductive, PTL DEF HostSpec

-----------------------------------------------------------------------------
(* The engine.                                                             *)
EngineParts == NoChats /\ Startup /\ SettledWithoutServer /\ ReadyHasServer

(* Requests only admit; none of them is a chat. *)
LEMMA RequestEngine ==
    ASSUME EngineInv, "chat" \notin Requests, NEW t \in Handler, Request(t)
    PROVE  EngineParts'
    BY Threads
       DEF EngineParts, EngineInv, Control, HostTypeOK, EngineState, Places, Exclusive,
           Loads, Unloads, Locks, NoChats, Asks, Chats, Startup, Dead, ReaderDone, Closing,
           SettledWithoutServer, ReadyHasServer, Go, Publishing, HandlerLabel, LoaderLabel,
           ReaderLabel, ChatterLabel, CloserLabel, Label, Starting, engineVars, flags,
           locks,
           settings, talk, regs, Request, EnterLoad, EnterUnload, CancelChat, EnterChat,
           SwitchChat, SelectModel, CopySettings, Arrives

(* A load sets Loading before the worker exists. *)
LEMMA LoadEngine ==
    ASSUME EngineInv, NEW t \in Handler, Admit(t) \/ Prepare(t) \/ Spawn(t) \/ Leave(t)
    PROVE  EngineParts'
    BY Threads
       DEF EngineParts, EngineInv, Control, HostTypeOK, EngineState, Places, Exclusive,
           Loads, Unloads, Locks, NoChats, Asks, Chats, Startup, Dead, ReaderDone, Closing,
           SettledWithoutServer, ReadyHasServer, Go, Publishing, HandlerLabel, LoaderLabel,
           ReaderLabel, ChatterLabel, CloserLabel, Label, Starting, engineVars, flags,
           locks,
           settings, talk, regs, Admit, Prepare, Spawn, Leave, SetEngine

(* An unload reports Stopped over a child that has ended. *)
LEMMA UnloadEngine ==
    ASSUME EngineInv, NEW t \in Handler, Quiet(t) \/ ClearPort(t) \/ Unloaded(t)
    PROVE  EngineParts'
    BY Threads
       DEF EngineParts, EngineInv, Control, HostTypeOK, EngineState, Places, Exclusive,
           Loads, Unloads, Locks, NoChats, Asks, Chats, Startup, Dead, ReaderDone, Closing,
           SettledWithoutServer, ReadyHasServer, Go, Publishing, HandlerLabel, LoaderLabel,
           ReaderLabel, ChatterLabel, CloserLabel, Label, Starting, engineVars, flags,
           locks,
           settings, talk, regs, Quiet, ClearPort, Unloaded, SetEngine

(* The edits of the settings do not touch the engine. *)
LEMMA EditEngine ==
    ASSUME EngineInv, NEW t \in Handler, JoinChatter(t) \/ SpawnChat(t) \/ Flag(t) \/ WriteSettings(t)
    PROVE  EngineParts'
    BY Threads
       DEF EngineParts, EngineInv, Control, HostTypeOK, EngineState, Places, Exclusive,
           Loads, Unloads, Locks, NoChats, Asks, Chats, Startup, Dead, ReaderDone, Closing,
           SettledWithoutServer, ReadyHasServer, Go, Publishing, HandlerLabel, LoaderLabel,
           ReaderLabel, ChatterLabel, CloserLabel, Label, Starting, engineVars, flags,
           locks,
           settings, talk, regs, JoinChatter, SpawnChat, Flag, WriteSettings

(* The worker reports Ready over its child, Error once it is gone. *)
LEMMA LoaderEngine ==
    ASSUME EngineInv, Validate \/ Rebudget \/ BindPort \/ Launch \/ Poll \/ Healthy \/ Report
    PROVE  EngineParts'
    BY Threads
       DEF EngineParts, EngineInv, Control, HostTypeOK, EngineState, Places, Exclusive,
           Loads, Unloads, Locks, NoChats, Asks, Chats, Startup, Dead, ReaderDone, Closing,
           SettledWithoutServer, ReadyHasServer, Go, Publishing, HandlerLabel, LoaderLabel,
           ReaderLabel, ChatterLabel, CloserLabel, Label, Starting, engineVars, flags,
           locks,
           settings, talk, regs, Validate, Rebudget, BindPort, Launch, Poll, Healthy,
           Report,
           SetEngine

(* A line is read only while there is one; the child comes back only by Launch. *)
LEMMA OthersEngine ==
    ASSUME EngineInv, ReadLine \/ EndStream \/ Answered \/ JoinChat \/ Shutdown \/ ChildStep
    PROVE  EngineParts'
    BY Threads
       DEF EngineParts, EngineInv, Control, HostTypeOK, EngineState, Places, Exclusive,
           Loads, Unloads, Locks, NoChats, Asks, Chats, Startup, Dead, ReaderDone, Closing,
           SettledWithoutServer, ReadyHasServer, Go, Publishing, HandlerLabel, LoaderLabel,
           ReaderLabel, ChatterLabel, CloserLabel, Label, Starting, engineVars, flags,
           locks,
           settings, talk, regs, ReadLine, EndStream, Answered, JoinChat, Shutdown,
           ChildStep,
           SetEngine, Alive

(* A handler reads the engine's state to publish it. *)
LEMMA SnapshotByHandler ==
    ASSUME EngineInv, NEW t \in Handler, Snapshot(t)
    PROVE  EngineParts'
    BY Threads
       DEF EngineParts, EngineInv, Control, HostTypeOK, EngineState, Places, Exclusive,
           Loads, Unloads, Locks, NoChats, Asks, Chats, Startup, Dead, ReaderDone, Closing,
           SettledWithoutServer, ReadyHasServer, Go, Publishing, HandlerLabel, LoaderLabel,
           ReaderLabel, ChatterLabel, CloserLabel, Label, Starting, engineVars, flags,
           locks,
           settings, talk, regs, Snapshot

(* The same by another thread. *)
LEMMA SnapshotByWorker ==
    ASSUME EngineInv, NEW t \in {"loader", "reader", "chatter", "closer"}, Snapshot(t)
    PROVE  EngineParts'
    BY Threads
       DEF EngineParts, EngineInv, Control, HostTypeOK, EngineState, Places, Exclusive,
           Loads, Unloads, Locks, NoChats, Asks, Chats, Startup, Dead, ReaderDone, Closing,
           SettledWithoutServer, ReadyHasServer, Go, Publishing, HandlerLabel, LoaderLabel,
           ReaderLabel, ChatterLabel, CloserLabel, Label, Starting, engineVars, flags,
           locks,
           settings, talk, regs, Snapshot

(* A handler publishes it and goes on. *)
LEMMA PublishByHandler ==
    ASSUME EngineInv, NEW t \in Handler, Publish(t)
    PROVE  EngineParts'
    BY Threads
       DEF EngineParts, EngineInv, Control, HostTypeOK, EngineState, Places, Exclusive,
           Loads, Unloads, Locks, NoChats, Asks, Chats, Startup, Dead, ReaderDone, Closing,
           SettledWithoutServer, ReadyHasServer, Go, Publishing, HandlerLabel, LoaderLabel,
           ReaderLabel, ChatterLabel, CloserLabel, Label, Starting, engineVars, flags,
           locks,
           settings, talk, regs, Publish

(* The same by another thread. *)
LEMMA PublishByWorker ==
    ASSUME EngineInv, NEW t \in {"loader", "reader", "chatter", "closer"}, Publish(t)
    PROVE  EngineParts'
    BY Threads
       DEF EngineParts, EngineInv, Control, HostTypeOK, EngineState, Places, Exclusive,
           Loads, Unloads, Locks, NoChats, Asks, Chats, Startup, Dead, ReaderDone, Closing,
           SettledWithoutServer, ReadyHasServer, Go, Publishing, HandlerLabel, LoaderLabel,
           ReaderLabel, ChatterLabel, CloserLabel, Label, Starting, engineVars, flags,
           locks,
           settings, talk, regs, Publish

(* A handler kills the child. *)
LEMMA KillByHandler ==
    ASSUME EngineInv, NEW t \in Handler, Kill(t)
    PROVE  EngineParts'
    BY Threads, Kills
       DEF EngineParts, EngineInv, Control, HostTypeOK, EngineState, Places, Exclusive,
           Loads, Unloads, Locks, NoChats, Asks, Chats, Startup, Dead, ReaderDone, Closing,
           SettledWithoutServer, ReadyHasServer, Go, Publishing, HandlerLabel, LoaderLabel,
           ReaderLabel, ChatterLabel, CloserLabel, Label, Starting, engineVars, flags,
           locks,
           settings, talk, regs, Kill

(* The same by another thread. *)
LEMMA KillByWorker ==
    ASSUME EngineInv, NEW t \in {"loader", "reader", "chatter", "closer"}, Kill(t)
    PROVE  EngineParts'
    BY Threads, Kills
       DEF EngineParts, EngineInv, Control, HostTypeOK, EngineState, Places, Exclusive,
           Loads, Unloads, Locks, NoChats, Asks, Chats, Startup, Dead, ReaderDone, Closing,
           SettledWithoutServer, ReadyHasServer, Go, Publishing, HandlerLabel, LoaderLabel,
           ReaderLabel, ChatterLabel, CloserLabel, Label, Starting, engineVars, flags,
           locks,
           settings, talk, regs, Kill

(* A handler joins the log thread. *)
LEMMA ReapByHandler ==
    ASSUME EngineInv, NEW t \in Handler, Reap(t)
    PROVE  EngineParts'
    BY Threads, Reaps
       DEF EngineParts, EngineInv, Control, HostTypeOK, EngineState, Places, Exclusive,
           Loads, Unloads, Locks, NoChats, Asks, Chats, Startup, Dead, ReaderDone, Closing,
           SettledWithoutServer, ReadyHasServer, Go, Publishing, HandlerLabel, LoaderLabel,
           ReaderLabel, ChatterLabel, CloserLabel, Label, Starting, engineVars, flags,
           locks,
           settings, talk, regs, Reap

(* The same by another thread. *)
LEMMA ReapByWorker ==
    ASSUME EngineInv, NEW t \in {"loader", "reader", "chatter", "closer"}, Reap(t)
    PROVE  EngineParts'
    BY Threads, Reaps
       DEF EngineParts, EngineInv, Control, HostTypeOK, EngineState, Places, Exclusive,
           Loads, Unloads, Locks, NoChats, Asks, Chats, Startup, Dead, ReaderDone, Closing,
           SettledWithoutServer, ReadyHasServer, Go, Publishing, HandlerLabel, LoaderLabel,
           ReaderLabel, ChatterLabel, CloserLabel, Label, Starting, engineVars, flags,
           locks,
           settings, talk, regs, Reap

(* A handler joins the engine worker. *)
LEMMA JoinByHandler ==
    ASSUME EngineInv, NEW t \in Handler, JoinLoader(t)
    PROVE  EngineParts'
    BY Threads
       DEF EngineParts, EngineInv, Control, HostTypeOK, EngineState, Places, Exclusive,
           Loads, Unloads, Locks, NoChats, Asks, Chats, Startup, Dead, ReaderDone, Closing,
           SettledWithoutServer, ReadyHasServer, Go, Publishing, HandlerLabel, LoaderLabel,
           ReaderLabel, ChatterLabel, CloserLabel, Label, Starting, engineVars, flags,
           locks,
           settings, talk, regs, JoinLoader

(* The same by another thread. *)
LEMMA JoinByWorker ==
    ASSUME EngineInv, NEW t \in {"loader", "reader", "chatter", "closer"}, JoinLoader(t)
    PROVE  EngineParts'
    BY Threads
       DEF EngineParts, EngineInv, Control, HostTypeOK, EngineState, Places, Exclusive,
           Loads, Unloads, Locks, NoChats, Asks, Chats, Startup, Dead, ReaderDone, Closing,
           SettledWithoutServer, ReadyHasServer, Go, Publishing, HandlerLabel, LoaderLabel,
           ReaderLabel, ChatterLabel, CloserLabel, Label, Starting, engineVars, flags,
           locks,
           settings, talk, regs, JoinLoader

(* Without chats nobody refreshes the engine's state. *)
LEMMA NoRefresh ==
    ASSUME EngineInv, NEW t \in Thread, ReadState(t) \/ WriteState(t)
    PROVE  FALSE
    BY DEF Thread, EngineInv, Control, Places, NoChats, Asks, Chats, ReadState, WriteState,
           LoaderLabel, ReaderLabel, CloserLabel, Starting

LEMMA SharedEngine ==
    ASSUME EngineInv, NEW t \in Thread, SharedStep(t)
    PROVE  EngineParts'
<1>1. CASE t \in Handler
    BY <1>1, SnapshotByHandler, PublishByHandler, KillByHandler, ReapByHandler,
        JoinByHandler,
       NoRefresh DEF SharedStep
<1>2. CASE t \in {"loader", "reader", "chatter", "closer"}
    BY <1>2, SnapshotByWorker, PublishByWorker, KillByWorker, ReapByWorker, JoinByWorker,
       NoRefresh DEF SharedStep
<1>3. QED
    BY <1>1, <1>2 DEF Thread

LEMMA EngineInductive ==
    ASSUME EngineInv, "chat" \notin Requests, [HostNext]_vars
    PROVE  EngineInv'
<1>1. Control'
    BY ControlInductive DEF EngineInv
<1>2. CASE \E t \in Handler : Request(t) \/ HandlerStep(t)
  <2> SUFFICES ASSUME NEW t \in Handler, Request(t) \/ HandlerStep(t)
               PROVE  EngineParts'
      BY <1>1, <1>2 DEF EngineInv, EngineParts
  <2>1. t \in Thread
    BY Threads
  <2>2. QED
    BY <2>1, RequestEngine, LoadEngine, UnloadEngine, EditEngine, SharedEngine DEF
        HandlerStep
<1>3. CASE Loader \/ Reader \/ Chatter \/ Closer \/ ChildStep \/ Shutdown
  <2>1. EngineParts'
    BY <1>3, Threads, LoaderEngine, OthersEngine, SharedEngine DEF Loader, Reader, Chatter,
        Closer
  <2>2. QED
    BY <1>1, <2>1 DEF EngineInv, EngineParts
<1>4. CASE UNCHANGED vars
  <2>1. NoChats' /\ Startup' /\ SettledWithoutServer' /\ ReadyHasServer'
    BY <1>4 DEF EngineInv, NoChats, Asks, Chats, Startup, Dead, ReaderDone, Closing,
        Publishing,
           SettledWithoutServer, ReadyHasServer, vars, engineVars, regs
  <2>2. QED
    BY <1>1, <2>1 DEF EngineInv
<1>5. QED
    BY <1>2, <1>3, <1>4 DEF HostNext

LEMMA EngineAlways ==
    ASSUME "chat" \notin Requests
    PROVE  HostSpec => []EngineInv
<1>1. HostInit => EngineInv
    BY InitControl DEF EngineInv
<1>2. EngineInv /\ [HostNext]_vars => EngineInv'
    BY EngineInductive
<1>3. QED
    BY <1>1, <1>2, PTL DEF HostSpec

(* As long as no chat refreshes the engine's state, Stopped and Error are
   reported only once the child is gone and its log thread has read the
   last line, whatever loads, unloads, edits, cancellations and shutdown
   interleave (control.cpp 466-467, 484-485, 505-510).                     *)
THEOREM SettledIsQuiet ==
    ASSUME "chat" \notin Requests
    PROVE  HostSpec => []SettledWithoutServer
<1>1. EngineInv => SettledWithoutServer
    BY DEF EngineInv
<1>2. QED
    BY <1>1, EngineAlways, PTL

(* Under the same condition Ready is never reported of an engine without a
   child, but by an unload or the shutdown that has just killed it.        *)
THEOREM ReadyIsServed ==
    ASSUME "chat" \notin Requests
    PROVE  HostSpec => []ReadyHasServer
<1>1. EngineInv => ReadyHasServer
    BY DEF EngineInv
<1>2. QED
    BY <1>1, EngineAlways, PTL
=============================================================================
