------------------------ MODULE SemanticCheckpoints ------------------------
(***************************************************************************)
(* One slot of llama-server with --semantic-checkpoints: its prompt, the   *)
(* sequence state its model memory holds, the checkpoints taken at message *)
(* starts, and the prompt cache that swaps a slot's prompt with its state  *)
(* and checkpoints.  A token is a value, a prompt a sequence of them; a    *)
(* state is the tokens it was computed from, and the first position the    *)
(* sliding-window part still holds.  One request runs at a time (-np 1).   *)
(***************************************************************************)
EXTENDS Sums, FiniteSetsExt, SequencesExt

CONSTANTS
    Header,        \* the token that starts a message
    Word,          \* the other tokens
    Sampled,       \* those that may be sampled
    Tasks,         \* the requests of the client: tokens and cache_prompt
    NSwa,          \* the attention window of the sliding-window layers
    NBatch,        \* n_batch: prompt tokens evaluated per iteration
    NUbatch,       \* n_ubatch: what near the end of the prompt means
    NCtx,          \* n_ctx of the slot
    MinStep,       \* checkpoint_min_step
    MaxCheckpoints, \* n_ctx_checkpoints
    CheckpointBytes, \* semantic_checkpoint_bytes, in memory cells
    CacheBytes,    \* limit_size of the prompt cache, in memory cells
    MaxRequests    \* bound on the requests of a behaviour

ASSUME CheckpointsAssumption ==
    /\ {NSwa, NBatch, NUbatch, MaxCheckpoints} \subseteq Nat \ {0}
    /\ {NCtx, MinStep, CheckpointBytes, CacheBytes, MaxRequests} \subseteq Nat
    /\ NUbatch <= NBatch
    /\ Sampled \subseteq Word
    /\ \A t \in Tasks : /\ t.tokens \in Seq(Word \cup {Header})
                       /\ Len(t.tokens) \in 1..(NCtx - 1)
                       /\ t.cache_prompt \in BOOLEAN

VARIABLES
    slot,      \* slot.state
    batch,     \* the tokens of the batch that is not evaluated yet
    task,      \* the current request
    prompt,    \* slot.prompt.tokens: what the server takes the memory to hold
    mem,       \* what it holds: the tokens computed from, the first window cell
    ckpts,     \* slot.prompt.checkpoints, oldest first
    cached,    \* the states of the prompt cache, oldest first
    requests,  \* requests admitted so far
    staleTail  \* a checkpoint that differs in its last token was restored

vars == <<slot, batch, task, prompt, mem, ckpts, cached, requests, staleTail>>

-----------------------------------------------------------------------------
(* Sequence state.                                                         *)

Empty == [toks |-> <<>>, lo |-> 0]
NoTask == [tokens |-> <<>>, cache_prompt |-> TRUE]
Input == task.tokens
Bigger(a, b) == IF a > b THEN a ELSE b
Smaller(a, b) == IF a < b THEN a ELSE b
Common(s, t) ==
    Max({n \in 0..Smaller(Len(s), Len(t)) : SubSeq(s, 1, n) = SubSeq(t, 1, n)})

PosMin(m) == IF m.lo = Len(m.toks) THEN -1 ELSE m.lo
PosMax(m) == IF m.lo = Len(m.toks) THEN -1 ELSE Len(m.toks) - 1

(* Slip: the window's first position is left where it was.                 *)
Trim_KeepsWindow(m, n) ==
    [toks |-> SubSeq(m.toks, 1, Smaller(n, Len(m.toks))), lo |-> m.lo]

(* seq_rm(n, end): the full-attention cells of positions before n remain,  *)
(* and those of the window.                                                *)
Trim(m, n) ==
    LET k == Smaller(n, Len(m.toks))
    IN  [toks |-> SubSeq(m.toks, 1, k), lo |-> Smaller(m.lo, k)]

(* A saved state leaves out the cells that the window masks.               *)
Saved(m) == [m EXCEPT !.lo = Bigger(@, Len(m.toks) - NSwa)]
Bytes(m) == Len(m.toks) + (Len(m.toks) - Saved(m).lo)

TotalOf(c) == Sum([i \in DOMAIN c |-> Bytes(c[i].state)])

(* What an erase loop leaves of c: the elements at the places which.       *)
Kept(c, which) ==
    LET upTo[i \in 0..Len(c)] ==
            IF i = 0 THEN <<>>
            ELSE IF i \in which THEN Append(upTo[i - 1], c[i]) ELSE upTo[i - 1]
    IN  upTo[Len(c)]

-----------------------------------------------------------------------------
(* The prompt cache: alloc and load.                                       *)

EntryBytes(e) == Bytes(e.state) + TotalOf(e.ckpts)
CacheSize(c) == Sum([i \in DOMAIN c |-> EntryBytes(c[i])])

WithoutOldest(c, Fits(_)) ==
    LET k == Min({i \in 0..Len(c) : i = Len(c) \/ Fits(SubSeq(c, i + 1, Len(c)))})
    IN  SubSeq(c, k + 1, Len(c))

(* prompt_save: nothing for an empty prompt, one that is already covered   *)
(* or one above the limit; else the prompts it covers go, and the oldest   *)
(* until the new entry fits.                                               *)
CacheSave(c) ==
    LET new == [tokens |-> prompt, ckpts |-> ckpts, state |-> Saved(mem)]
        Covers(s, t) == Common(s, t) = Len(t)
        rest == Kept(c, {i \in DOMAIN c : ~Covers(prompt, c[i].tokens)})
        Room(r) == CacheSize(r) + EntryBytes(new) <= CacheBytes
    IN  IF \/ prompt = <<>>
           \/ \E i \in DOMAIN c : Covers(c[i].tokens, prompt)
           \/ EntryBytes(new) > CacheBytes
        THEN c
        ELSE Append(WithoutOldest(rest, Room), new)

(* load: the entry that keeps more of itself and covers more of the new    *)
(* prompt than the slot does, 0 if there is none.                          *)
BestEntry(c, t) ==
    LET Better(best, i) ==
            LET n == Len(c[i].tokens)
                lcp == Common(c[i].tokens, t)
            IN  IF /\ 4 * lcp >= n
                   /\ lcp * best.of > best.lcp * n \/ best.of = 0
                   /\ lcp > best.lcp
                THEN [lcp |-> lcp, of |-> n, at |-> i]
                ELSE best
        upTo[i \in 0..Len(c)] ==
            IF i = 0 THEN [lcp |-> Common(prompt, t), of |-> Len(prompt), at |-> 0]
            ELSE Better(upTo[i - 1], i)
    IN  upTo[Len(c)].at

(* get_available_slot: the cache is consulted when the slot shares nothing *)
(* with the task (below one tenth) or would lose more than half of itself. *)
ConsultsCache(t) ==
    LET lcp == Common(prompt, t)
    IN  10 * lcp <= Len(t) \/ 2 * lcp < Len(prompt)

-----------------------------------------------------------------------------
(* Checkpoints.                                                            *)

MessageStart(t, n) == n > 0 /\ n < Len(t) /\ t[n + 1] = Header

(* Slip: room is made in the whole budget, without the new checkpoint.     *)
Create_SameLimit(c, m, n, copied) ==
    LET Room(r) == TotalOf(r) <= CheckpointBytes /\ Len(r) < MaxCheckpoints
        new == [n |-> n, posMax |-> PosMax(m), state |-> Saved(m)]
    IN  IF n <= 0 \/ PosMax(m) # n - 1 \/ Bytes(m) > CheckpointBytes
        THEN c
        ELSE WithoutOldest(c, Room) \o (IF copied THEN <<new>> ELSE <<>>)

(* create_checkpoint at position n, where m holds the tokens before it: the *)
(* oldest go until the new one fits both limits, and stay gone if the copy *)
(* fails.                                                                  *)
Create(c, m, n, copied) ==
    LET Room(r) == /\ TotalOf(r) <= CheckpointBytes - Bytes(m)
                   /\ Len(r) < MaxCheckpoints
        new == [n |-> n, posMax |-> PosMax(m), state |-> Saved(m)]
    IN  IF n <= 0 \/ PosMax(m) # n - 1 \/ Bytes(m) > CheckpointBytes
        THEN c
        ELSE WithoutOldest(c, Room) \o (IF copied THEN <<new>> ELSE <<>>)

(* The latest checkpoint of at most n tokens that leaves one to evaluate,  *)
(* 0 if there is none.                                                     *)
Latest(n) ==
    SelectLastInSeq(ckpts, LAMBDA c :
        c.n > 0 /\ c.n <= n /\ c.n < Len(Input) /\ c.posMax = c.n - 1)

(* Slip: the window is measured from the end of the old prompt.            *)
NeedsCheckpoint_OldEnd(n) == n > 0 /\ PosMin(mem) >= Bigger(0, Len(prompt) - NSwa)

(* Whether the window of position n may have lost cells: pos_min_thold.    *)
NeedsCheckpoint(n) ==
    n > 0 /\ PosMin(mem) >= Bigger(0, n - NSwa - (IF n < Len(Input) THEN 0 ELSE 1))

(* What a new prompt may reuse: the number of tokens, the memory that      *)
(* holds them and the checkpoint it came from.  A restore may fail.        *)
Nothing == [n |-> 0, mem |-> Empty, from |-> 0]

Reuse ==
    LET n == IF task.cache_prompt THEN Common(prompt, Input) ELSE 0
        i == Latest(n)
        Restored == [n |-> ckpts[i].n, mem |-> ckpts[i].state, from |-> i]
    IN  IF ~NeedsCheckpoint(n)
        THEN {[n |-> n, mem |-> mem, from |-> 0]}
        ELSE {Nothing} \cup
             IF i # 0 /\ PosMax(ckpts[i].state) = ckpts[i].posMax THEN {Restored} ELSE {}

(* Slip: checkpoints of the abandoned branch are kept.                     *)
Invalidated_Never(c, next) == FALSE

(* erase any checkpoints with pos_max > pos_next.                          *)
Invalidated(c, next) == c.posMax > next

(* Slip: a prompt that is fully reused leaves nothing to evaluate.         *)
LeaveOne_Nothing(n) == n

(* [TAG_PROMPT_LOGITS]: one token at least is evaluated.                   *)
LeaveOne(n) == IF n = Len(Input) /\ n > 0 THEN n - 1 ELSE n

(* Where the batch of the prompt that starts at position n ends: at a      *)
(* message start, a batch before the end of the prompt, or when it is full. *)
BatchEnd(n) ==
    LET last == Smaller(Len(Input), n + NBatch)
        Breaks(e) == MessageStart(Input, e)
                     \/ \E offset \in {4 + NUbatch, 4} :
                            Len(Input) = e + Smaller(NBatch, offset)
    IN  Min({e \in (n + 1)..last : e = last \/ Breaks(e)})

-----------------------------------------------------------------------------
(* The server loop.                                                        *)

CkptsInit ==
    /\ slot = "idle"
    /\ batch = 0
    /\ task = NoTask
    /\ prompt = <<>>
    /\ mem = Empty
    /\ ckpts = <<>>
    /\ cached = <<>>
    /\ requests = 0
    /\ staleTail = FALSE

(* Slip: the memory is cleared and the prompt is not.                      *)
PromptClear_MemoryOnly ==
    /\ mem' = Empty
    /\ UNCHANGED <<prompt, ckpts>>

PromptClear ==
    /\ prompt' = <<>>
    /\ mem' = Empty
    /\ ckpts' = <<>>

(* get_available_slot and launch_slot_with_task: a task is given to the    *)
(* idle slot, after its prompt was saved and a better one loaded.          *)
Launch(t, restored) ==
    LET saved == CacheSave(cached)
        i == BestEntry(saved, t.tokens)
    IN  /\ slot = "idle"
        /\ requests < MaxRequests
        /\ slot' = "started"
        /\ task' = t
        /\ requests' = requests + 1
        /\ IF ~ConsultsCache(t.tokens)
           THEN UNCHANGED <<prompt, mem, ckpts, cached>>
           ELSE IF i = 0
           THEN cached' = saved /\ UNCHANGED <<prompt, mem, ckpts>>
           ELSE IF restored
           THEN /\ prompt' = saved[i].tokens
                /\ mem' = saved[i].state
                /\ ckpts' = saved[i].ckpts
                /\ cached' = RemoveAt(saved, i)
           ELSE PromptClear /\ cached' = saved
        /\ UNCHANGED <<batch, staleTail>>

(* The batch of the prompt from position n on, over checkpoints c; an      *)
(* empty one would fail the assertion at 3567.                             *)
Fill(n, m, c, copied) ==
    LET kept == Trim(m, n)
        end == BatchEnd(n)
        start == MessageStart(Input, n)
        near == Len(Input) < end + NUbatch
        wanted == /\ end = Len(Input) \/ start \/ near
                  /\ PosMin(kept) >= 0
                  /\ c = <<>> \/ start \/ near \/ n > Last(c).n + MinStep
    IN  /\ n < Len(Input)
        /\ prompt' = SubSeq(prompt, 1, n) \o SubSeq(Input, n + 1, end)
        /\ mem' = kept
        /\ ckpts' = IF wanted THEN Create(c, kept, n, copied) ELSE c
        /\ slot' = IF end = Len(Input) THEN "done" ELSE "prompt"
        /\ batch' = end - n

(* pre_decode of a slot that just started: reuse what the memory or a      *)
(* checkpoint holds, forget the checkpoints beyond it, fill the batch.     *)
StartPrompt(copied) ==
    /\ slot = "started"
    /\ batch = 0
    /\ \E r \in Reuse :
           /\ Fill(LeaveOne(r.n), r.mem,
                   Kept(ckpts, {i \in DOMAIN ckpts : ~Invalidated(ckpts[i], r.n)}), copied)
           /\ staleTail' = \/ staleTail
                           \/ /\ r.from # 0
                              /\ r.mem.toks # SubSeq(Input, 1, r.n)
                              /\ IsPrefix(Front(r.mem.toks), Input)
    /\ UNCHANGED <<task, cached, requests>>

(* pre_decode of a slot whose prompt is not finished.                      *)
ContinuePrompt(copied) ==
    /\ slot = "prompt"
    /\ batch = 0
    /\ Fill(Len(prompt), mem, ckpts, copied)
    /\ UNCHANGED <<task, cached, requests, staleTail>>

(* pre_decode of a generating slot: the sampled token joins the prompt.    *)
Generate(w) ==
    /\ slot = "generating"
    /\ batch = 0
    /\ prompt' = Append(prompt, w)
    /\ batch' = 1
    /\ UNCHANGED <<slot, task, mem, ckpts, cached, requests, staleTail>>

(* llama_decode and post_decode: the batch enters the memory, whose window *)
(* may lose the cells that were masked when its last micro-batch came, and *)
(* the request goes on or ends.                                            *)
Decode ==
    LET toks == mem.toks \o SubSeq(prompt, Len(prompt) - batch + 1, Len(prompt))
        masked == Len(toks) - ((batch - 1) % NUbatch) - NSwa
    IN  /\ batch > 0
        /\ batch' = 0
        /\ \E lo \in mem.lo..Bigger(mem.lo, masked) :
               mem' = [toks |-> toks, lo |-> lo]
        /\ \/ slot = "prompt" /\ UNCHANGED slot
           \/ slot # "prompt" /\ Len(prompt) + 1 < NCtx /\ slot' = "generating"
           \/ slot # "prompt" /\ slot' = "idle"
        /\ UNCHANGED <<task, prompt, ckpts, cached, requests, staleTail>>

(* The decode fails for good: the slot is released and its prompt cleared. *)
DecodeFails ==
    /\ batch > 0
    /\ batch' = 0
    /\ slot' = "idle"
    /\ PromptClear
    /\ UNCHANGED <<task, cached, requests, staleTail>>

(* A cancelled task releases the slot, which keeps its prompt.             *)
Cancel ==
    /\ slot # "idle"
    /\ batch = 0
    /\ slot' = "idle"
    /\ UNCHANGED <<batch, task, prompt, mem, ckpts, cached, requests, staleTail>>

(* POST /slots/0?action=erase.                                             *)
Erase ==
    /\ slot = "idle"
    /\ PromptClear
    /\ UNCHANGED <<slot, batch, task, cached, requests, staleTail>>

PreDecode ==
    \/ \E copied \in BOOLEAN : StartPrompt(copied)
    \/ \E copied \in BOOLEAN : ContinuePrompt(copied)
    \/ \E w \in Sampled : Generate(w)

CkptsNext ==
    \/ \E t \in Tasks, restored \in BOOLEAN : Launch(t, restored)
    \/ PreDecode
    \/ Decode
    \/ DecodeFails
    \/ Cancel
    \/ Erase

(* The server thread runs its loop as long as a slot is processing.        *)
CkptsSpec ==
    /\ CkptsInit
    /\ [][CkptsNext]_vars
    /\ WF_vars(PreDecode)
    /\ WF_vars(Decode \/ DecodeFails)

-----------------------------------------------------------------------------
(* Properties.                                                             *)

State == [toks : Seq(Word \cup {Header}), lo : Nat]
Checkpoint == [n : Nat \ {0}, posMax : Nat, state : State]

(* The slot's variables have their types.                                  *)
CkptsTypeOK ==
    /\ slot \in {"idle", "started", "prompt", "done", "generating"}
    /\ batch \in 0..NBatch
    /\ prompt \in Seq(Word \cup {Header})
    /\ mem \in State /\ mem.lo <= Len(mem.toks)
    /\ ckpts \in Seq(Checkpoint)
    /\ \A i \in DOMAIN cached : cached[i].ckpts \in Seq(Checkpoint)
    /\ requests \in 0..MaxRequests

(* Whatever is created, restored, swapped or failed half way, neither the  *)
(* checkpoints of a slot nor the prompt cache outgrow their limits         *)
(* (server-context.cpp 2265-2273, server-task.cpp 1733-1759).              *)
BudgetsHeld ==
    /\ TotalOf(ckpts) <= CheckpointBytes /\ Len(ckpts) <= MaxCheckpoints
    /\ CacheSize(cached) <= CacheBytes

(* No token is evaluated with part of its attention window missing: the    *)
(* test that decides whether to restore a checkpoint (3255, 3307) is       *)
(* strict enough, and a restored state holds the whole window.             *)
WindowComplete ==
    batch > 0 => mem.lo <= Bigger(0, Len(mem.toks) - NSwa + 1)

(* The abort at 3261, "should not happen", does not: when a prompt starts  *)
(* over tokens it shares with the last one, their window is not empty.     *)
NoAbort ==
    slot = "started" /\ task.cache_prompt /\ Common(prompt, Input) > 0 => PosMin(mem) # -1

(* The memory holds the tokens the server takes it to hold, and so the     *)
(* answer is that of a fresh evaluation, unless a checkpoint was restored  *)
(* that differs from the prompt in its very last token.                    *)
ExactButForTail ==
    ~staleTail => IsPrefix(mem.toks, prompt)

(* "An anchor at token count p contains exactly the consumed prefix        *)
(* [0,p)", and reuse is of the exact common token prefix                   *)
(* (FREETOKEN_GAP_CLOSURE.md 25-29): the memory never holds other tokens   *)
(* than those of the prompt.                                               *)
ReusesExactPrefix == IsPrefix(mem.toks, prompt)

(* A request that is not refused ends, however its prompt is split.        *)
RequestEnds == slot = "started" ~> slot = "idle"
=============================================================================
