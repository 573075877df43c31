--------------------------- MODULE WeixinConnect ---------------------------
(***************************************************************************)
(* The connection between a personal WeChat account and Codex              *)
(* (codex-plus-core/src/connect, commands.rs 1172-1487): a loop polls the  *)
(* gateway for messages, runs each as a turn of an app-server child        *)
(* process, in the thread of the contact it came from, and sends the reply *)
(* back.  The user starts and stops it; the manager may be killed.         *)
(*                                                                         *)
(* A message is its position in Inbox; its answer is named by the same     *)
(* number.  Text, tokens, footers and the parts of a long reply are left   *)
(* out, and so is the login by QR code.                                    *)
(***************************************************************************)
EXTENDS Integers, Sequences, FiniteSets, Functions

CONSTANTS
    Peers,      \* contacts
    Inbox,      \* the messages of the account, in the order of the gateway
    Runs,       \* names for calls of run_weixin_connect
    Overlap,    \* how many messages before the cursor the gateway may repeat
    History,    \* how many handled messages are remembered (MAX_PROCESSED_IDS)
    LateEnd,    \* may what ends a turn arrive after the next response?
    MaxFaults,  \* errors of the gateway, the child and the disk
    MaxCuts     \* stops by the user, deaths of the manager

(* A message Codex answers with text or without, one that holds none, and  *)
(* one that is unfinished, too old or from somebody who is not allowed.    *)
Kinds == {"text", "silent", "mute", "skip"}
ASSUME InboxOfMessages == Inbox \in Seq([from : Peers, kind : Kinds])
ASSUME HistoryCoversOverlap == Overlap \in Nat /\ History \in Nat \ {0} /\ Overlap <= History
ASSUME RunsAssumption == 0 \notin Runs

VARIABLES
    loop,     \* each run: where it is, what it holds, its app-server
    runtime,  \* the run the commands know of (weixin_runtime), 0 for none
    command,  \* weixin_connect_stop between its two halves
    status,   \* the state shown in the window
    enabled,  \* settings.weixin_connect_enabled
    disk,     \* the state file
    threads,  \* how many threads the app-server has made
    replies,  \* history: what was sent to whom
    handled,  \* history: messages marked as processed
    faults, cuts

vars == <<loop, runtime, command, status, enabled, disk, threads, replies,
          handled, faults, cuts>>
outside == <<runtime, command, enabled>>

Message == DOMAIN Inbox
NoState == [cursor |-> 0, thread |-> [p \in Peers |-> 0], done |-> <<>>]
NoTurn  == [accepted |-> FALSE, ended |-> FALSE, parts |-> <<>>]
Off == [pc |-> "off", stop |-> FALSE, mem |-> NoState, batch |-> <<>>,
        msg |-> 0, up |-> FALSE, pipe |-> <<>>, turn |-> NoTurn]

Init ==
    /\ loop = [r \in Runs |-> Off]
    /\ runtime = 0 /\ command = "none"
    /\ status = "stopped" /\ enabled \in BOOLEAN
    /\ disk = NoState /\ threads = 0
    /\ replies = <<>> /\ handled = {}
    /\ faults = 0 /\ cuts = 0

At(r, pc) == loop[r].pc = pc
Peer(r) == Inbox[loop[r].msg].from
Put(r, fields) == loop' = [loop EXCEPT ![r] = fields]
Goto(r, pc) == Put(r, [loop[r] EXCEPT !.pc = pc])
Fault == faults < MaxFaults /\ faults' = faults + 1
Cut == cuts < MaxCuts /\ cuts' = cuts + 1

-----------------------------------------------------------------------------
(* The commands of the window.                                             *)

Spawn(r) ==
    /\ loop[r] = Off
    /\ Goto(r, "begin")
    /\ runtime' = r
    /\ status' = "starting"

(* weixin_connect_start: refused while a run is left, but saved.           *)
Start ==
    /\ command = "none"
    /\ enabled' = TRUE
    /\ IF runtime = 0 THEN \E r \in Runs : Spawn(r)
                      ELSE UNCHANGED <<loop, runtime, status>>
    /\ UNCHANGED <<command, disk, threads, replies, handled, faults, cuts>>

(* Slip: a run that was told to stop counts as gone.                       *)
StopForgets ==
    /\ command = "none" /\ runtime # 0
    /\ loop' = [loop EXCEPT ![runtime].stop = TRUE]
    /\ runtime' = 0
    /\ command' = "stopping"
    /\ Cut
    /\ UNCHANGED <<status, enabled, disk, threads, replies, handled, faults>>

(* weixin_connect_stop, first half: the run is told, if there is one.      *)
Stop ==
    /\ command = "none"
    /\ IF runtime # 0
       THEN /\ loop' = [loop EXCEPT ![runtime].stop = TRUE]
            /\ command' = "stopping"
            /\ Cut
       ELSE command' = "stopped" /\ UNCHANGED <<loop, cuts>>
    /\ UNCHANGED <<runtime, status, enabled, disk, threads, replies, handled, faults>>

(* Second half: saved, and shown whatever the run has said meanwhile.      *)
ShowStop ==
    /\ command # "none"
    /\ command' = "none"
    /\ enabled' = FALSE
    /\ status' = command
    /\ UNCHANGED <<loop, runtime, disk, threads, replies, handled, faults, cuts>>

(* The manager is killed, and its child with it; the next one starts the   *)
(* connection if the settings say so.                                      *)
Restart ==
    /\ runtime # 0
    /\ Cut
    /\ IF enabled
       THEN \E r \in Runs : /\ loop' = [[s \in Runs |-> Off] EXCEPT ![r].pc = "begin"]
                            /\ runtime' = r
                            /\ status' = "starting"
       ELSE /\ loop' = [s \in Runs |-> Off]
            /\ runtime' = 0
            /\ status' = "stopped"
    /\ command' = "none"
    /\ UNCHANGED <<enabled, disk, threads, replies, handled, faults>>

-----------------------------------------------------------------------------
(* The loop.                                                               *)

(* A state file that cannot be read counts as none.                        *)
Begin(r) ==
    /\ At(r, "begin")
    /\ \/ /\ Put(r, [loop[r] EXCEPT !.pc = "poll", !.mem = disk])
          /\ status' = "running"
          /\ UNCHANGED faults
       \/ /\ Fault
          /\ \/ Put(r, [loop[r] EXCEPT !.pc = "poll"]) /\ status' = "running"
             \/ Goto(r, "failed") /\ UNCHANGED status
    /\ UNCHANGED <<outside, disk, threads, replies, handled, cuts>>

(* Slip: the loop waits for the next message without a look at the flag.   *)
PollOn(r) ==
    /\ At(r, "poll")
    /\ LET me == loop[r] IN
       \E last \in me.mem.cursor .. Len(Inbox) :
          Put(r, [me EXCEPT !.pc = "pick", !.mem.cursor = last,
                     !.batch = [k \in 1 .. last - me.mem.cursor |-> me.mem.cursor + k]])
    /\ UNCHANGED <<outside, status, faults, disk, threads, replies, handled, cuts>>

(* The long poll: new messages, perhaps some again, and the cursor behind  *)
(* them; nothing; or an error, after which the loop sleeps.                *)
Poll(r) ==
    /\ At(r, "poll")
    /\ LET me == loop[r] IN
       \/ /\ me.stop
          /\ Goto(r, "close")
          /\ UNCHANGED <<status, faults>>
       \/ /\ ~me.stop
          /\ \E first \in 1 .. me.mem.cursor + 1, last \in me.mem.cursor .. Len(Inbox) :
                /\ me.mem.cursor - first < Overlap /\ first <= last
                /\ Put(r, [me EXCEPT !.pc = "pick", !.mem.cursor = last,
                                     !.batch = [k \in 1 .. last - first + 1 |-> first + k - 1]])
          /\ UNCHANGED <<status, faults>>
       \/ /\ ~me.stop
          /\ Fault
          /\ status' = "retrying"
          /\ UNCHANGED loop
    /\ UNCHANGED <<outside, disk, threads, replies, handled, cuts>>

Marked(mem, m) ==
    IF m \in Range(mem.done) THEN mem
    ELSE [mem EXCEPT !.done = IF Len(@) < History THEN Append(@, m)
                                                  ELSE Append(Tail(@), m)]

(* The next message: passed over, marked, or handled.                      *)
Pick(r) ==
    /\ At(r, "pick")
    /\ LET me == loop[r]
           m  == Head(me.batch)
       IN  IF me.stop \/ me.batch = <<>>
           THEN Put(r, [me EXCEPT !.pc = "saveAll", !.batch = <<>>]) /\ UNCHANGED handled
           ELSE CASE Inbox[m].kind = "skip" \/ m \in Range(me.mem.done) ->
                        /\ Put(r, [me EXCEPT !.batch = Tail(@)])
                        /\ UNCHANGED handled
                  [] Inbox[m].kind = "mute" /\ m \notin Range(me.mem.done) ->
                        /\ Put(r, [me EXCEPT !.batch = Tail(@), !.mem = Marked(@, m)])
                        /\ handled' = handled \cup {m}
                  [] OTHER ->
                        /\ Put(r, [me EXCEPT !.batch = Tail(@), !.msg = m, !.pc = "server"])
                        /\ UNCHANGED handled
    /\ UNCHANGED <<outside, status, disk, threads, replies, faults, cuts>>

(* CodexAppServer::start, unless there is one.                             *)
EnsureServer(r) ==
    /\ At(r, "server")
    /\ LET me == loop[r] IN
       \/ /\ Put(r, IF me.up THEN [me EXCEPT !.pc = "thread"]
                    ELSE [me EXCEPT !.pc = "thread", !.up = TRUE, !.pipe = <<>>])
          /\ UNCHANGED faults
       \/ /\ ~me.up
          /\ Fault
          /\ Goto(r, "error")
    /\ UNCHANGED <<outside, status, disk, threads, replies, handled, cuts>>

(* Slip: a thread the child already knows is not asked for again.          *)
PrepareCached(r) ==
    /\ At(r, "thread")
    /\ LET me == loop[r] IN
       IF me.mem.thread[Peer(r)] # 0
       THEN Put(r, [me EXCEPT !.pc = "turn", !.turn = NoTurn]) /\ UNCHANGED threads
       ELSE /\ threads' = threads + 1
            /\ Put(r, [me EXCEPT !.pc = "turn", !.mem.thread[Peer(r)] = threads + 1,
                                 !.pipe = <<>>, !.turn = NoTurn])
    /\ UNCHANGED <<outside, status, disk, replies, handled, faults, cuts>>

(* prepare_thread: the contact's thread again, or a new one.  The pipe is  *)
(* read up to the response, so what was left in it is gone.                *)
Prepare(r) ==
    /\ At(r, "thread")
    /\ LET me == loop[r]
           with(t) == \E left \in {<<>>} \cup (IF LateEnd THEN {me.pipe} ELSE {}) :
                         Put(r, [me EXCEPT !.pc = "turn", !.mem.thread[Peer(r)] = t,
                                           !.pipe = left, !.turn = NoTurn])
           old == me.mem.thread[Peer(r)]
       IN  \/ old # 0 /\ with(old) /\ UNCHANGED <<threads, faults>>
           \/ /\ IF old = 0 THEN UNCHANGED faults ELSE Fault
              /\ threads' = threads + 1
              /\ with(threads + 1)
           \/ /\ Fault
              /\ Put(r, [me EXCEPT !.pc = "error", !.mem.thread[Peer(r)] = 0])
              /\ UNCHANGED threads
    /\ UNCHANGED <<outside, status, disk, replies, handled, cuts>>

(* What the child writes for a turn.  A turn ends with one of two events   *)
(* or with both.                                                           *)
Event(kind, m) == [kind |-> kind, msg |-> m]
Scripts(m) ==
    LET of(kinds) == [k \in DOMAIN kinds |-> Event(kinds[k], m)]
    IN  IF Inbox[m].kind = "silent"
        THEN {of(<<"response", "idle", "completed">>), of(<<"idle", "response">>)}
        ELSE {of(<<"item", "completed", "response">>),
              of(<<"response", "item", "completed", "idle">>),
              of(<<"response", "item", "idle", "completed">>)}

StartTurn(r) ==
    /\ At(r, "turn")
    /\ \E script \in Scripts(loop[r].msg) :
          Put(r, [loop[r] EXCEPT !.pc = "read", !.pipe = @ \o script])
    /\ UNCHANGED <<outside, status, disk, threads, replies, handled, faults, cuts>>

Taken(turn, e) ==
    CASE e.kind = "response" -> [turn EXCEPT !.accepted = TRUE]
      [] e.kind = "item"     -> [turn EXCEPT !.parts = Append(@, e.msg)]
      [] OTHER               -> [turn EXCEPT !.ended = TRUE]

(* run_turn, beside the look at the stop flag every 200 ms; a timeout, an  *)
(* error event and the end of the child are errors.                        *)
Read(r) ==
    /\ At(r, "read")
    /\ LET me == loop[r] IN
       \/ /\ me.stop
          /\ Goto(r, "error")
          /\ UNCHANGED faults
       \/ /\ me.pipe # <<>>
          /\ LET turn == Taken(me.turn, Head(me.pipe))
             IN  Put(r, [me EXCEPT !.turn = turn, !.pipe = Tail(@),
                            !.pc = IF turn.accepted /\ turn.ended THEN "send" ELSE "read"])
          /\ UNCHANGED faults
       \/ /\ Fault
          /\ Goto(r, "error")
    /\ UNCHANGED <<outside, status, disk, threads, replies, handled, cuts>>

(* send_text_chunks; an error may come after some or all was delivered.    *)
Send(r) ==
    /\ At(r, "send")
    /\ LET me == loop[r]
           reply == [to |-> Peer(r), msg |-> me.msg, parts |-> me.turn.parts,
                     thread |-> me.mem.thread[Peer(r)]]
       IN  \/ /\ Goto(r, "ok")
              /\ replies' = Append(replies, reply)
              /\ UNCHANGED faults
           \/ /\ Fault
              /\ Goto(r, "error")
              /\ \/ UNCHANGED replies
                 \/ replies' = Append(replies, reply)
    /\ UNCHANGED <<outside, status, disk, threads, handled, cuts>>

(* After the message: a run that was stopped leaves it unmarked; otherwise *)
(* it is marked, whatever became of it, and an error costs the child.      *)
Conclude(r) ==
    /\ At(r, "ok") \/ At(r, "error")
    /\ LET me == loop[r]
           well == At(r, "ok")
       IN  IF me.stop
           THEN /\ Put(r, [me EXCEPT !.pc = "saveAll", !.msg = 0, !.up = FALSE, !.batch = <<>>])
                /\ UNCHANGED <<handled, status>>
           ELSE /\ Put(r, [me EXCEPT !.pc = "saveOne", !.msg = 0, !.up = @ /\ well,
                                     !.mem = Marked(@, me.msg)])
                /\ handled' = handled \cup {me.msg}
                /\ status' = IF well THEN "running" ELSE "error"
    /\ UNCHANGED <<outside, disk, threads, replies, faults, cuts>>

(* store.save; an error ends the run.                                      *)
Save(r) ==
    /\ At(r, "saveOne") \/ At(r, "saveAll")
    /\ \/ /\ disk' = loop[r].mem
          /\ Goto(r, IF At(r, "saveOne") THEN "pick" ELSE "poll")
          /\ UNCHANGED <<faults, cuts>>
       \/ /\ Fault /\ cuts' = cuts + 1
          /\ Goto(r, "failed")
          /\ UNCHANGED disk
    /\ UNCHANGED <<outside, status, threads, replies, handled>>

(* The end of run_weixin_connect, and then of the task around it.          *)
Close(r) ==
    /\ At(r, "close") \/ At(r, "failed")
    /\ status' = IF At(r, "close") THEN "stopped" ELSE "error"
    /\ Put(r, [loop[r] EXCEPT !.pc = "over", !.up = FALSE])
    /\ UNCHANGED <<outside, disk, threads, replies, handled, faults, cuts>>

Leave(r) ==
    /\ At(r, "over")
    /\ Put(r, Off)
    /\ runtime' = IF runtime = r THEN 0 ELSE runtime
    /\ UNCHANGED <<command, status, enabled, disk, threads, replies, handled, faults, cuts>>

LoopNext(r) ==
    \/ Begin(r) \/ Poll(r) \/ Pick(r) \/ EnsureServer(r) \/ Prepare(r)
    \/ StartTurn(r) \/ Read(r) \/ Send(r) \/ Conclude(r) \/ Save(r)
    \/ Close(r) \/ Leave(r)

Next == Start \/ Stop \/ ShowStop \/ Restart \/ \E r \in Runs : LoopNext(r)

(* A run goes on: its polls, requests and turns have timeouts.             *)
Fairness == \A r \in Runs : WF_vars(LoopNext(r))
Spec == Init /\ [][Next]_vars /\ Fairness
-----------------------------------------------------------------------------
TypeOK ==
    /\ runtime \in Runs \cup {0}
    /\ command \in {"none", "stopping", "stopped"}
    /\ status \in {"stopped", "starting", "running", "retrying", "error", "stopping"}
    /\ enabled \in BOOLEAN
    /\ handled \subseteq Message
    /\ \A r \in Runs : Len(loop[r].mem.done) <= History /\ loop[r].msg \in Message \cup {0}

(* At most one run polls the account, however starts and stops follow each *)
(* other: two would answer every message.                                  *)
OneRun == \A q, r \in Runs : loop[q] # Off /\ loop[r] # Off => q = r

(* Contacts have threads of their own, and what a contact is told is the   *)
(* answer to the message it sent: nothing of an earlier turn, of another   *)
(* contact perhaps, that was left in the pipe of the child.                *)
ContactsApart ==
    /\ \A p, q \in Peers : disk.thread[p] # 0 /\ disk.thread[p] = disk.thread[q] => p = q
    /\ \A i \in DOMAIN replies :
          replies[i].parts = IF Inbox[replies[i].msg].kind = "silent"
                             THEN <<>> ELSE <<replies[i].msg>>
    /\ \A i, j \in DOMAIN replies :
          replies[i].thread = replies[j].thread => replies[i].to = replies[j].to

(* A message is answered once, although the gateway repeats itself: more   *)
(* often only when a run was cut off between an answer and its record.     *)
AnsweredOnce ==
    \A m \in Message : Cardinality({i \in DOMAIN replies : replies[i].msg = m}) <= 1 + cuts

(* And none is passed over by a run that goes on.                          *)
NothingSkipped ==
    cuts = 0 => \A r \in Runs : \A m \in 1 .. loop[r].mem.cursor :
        Inbox[m].kind = "skip" \/ m \in handled \cup Range(loop[r].batch) \cup {loop[r].msg}

(* Each message is handled, and once, by the one run there is.             *)
MessagesHandled == TypeOK /\ OneRun /\ AnsweredOnce /\ NothingSkipped

(* A run that is told to stop does: in the middle of a turn, too.          *)
StopEnds == \A r \in Runs : loop[r].stop ~> ~loop[r].stop

(* What the window shows in the end: a connection that is gone is not      *)
(* stopping any more.                                                      *)
StatusSettles == status = "stopping" ~> status # "stopping"
=============================================================================
