--------------------------------- MODULE Upload --------------------------------
(***************************************************************************)
(* RemoteBackendConnectionImpl's uploads: add_key and create_data_frame    *)
(* open a gRPC stream on the caller's thread and hand a task to the pool,  *)
(* which writes the blocks and makes the ProgressFuture ready.  The pool   *)
(* is WorkQueue.  The stream is gRPC's: writes arrive in order while it    *)
(* lives, a broken one swallows them (Write returns false), and Finish     *)
(* returns when the server has read everything or the stream is broken.    *)
(* The program watches one of its futures as the examples do, and draws a  *)
(* ProgressBar whenever waiting for it times out and once more at the end. *)
(***************************************************************************)
EXTENDS WorkQueue, Integers

CONSTANTS
  Frame,        \* the uploads that are data frames; the others are keys
  Size,         \* rows of a frame, or bytes of a key
  BlockSize,    \* rows or bytes per message (64 and 512 in the code)
  Width         \* width_ of the ProgressBar, in symbols

Key == Task \ Frame

ASSUME UploadAssumption ==
  /\ Frame \subseteq Task
  /\ Size \in [Task -> Nat]
  /\ \A u \in Key : Size[u] > 0
  /\ BlockSize \in Nat \ {0}
  /\ MaxRunning \in Nat \ {0}
  /\ Width \in Nat

VARIABLES
  future,       \* what the caller holds of each upload
  stream,       \* the client's end of its gRPC stream
  sent,         \* rows or bytes written to the stream: the loop's counter
  block,        \* rows or bytes of the block in hand, 0 between two blocks
  currentStep,  \* current_step_ of ProgressFutureState
  maxStep,      \* max_step_ of ProgressFutureState
  wire,         \* written and not yet read by the server
  server,       \* what the server has read, in order
  watched,      \* the upload whose future the program waits for, if any
  reading,      \* where the program is in progress()
  bar           \* what the ProgressBar shows

streams == <<stream, wire, server>>
progress == <<sent, block, currentStep, maxStep>>
watcher == <<watched, reading, bar>>
vars == <<queueVars, future, streams, progress, watcher>>

(* progress() reads two atomics, one after the other, in an order that C++ *)
(* leaves open; -1 stands for what has not been read.                      *)
Unread == -1
Idle == [last |-> FALSE, begun |-> FALSE, current |-> Unread, max |-> Unread]

(* An undefined conversion: any picture and any percentage.                *)
Undefined == [full |-> 0, half |-> 0, empty |-> 0, percent |-> Unread]

TypeOK ==
  /\ QueueTypeOK
  /\ future \in [Task -> {"none", "pending", "value", "error", "threw"}]
  /\ stream \in [Task -> {"none", "open", "broken", "closed"}]
  /\ \A u \in Task : {sent[u], block[u], currentStep[u]} \subseteq 0..Size[u]
  /\ \A u \in Task : maxStep[u] \in {0, IF u \in Frame THEN Size[u] ELSE Size[u] - 1}
  /\ wire \in [Task -> Seq(Seq(Nat))]
  /\ server \in [Task -> Seq(Nat)]
  /\ watched \subseteq Task /\ Cardinality(watched) <= 1
  /\ reading.begun => watched # {}
  /\ bar = Undefined \/ {bar.full, bar.half, bar.empty} \subseteq 0..Width

Init ==
  /\ QueueInit
  /\ future = [u \in Task |-> "none"]
  /\ stream = [u \in Task |-> "none"]
  /\ sent = [u \in Task |-> 0] /\ block = [u \in Task |-> 0]
  /\ currentStep = [u \in Task |-> 0]
  /\ maxStep = [u \in Task |-> 0]
  /\ wire = [u \in Task |-> <<>>]
  /\ server = [u \in Task |-> <<>>]
  /\ watched = {} /\ reading = Idle /\ bar = Undefined

(***************************************************************************)
(* The caller's thread                                                     *)
(***************************************************************************)

Enqueue(u) == Submit(u) /\ future' = [future EXCEPT ![u] = "pending"]

(* add_key: nothing is written before the task runs. *)
AddKey(u) ==
  /\ u \in Key /\ future[u] = "none"
  /\ stream' = [stream EXCEPT ![u] = "open"]
  /\ Enqueue(u)
  /\ UNCHANGED <<wire, server, progress, watcher>>

(* create_data_frame, do_init_upload_frame: the info is written, which the *)
(* model leaves out, and the answer read before the task is queued.        *)
CreateFrame(u) ==
  /\ u \in Frame /\ future[u] = "none"
  /\ stream' = [stream EXCEPT ![u] = "open"]
  /\ Enqueue(u)
  /\ UNCHANGED <<wire, server, progress, watcher>>

(* Without an answer the UUID is made of an empty string.  That is         *)
(* herd-common's code: it may throw, or give a UUID no frame has.          *)
CreateFrameUnanswered(u) ==
  /\ u \in Frame /\ future[u] = "none"
  /\ stream' = [stream EXCEPT ![u] = "broken"]
  /\ \/ Enqueue(u)
     \/ future' = [future EXCEPT ![u] = "threw"] /\ UNCHANGED queueVars
  /\ UNCHANGED <<wire, server, progress, watcher>>

(***************************************************************************)
(* The task, on a worker of the pool                                       *)
(***************************************************************************)

(* Mutant: frames count to the last index too. *)
LastIndex(u) == Size[u] - 1

(* add_key counts to the last byte's index, create_data_frame to the rows. *)
LastStep(u) == IF u \in Frame THEN Size[u] ELSE Size[u] - 1

(* Mutant: the next block starts at the last row of this one. *)
OverlappingBlock(u, n) ==
  [i \in 1..n |-> IF u \in Frame THEN sent[u] + n - i ELSE sent[u] + i]

(* The next n rows of a frame, or bytes of a key.  next_row inserts each   *)
(* encrypted row at the beginning of the buffer, so a frame's block holds  *)
(* its rows last to first.                                                 *)
Block(u, n) ==
  [i \in 1..n |-> IF u \in Frame THEN sent[u] + n + 1 - i ELSE sent[u] + i]

(* Write's result is ignored; on a broken stream it writes nothing.        *)
Write(u, message) ==
  wire' = IF stream[u] = "open" THEN [wire EXCEPT ![u] = Append(@, message)] ELSE wire

(* A worker takes the task; a key's begins with a message of options.      *)
Begin ==
  /\ Start
  /\ LET u == Head(pending) IN
       /\ maxStep' = [maxStep EXCEPT ![u] = LastStep(u)]
       /\ IF u \in Key THEN Write(u, <<>>) ELSE UNCHANGED wire
  /\ UNCHANGED <<future, stream, server, sent, block, currentStep, watcher>>

(* Mutant: the last block is as long as the others. *)
FullBlock(u) == BlockSize

NextBlock(u) ==
  IF Size[u] - sent[u] < BlockSize THEN Size[u] - sent[u] ELSE BlockSize

More(u) == block[u] = 0 /\ sent[u] < Size[u]

(* Mutant: the last block in place of the sum. *)
Stored(u, n) == n

(* ProgressUpdateProxy::step, an atomic addition. *)
Stepped(u, n) == currentStep[u] + n

(* A frame's task: the rows of a block are encrypted into the buffer and   *)
(* stepped ...                                                             *)
TakeRows(u) ==
  /\ u \in running \intersect Frame
  /\ More(u)
  /\ block' = [block EXCEPT ![u] = NextBlock(u)]
  /\ currentStep' = [currentStep EXCEPT ![u] = Stepped(u, NextBlock(u))]
  /\ UNCHANGED <<queueVars, future, streams, sent, maxStep, watcher>>

(* ... before they are written, and the loop counts them.                  *)
WriteRows(u) ==
  /\ u \in running \intersect Frame
  /\ block[u] # 0
  /\ Write(u, Block(u, block[u]))
  /\ sent' = [sent EXCEPT ![u] = @ + block[u]]
  /\ block' = [block EXCEPT ![u] = 0]
  /\ UNCHANGED <<queueVars, future, stream, server, currentStep, maxStep, watcher>>

(* A key's task: a block is written and counted ...                        *)
WriteBytes(u) ==
  /\ u \in running \intersect Key
  /\ More(u)
  /\ Write(u, Block(u, NextBlock(u)))
  /\ sent' = [sent EXCEPT ![u] = @ + NextBlock(u)]
  /\ block' = [block EXCEPT ![u] = NextBlock(u)]
  /\ UNCHANGED <<queueVars, future, stream, server, currentStep, maxStep, watcher>>

(* ... before it is stepped.                                               *)
StepBytes(u) ==
  /\ u \in running \intersect Key
  /\ block[u] # 0
  /\ currentStep' = [currentStep EXCEPT ![u] = Stepped(u, block[u])]
  /\ block' = [block EXCEPT ![u] = 0]
  /\ UNCHANGED <<queueVars, future, streams, sent, maxStep, watcher>>

(* next_row throws for some row of the block: the task ends there, with    *)
(* neither WritesDone nor Finish, and the stream stays as it is.           *)
RowFails(u) ==
  /\ u \in running \intersect Frame
  /\ More(u)
  /\ Finish(u)
  /\ future' = [future EXCEPT ![u] = "error"]
  /\ UNCHANGED <<streams, progress, watcher>>

(* Mutants: nobody waits for the server, or only for its answer. *)
FinishAtOnce(u) == TRUE
FinishAnswered(u) == stream[u] = "open" /\ wire[u] = <<>>

(* Finish() blocks while there is something the server has not read.       *)
FinishReturns(u) == stream[u] = "broken" \/ wire[u] = <<>>

(* WritesDone and Finish; the status Finish returns is ignored.            *)
End(u) ==
  /\ u \in running
  /\ block[u] = 0 /\ sent[u] = Size[u]
  /\ FinishReturns(u)
  /\ Finish(u)
  /\ stream' = [stream EXCEPT ![u] = IF @ = "open" THEN "closed" ELSE @]
  /\ future' = [future EXCEPT ![u] = "value"]
  /\ UNCHANGED <<wire, server, progress, watcher>>

(***************************************************************************)
(* gRPC and the server                                                     *)
(***************************************************************************)

(* The server reads the oldest message. *)
Deliver(u) ==
  /\ wire[u] # <<>>
  /\ server' = [server EXCEPT ![u] = @ \o Head(wire[u])]
  /\ wire' = [wire EXCEPT ![u] = Tail(@)]
  /\ UNCHANGED <<queueVars, future, stream, progress, watcher>>

(* The connection is lost, or the server ends the call early; or the task  *)
(* that gave up is destroyed with its stream still open.  What was on the  *)
(* way is gone.                                                            *)
Break(u) ==
  /\ stream[u] = "open"
  /\ stream' = [stream EXCEPT ![u] = "broken"]
  /\ wire' = [wire EXCEPT ![u] = <<>>]
  /\ UNCHANGED <<queueVars, future, server, progress, watcher>>

(***************************************************************************)
(* The program's thread: waiting with a progress bar                       *)
(***************************************************************************)

(* It has one of its futures to wait for. *)
Watch(u) ==
  /\ watched = {} /\ future[u] = "pending"
  /\ watched' = {u}
  /\ UNCHANGED <<queueVars, future, streams, progress, reading, bar>>

(* wait_for times out, or says that the future is ready: then progress()   *)
(* is called for the last time.                                            *)
LookUp(u) ==
  /\ u \in watched /\ reading = Idle
  /\ reading' = [Idle EXCEPT !.begun = TRUE, !.last = future[u] # "pending"]
  /\ UNCHANGED <<queueVars, future, streams, progress, watched, bar>>

Least(m, n) == IF m < n THEN m ELSE n

(* Full symbols, a half symbol, and what remains of the width in grey.     *)
Picture(halves, percent) ==
  [full |-> halves \div 2, half |-> halves % 2, empty |-> Width - (halves \div 2) - (halves % 2),
   percent |-> percent]

(* ProgressBar::write.  Neither 0/0 nor n/0 has a conversion to size_t.    *)
Drawn(current, max, completed) ==
  IF max = 0
    THEN IF completed THEN Picture(2 * Width, Unread) ELSE Undefined
    ELSE Picture(IF completed THEN 2 * Width
                 ELSE Least((2 * Width * current) \div max, 2 * Width),
                 Least((100 * current) \div max, 100))

(* One of the atomics has been read.  After the second the bar is written, *)
(* the last time as completed, whatever the future holds.                  *)
GoOn(now) ==
  IF Unread \in {now.current, now.max}
    THEN reading' = now /\ UNCHANGED bar
    ELSE /\ bar' = Drawn(now.current, now.max, now.last)
         /\ reading' = [Idle EXCEPT !.last = now.last]

ReadCurrent(u) ==
  /\ u \in watched /\ reading.begun /\ reading.current = Unread
  /\ GoOn([reading EXCEPT !.current = currentStep[u]])
  /\ UNCHANGED <<queueVars, future, streams, progress, watched>>

ReadMax(u) ==
  /\ u \in watched /\ reading.begun /\ reading.max = Unread
  /\ GoOn([reading EXCEPT !.max = maxStep[u]])
  /\ UNCHANGED <<queueVars, future, streams, progress, watched>>

WatcherStep(u) == Watch(u) \/ LookUp(u) \/ ReadCurrent(u) \/ ReadMax(u)

--------------------------------------------------------------------------------

(* What the worker that runs u's task does next. *)
TaskStep(u) ==
  \/ TakeRows(u) \/ WriteRows(u) \/ WriteBytes(u) \/ StepBytes(u)
  \/ RowFails(u) \/ End(u)

Settled ==
  /\ \A u \in Task : future[u] \in {"value", "error", "threw"} /\ wire[u] = <<>>
  /\ UNCHANGED vars

Next ==
  \/ \E u \in Task : AddKey(u) \/ CreateFrame(u) \/ CreateFrameUnanswered(u)
  \/ Begin
  \/ \E u \in Task : TaskStep(u) \/ Deliver(u) \/ Break(u) \/ WatcherStep(u)
  \/ Settled

(* The pool starts what is queued when a thread is free and runs tasks on  *)
(* (ThreadPool proves and checks it); the server reads what arrives.       *)
Fairness ==
  /\ WF_vars(Begin)
  /\ \A u \in Task : WF_vars(TaskStep(u)) /\ WF_vars(Deliver(u))

Spec == Init /\ [][Next]_vars

FairSpec == Spec /\ Fairness

--------------------------------------------------------------------------------

(* How the server sees an upload that went well: the bytes of a key in     *)
(* order; the rows of a frame block by block, each block last row first.   *)
Arrival(u) ==
  [p \in 1..Size[u] |->
     LET first == BlockSize * ((p - 1) \div BlockSize) + 1
         last  == IF first + BlockSize - 1 < Size[u] THEN first + BlockSize - 1 ELSE Size[u]
     IN  IF u \in Frame THEN first + last - p ELSE p]

(* However the sending, the reading and the breaking interleave, and       *)
(* whatever the last block's size, the server holds a prefix of the        *)
(* upload: nothing skipped, repeated or moved to another block.            *)
ServerHoldsPrefix ==
  \A u \in Task : server[u] = SubSeq(Arrival(u), 1, Len(server[u]))

(* How the upload ended is what the server sees: after WritesDone it has   *)
(* read the whole upload, and one that ended in an error, with some row    *)
(* that could not be encrypted, never looks complete.                      *)
ServerSeesOutcome ==
  \A u \in Task :
    /\ stream[u] = "closed" => server[u] = Arrival(u)
    /\ future[u] = "error" => Len(server[u]) < Size[u]

Halves == 2 * bar.full + bar.half

Defined == bar.percent # Unread

(* What is drawn of an upload of `all` steps is not more than `done`.      *)
ShowsAtMost(done, all) ==
  Halves * all <= 2 * Width * done /\ bar.percent * all <= 100 * done

(* From the first drawing with a known max_step_ on, the bar has exactly   *)
(* its width, and shows 100% of an upload that ended well, in whatever     *)
(* order progress() reads its two atomics and the task moves on in         *)
(* between.  It is never ahead of what was written of a key, and ahead of  *)
(* what was written of a frame by the rows in hand at the most: the one    *)
(* task steps behind its Write, the other before it.  (A key's max_step_   *)
(* is one short of what is stepped: it shows 100% with a byte to go.)      *)
ProgressIsHonest ==
  \A u \in watched :
    Defined =>
      /\ bar.full + bar.half + bar.empty = Width
      /\ ~reading.last =>
           IF u \in Frame THEN ShowsAtMost(sent[u] + block[u], Size[u])
                          ELSE ShowsAtMost(sent[u], Size[u] - 1)
      /\ reading.last /\ ~reading.begun /\ future[u] = "value" => bar.percent = 100

(* The bar never goes back, and what it shows never becomes undefined.     *)
BarNeverGoesBack ==
  [][Defined => Defined' /\ Halves' >= Halves /\ bar'.percent >= bar.percent]_vars

(* Every upload that was queued ends: its future is ready in the end, even *)
(* when its stream breaks or a row cannot be encrypted.                    *)
UploadEnds ==
  \A u \in Task : future[u] = "pending" ~> future[u] \in {"value", "error"}

(* What the examples print once wait_for stops timing out: the upload is   *)
(* at the server.                                                          *)
ReadyMeansUploaded ==
  \A u \in Task : future[u] = "value" => server[u] = Arrival(u)
================================================================================
