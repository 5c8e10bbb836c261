---------------------------- MODULE DeviceProofs -----------------------------
(***************************************************************************)
(* Proofs about the devices: VirtioBlk, for every disk, contents and width *)
(* of the indices; the geometry of the FAT16 disk behind it, for all       *)
(* fields of its first sector; and the FrameBuffer, for all sizes, with the *)
(* cells ConsoleOps keeps of it.                                           *)
(***************************************************************************)
EXTENDS VirtioBlk, Fat16, FrameBuffer, SequenceLemmas, TLAPS

\* An index is never its own successor: one new request is always seen.
LEMMA SuccIsAnother ==
    \A i \in Indices : Succ(i) \in Indices /\ Succ(i) # i
<1> SUFFICES ASSUME NEW i \in Indices PROVE Succ(i) \in Indices /\ Succ(i) # i
  OBVIOUS
<1>1. INDEX \in Nat /\ INDEX > 1 /\ i \in Nat /\ i < INDEX
  BY IndexAssumption DEF Indices
<1>2. CASE i + 1 < INDEX
  <2>1. (i + 1) % INDEX = i + 1
    BY <1>1, <1>2
  <2> QED BY <1>1, <1>2, <2>1 DEF Succ, Indices
<1>3. CASE i + 1 = INDEX
  <2>1. (i + 1) % INDEX = 0
    BY <1>1, <1>3
  <2> QED BY <1>1, <1>3, <2>1 DEF Succ, Indices
<1> QED BY <1>1, <1>2, <1>3

LEMMA ZeroIsAnIndex == 0 \in Indices
  BY IndexAssumption DEF Indices

LEMMA InitTypeOK == Init => TypeOK
<1> SUFFICES ASSUME Init PROVE TypeOK
  OBVIOUS
<1>1. 0 \in Sectors
  BY CapacityAssumption DEF Sectors
<1>2. call \in Call
  BY CapacityAssumption DEF Init, Call
<1>3. answer \in [status : {"None", "Ok", "Error"}, data : Data]
  BY DataAssumption DEF Init, NoAnswer
<1>4. /\ req \in [kind : Kinds, sector : Sectors, data : Data,
                  writable : BOOLEAN, status : {"Ok", "Error"}]
      /\ job \in [kind : Kinds, sector : Sectors]
  BY <1>1, DataAssumption DEF Init, Kinds
<1> QED BY <1>2, <1>3, <1>4, ZeroIsAnIndex DEF Init, TypeOK

\* What a call brings, by its fields
LEMMA CallFields ==
    ASSUME NEW c \in Call
    PROVE  c.kind \in Kinds /\ c.data \in Data
  BY DataAssumption DEF Call, Kinds

-----------------------------------------------------------------------------
(* Where the one request can be: not yet seen by the device, being served,   *)
(* or served; and how far the indices of driver and device are apart then.   *)

Waiting ==
    /\ dev = "idle"
    /\ dev_avail = used_index
    /\ avail_index = Succ(used_index)

Serving ==
    /\ dev # "idle"
    /\ dev_avail = avail_index
    /\ avail_index = Succ(used_index)

Served ==
    /\ dev = "idle"
    /\ dev_avail = avail_index
    /\ used_index = avail_index

QueueInv ==
    /\ pc # "kick" => stores = {}
    /\ pc \in {"idle", "answer", "panicked"} => Served
    /\ pc \in {"idle", "wait", "answer"} => last_used_index = avail_index
    /\ pc = "wait" => Waiting \/ Serving \/ Served
    /\ pc = "kick" =>
         IF "index" \in stores
         THEN Served /\ last_used_index = avail_index
         ELSE /\ Waiting \/ Serving \/ Served
              /\ avail_index = Succ(last_used_index)
    /\ pc \in {"kick", "wait", "answer"} => call.sector \in Sectors

IInv == TypeOK /\ QueueInv

\* Setting the device up does not touch the queue.
LEMMA SetupKeepsInv == ASSUME IInv, Setup PROVE IInv'
<1>1. /\ UNCHANGED <<checked, pc, call, stores, answer, result, last_used_index,
                     req, avail_index, used_index, dev, job, dev_avail, disk>>
      /\ setup' \in {"probe", "reset", "ack", "driver", "features", "queue",
                     "driver_ok", "publish", "done", "panicked"}
  BY DEF Setup, Probe, ProbeFails, Reset, SetStatus, InitQueue, DriverOk, Publish, SetupStep
<1>2. page' \in BOOLEAN /\ notified' \in BOOLEAN
  BY DEF IInv, TypeOK, Setup, Probe, ProbeFails, Reset, SetStatus, InitQueue,
         DriverOk, Publish
<1>3. status' \subseteq {"ACK", "DRIVER", "FEAT_OK", "DRIVER_OK"}
  BY DEF IInv, TypeOK, Setup, Probe, ProbeFails, Reset, SetStatus, InitQueue,
         DriverOk, Publish
<1>4. TypeOK'
  BY <1>1, <1>2, <1>3 DEF IInv, TypeOK
<1>5. QueueInv'
  BY <1>1 DEF IInv, QueueInv, Waiting, Serving, Served
<1> QED BY <1>4, <1>5 DEF IInv

LEMMA BeginKeepsInv ==
    ASSUME IInv, NEW c \in Call, Begin(c) PROVE IInv'
<1>1. pc' \in {"idle", "kick"} /\ stores' \subseteq {"request", "index"}
  BY DEF IInv, TypeOK, QueueInv, Begin
<1>2. result' \in {"None", "NotInitialized", "SectorOutOfRange"}
  BY DEF Begin
<1>3. answer' \in [status : {"None", "Ok", "Error"}, data : Data]
  BY DataAssumption DEF Begin, NoAnswer
<1>4. TypeOK'
  BY <1>1, <1>2, <1>3 DEF IInv, TypeOK, Begin, device
<1>5. QueueInv'
  BY DEF IInv, QueueInv, Begin, device, Waiting, Serving, Served
<1> QED BY <1>4, <1>5 DEF IInv

LEMMA StoreRequestKeepsInv == ASSUME IInv, StoreRequest PROVE IInv'
<1>1. call.sector \in Sectors /\ call.kind \in Kinds /\ call.data \in Data
  BY CallFields DEF IInv, TypeOK, QueueInv, StoreRequest
<1>2. req' \in [kind : Kinds, sector : Sectors, data : Data,
                writable : BOOLEAN, status : {"Ok", "Error"}]
  BY <1>1 DEF IInv, TypeOK, StoreRequest
<1>3. TypeOK'
  BY <1>2 DEF IInv, TypeOK, StoreRequest, device
<1>4. QueueInv'
  BY DEF IInv, QueueInv, StoreRequest, device, Waiting, Serving, Served
<1> QED BY <1>3, <1>4 DEF IInv

LEMMA StoreIndexKeepsInv == ASSUME IInv, StoreIndex PROVE IInv'
<1>1. avail_index \in Indices /\ avail_index' \in Indices /\ avail_index' = Succ(avail_index)
  BY SuccIsAnother DEF IInv, TypeOK, StoreIndex
<1>2. TypeOK'
  BY <1>1 DEF IInv, TypeOK, StoreIndex, device
<1>3. QueueInv'
  BY <1>1 DEF IInv, QueueInv, StoreIndex, device, Waiting, Serving, Served
<1> QED BY <1>2, <1>3 DEF IInv

LEMMA IndexOverflowsKeepsInv == ASSUME IInv, IndexOverflows PROVE IInv'
<1>1. TypeOK'
  BY DEF IInv, TypeOK, IndexOverflows, device
<1>2. QueueInv'
  BY DEF IInv, QueueInv, IndexOverflows, device, Waiting, Serving, Served
<1> QED BY <1>1, <1>2 DEF IInv

LEMMA NotifyKeepsInv == ASSUME IInv, Notify PROVE IInv'
<1>1. last_used_index' = Succ(last_used_index) /\ last_used_index' \in Indices
  BY SuccIsAnother DEF IInv, TypeOK, Notify
<1>2. TypeOK'
  BY <1>1 DEF IInv, TypeOK, Notify
<1>3. QueueInv'
  BY <1>1 DEF IInv, QueueInv, Notify, Waiting, Serving, Served
<1> QED BY <1>2, <1>3 DEF IInv

\* The driver stops to wait only for the request it has made.
LEMMA CompletedKeepsInv == ASSUME IInv, Completed PROVE IInv'
<1>1. avail_index # Succ(used_index)
  BY SuccIsAnother DEF IInv, TypeOK, QueueInv, Completed, IsBusy
<1>2. TypeOK'
  BY DEF IInv, TypeOK, Completed, device
<1>3. QueueInv'
  BY <1>1 DEF IInv, QueueInv, Completed, device, Waiting, Serving, Served
<1> QED BY <1>2, <1>3 DEF IInv

LEMMA LoadAnswerKeepsInv == ASSUME IInv, LoadAnswer PROVE IInv'
<1>1. answer' \in [status : {"None", "Ok", "Error"}, data : Data]
  BY DEF IInv, TypeOK, LoadAnswer
<1>2. TypeOK'
  BY <1>1 DEF IInv, TypeOK, LoadAnswer, device
<1>3. QueueInv'
  BY DEF IInv, QueueInv, LoadAnswer, device, Waiting, Serving, Served
<1> QED BY <1>2, <1>3 DEF IInv

LEMMA ReturnKeepsInv == ASSUME IInv, Return PROVE IInv'
<1>1. TypeOK'
  BY DEF IInv, TypeOK, Return, device
<1>2. QueueInv'
  BY DEF IInv, QueueInv, Return, device, Waiting, Serving, Served
<1> QED BY <1>1, <1>2 DEF IInv

\* The device takes a request only where one is waiting.
LEMMA TakeKeepsInv == ASSUME IInv, Take PROVE IInv'
<1>1. pc \in {"kick", "wait"} /\ Waiting
  BY DEF IInv, TypeOK, QueueInv, Take, Serving, Served
<1>2. dev_avail' = avail_index /\ dev_avail' \in Indices
  BY <1>1, SuccIsAnother DEF IInv, TypeOK, Take, Waiting
<1>3. job' \in [kind : Kinds, sector : Sectors]
  BY DEF IInv, TypeOK, Take
<1>4. TypeOK'
  <2>1. /\ UNCHANGED <<driver, req, avail_index, used_index, status, page, disk>>
        /\ dev' = "taken" /\ notified' \in BOOLEAN
    BY DEF Take
  <2> QED BY <1>2, <1>3, <2>1 DEF IInv, TypeOK, driver
<1>5. Serving'
  BY <1>1, <1>2 DEF Waiting, Serving, Take
<1>6. QueueInv'
  BY <1>1, <1>5 DEF IInv, QueueInv, Take, driver, Served
<1> QED BY <1>4, <1>6 DEF IInv

LEMMA FindNothingKeepsInv == ASSUME IInv, FindNothing PROVE IInv'
<1>1. TypeOK'
  <2>1. /\ UNCHANGED <<driver, req, avail_index, used_index, status, page,
                        dev, job, dev_avail, disk>>
        /\ notified' \in BOOLEAN
    BY DEF FindNothing
  <2> QED BY <2>1 DEF IInv, TypeOK, driver
<1>2. QueueInv'
  BY DEF IInv, QueueInv, FindNothing, driver, Waiting, Serving, Served
<1> QED BY <1>1, <1>2 DEF IInv

\* While the device is at work the driver has a call in progress.
LEMMA DeviceWorksForCall ==
    ASSUME IInv, dev # "idle"
    PROVE  pc \in {"kick", "wait"} /\ "index" \notin stores /\ Serving
  BY DEF IInv, TypeOK, QueueInv, Waiting, Served

LEMMA MoveKeepsInv == ASSUME IInv, Move PROVE IInv'
<1>1. req' \in [kind : Kinds, sector : Sectors, data : Data,
                writable : BOOLEAN, status : {"Ok", "Error"}]
  BY DEF IInv, TypeOK, Move
<1>2. disk' \in [Sectors -> Data]
  BY DEF IInv, TypeOK, Move
<1>3. TypeOK'
  BY <1>1, <1>2 DEF IInv, TypeOK, Move, driver
<1>4. QueueInv'
  BY DeviceWorksForCall DEF IInv, QueueInv, Move, driver, Waiting, Serving, Served
<1> QED BY <1>3, <1>4 DEF IInv

LEMMA FailKeepsInv == ASSUME IInv, Fail PROVE IInv'
<1>1. TypeOK'
  BY DEF IInv, TypeOK, Fail, driver
<1>2. QueueInv'
  BY DeviceWorksForCall DEF IInv, QueueInv, Fail, driver, Waiting, Serving, Served
<1> QED BY <1>1, <1>2 DEF IInv

LEMMA AnswerKeepsInv == ASSUME IInv, Answer PROVE IInv'
<1>1. req' \in [kind : Kinds, sector : Sectors, data : Data,
                writable : BOOLEAN, status : {"Ok", "Error"}]
  BY DEF IInv, TypeOK, Answer
<1>2. TypeOK'
  BY <1>1 DEF IInv, TypeOK, Answer, driver
<1>3. QueueInv'
  BY DeviceWorksForCall DEF IInv, QueueInv, Answer, driver, Waiting, Serving, Served
<1> QED BY <1>2, <1>3 DEF IInv

LEMMA UseKeepsInv == ASSUME IInv, Use PROVE IInv'
<1>1. pc \in {"kick", "wait"} /\ "index" \notin stores /\ Serving
  BY DeviceWorksForCall DEF Use
<1>2. used_index' = avail_index /\ used_index' \in Indices
  BY <1>1, SuccIsAnother DEF IInv, TypeOK, Use, Serving
<1>3. TypeOK'
  BY <1>2 DEF IInv, TypeOK, Use, driver
<1>4. Served'
  BY <1>1, <1>2 DEF Use, Served, Serving
<1>5. QueueInv'
  BY <1>1, <1>4 DEF IInv, QueueInv, Use, driver
<1> QED BY <1>3, <1>5 DEF IInv

LEMMA QueueInvariant == Spec => []IInv
<1>1. Init => IInv
  <2>1. Init => QueueInv
    BY DEF Init, QueueInv, Served
  <2> QED BY <2>1, InitTypeOK DEF IInv
<1>2. IInv /\ [Next]_vars => IInv'
  <2> SUFFICES ASSUME IInv, [Next]_vars PROVE IInv'
    OBVIOUS
  <2>1. CASE Setup
    BY <2>1, SetupKeepsInv
  <2>2. ASSUME NEW c \in Call, Begin(c) PROVE IInv'
    BY <2>2, BeginKeepsInv
  <2>3. CASE StoreRequest \/ StoreIndex \/ IndexOverflows \/ Notify
    BY <2>3, StoreRequestKeepsInv, StoreIndexKeepsInv, IndexOverflowsKeepsInv, NotifyKeepsInv
  <2>4. CASE Completed \/ LoadAnswer \/ Return
    BY <2>4, CompletedKeepsInv, LoadAnswerKeepsInv, ReturnKeepsInv
  <2>5. CASE Take \/ FindNothing \/ Move \/ Fail \/ Answer \/ Use
    BY <2>5, TakeKeepsInv, FindNothingKeepsInv, MoveKeepsInv, FailKeepsInv,
       AnswerKeepsInv, UseKeepsInv
  <2>6. CASE UNCHANGED vars
    <3>1. TypeOK'
      BY <2>6 DEF IInv, TypeOK, vars, driver, device
    <3>2. QueueInv'
      BY <2>6 DEF IInv, QueueInv, vars, driver, device, Waiting, Serving, Served
    <3> QED BY <3>1, <3>2 DEF IInv
  <2> QED
    BY <2>1, <2>2, <2>3, <2>4, <2>5, <2>6 DEF Next
<1> QED
  BY <1>1, <1>2, PTL DEF Spec

\* Every variable of driver, queue and device keeps its type.
THEOREM TypeCorrect == Spec => []TypeOK
<1>1. IInv => TypeOK
  BY DEF IInv
<1> QED BY <1>1, QueueInvariant, PTL

\* Between two calls the device is through with the queue and all indices agree,
\* on every lap and whether or not the machine keeps to program order.
THEOREM QuietWhenIdle == Spec => []QuietBetweenCalls
<1>1. IInv => QuietBetweenCalls
  BY DEF IInv, QueueInv, Served, QuietBetweenCalls
<1> QED BY <1>1, QueueInvariant, PTL

-----------------------------------------------------------------------------
(* What request, device, disk and answer hold, on a machine that keeps to    *)
(* program order                                                             *)

InCall == pc \in {"kick", "wait", "answer"}

\* The request in memory is the call's.
Stored ==
    /\ req.kind = call.kind
    /\ req.sector = call.sector
    /\ req.writable <=> call.kind = "Read"
    /\ call.kind = "Write" => req.data = call.data

\* The disk has done what was called for.
Done ==
    IF call.kind = "Read" THEN req.data = disk[call.sector]
                          ELSE disk[call.sector] = call.data

Loaded ==
    IF call.kind = "Read" THEN answer.data = disk[call.sector]
                          ELSE disk[call.sector] = call.data

DataInv ==
    /\ "request" \in stores => "index" \in stores
    /\ InCall /\ "request" \notin stores => Stored
    /\ dev # "idle" => job.kind = call.kind /\ job.sector = call.sector
    /\ dev = "moved" => Done
    /\ dev = "answered" /\ req.status = "Ok" => Done
    /\ InCall /\ "index" \notin stores /\ Served /\ req.status = "Ok" => Done
    /\ pc \in {"kick", "wait"} => answer = NoAnswer
    /\ pc = "answer" /\ answer.status = "Ok" => Loaded
    /\ AnswersTheCall

LEMMA InitDataInv == Init => DataInv
  BY DEF Init, DataInv, InCall, AnswersTheCall

LEMMA SetupKeepsData == ASSUME IInv, DataInv, Setup PROVE DataInv'
<1>1. UNCHANGED <<checked, pc, call, stores, answer, result, last_used_index,
                  req, avail_index, used_index, dev, job, dev_avail, disk>>
  BY DEF Setup, Probe, ProbeFails, Reset, SetStatus, InitQueue, DriverOk, Publish, SetupStep
<1> QED
  BY <1>1 DEF DataInv, InCall, Stored, Served, Done, Loaded, AnswersTheCall

LEMMA BeginKeepsData ==
    ASSUME IInv, DataInv, NEW c \in Call, Begin(c) PROVE DataInv'
<1>1. dev = "idle" /\ dev' = "idle" /\ stores = {} /\ pc = "idle"
  BY DEF IInv, QueueInv, Begin, Served, device
<1>2. answer' = NoAnswer /\ result' # "Ok"
  BY DEF Begin
<1>3. \/ pc' = "kick" /\ stores' = {"request", "index"}
      \/ pc' = "idle" /\ stores' = {}
  BY <1>1 DEF Begin
<1> QED
  BY <1>1, <1>2, <1>3 DEF DataInv, InCall, AnswersTheCall

LEMMA StoreRequestKeepsData ==
    ASSUME IInv, DataInv, StoreRequest PROVE DataInv'
<1>1. "index" \in stores /\ pc = "kick" /\ dev = "idle"
  BY DEF IInv, QueueInv, DataInv, StoreRequest, Served
<1>2. "index" \in stores' /\ "request" \notin stores'
      /\ UNCHANGED <<pc, call, answer, result, device>>
  BY <1>1 DEF StoreRequest
<1>3. Stored'
  <2>1. req \in [kind : Kinds, sector : Sectors, data : Data,
                 writable : BOOLEAN, status : {"Ok", "Error"}]
    BY DEF IInv, TypeOK
  <2>2. /\ req'.kind = call.kind /\ req'.sector = call.sector
        /\ req'.writable = (call.kind = "Read")
        /\ call.kind = "Write" => req'.data = call.data
    BY <2>1 DEF StoreRequest
  <2> QED BY <1>2, <2>2 DEF Stored
<1> QED
  BY <1>1, <1>2, <1>3 DEF DataInv, InCall, device, AnswersTheCall

LEMMA StoreIndexKeepsData ==
    ASSUME IInv, DataInv, InOrder, StoreIndex PROVE DataInv'
<1>1. pc = "kick" /\ Served /\ avail_index \in Indices
  BY DEF IInv, TypeOK, QueueInv, StoreIndex
<1>2. avail_index' # avail_index
  BY <1>1, SuccIsAnother DEF StoreIndex
<1>3. /\ "request" \notin stores /\ "request" \notin stores'
      /\ UNCHANGED <<pc, call, answer, result, req, used_index, device>>
  BY DEF StoreIndex
<1>4. ~Served'
  BY <1>1, <1>2, <1>3 DEF Served
<1> QED
  BY <1>1, <1>3, <1>4 DEF DataInv, InCall, Stored, Done, Served, device, AnswersTheCall

LEMMA IndexOverflowsKeepsData ==
    ASSUME IInv, DataInv, IndexOverflows PROVE DataInv'
<1>1. dev = "idle" /\ pc = "kick"
  BY DEF IInv, QueueInv, IndexOverflows, Served
<1> QED
  BY <1>1 DEF DataInv, IndexOverflows, InCall, device, AnswersTheCall

LEMMA NotifyKeepsData == ASSUME IInv, DataInv, Notify PROVE DataInv'
  BY DEF DataInv, Notify, InCall, Stored, Done, Served, AnswersTheCall

LEMMA CompletedKeepsData == ASSUME IInv, DataInv, Completed PROVE DataInv'
<1>1. answer' = NoAnswer /\ pc' = "answer"
  BY DEF DataInv, Completed
<1> QED
  BY <1>1 DEF DataInv, Completed, InCall, Stored, Done, Served, device, NoAnswer,
              AnswersTheCall

LEMMA LoadAnswerKeepsData ==
    ASSUME IInv, DataInv, InOrder, LoadAnswer PROVE DataInv'
<1>1. pc = "answer" /\ stores = {} /\ Served
  BY DEF LoadAnswer, IInv, QueueInv
<1>2. req.status = "Ok" => Done
  BY <1>1 DEF DataInv, InCall
<1>3. answer'.status = req.status /\ answer'.data = req.data
  BY DEF LoadAnswer
<1>4. answer'.status = "Ok" => Loaded'
  BY <1>2, <1>3 DEF Done, Loaded, LoadAnswer, device
<1> QED
  BY <1>1, <1>4 DEF DataInv, LoadAnswer, InCall, Stored, Done, Served, device, AnswersTheCall

LEMMA ReturnKeepsData == ASSUME IInv, DataInv, Return PROVE DataInv'
<1>1. stores = {} /\ dev = "idle"
  BY DEF IInv, QueueInv, Return, Served
<1>2. AnswersTheCall'
  BY DEF DataInv, Return, Loaded, AnswersTheCall, device
<1> QED
  BY <1>1, <1>2 DEF DataInv, Return, InCall, device

LEMMA TakeKeepsData == ASSUME IInv, DataInv, Take PROVE DataInv'
<1>1. pc \in {"kick", "wait"} /\ "index" \notin stores
  BY DEF IInv, TypeOK, QueueInv, Take, Served
<1>2. Stored
  BY <1>1 DEF DataInv, InCall
<1>3. job'.kind = call.kind /\ job'.sector = call.sector
  BY <1>2 DEF Take, Stored
<1> QED
  BY <1>1, <1>3 DEF DataInv, Take, InCall, Stored, Served, driver, AnswersTheCall

LEMMA FindNothingKeepsData == ASSUME IInv, DataInv, FindNothing PROVE DataInv'
  BY DEF DataInv, FindNothing, InCall, Stored, Done, Loaded, Served, driver, AnswersTheCall

\* A request is moved between the block and the data that the call names.
LEMMA MoveKeepsData == ASSUME IInv, DataInv, Move PROVE DataInv' /\ Done'
<1>1. pc \in {"kick", "wait"} /\ "index" \notin stores
  BY DeviceWorksForCall DEF Move
<1>2. Stored /\ job.kind = call.kind /\ job.sector = call.sector
  BY <1>1 DEF DataInv, InCall, Move
<1>3. call.sector \in Sectors /\ disk \in [Sectors -> Data]
      /\ req \in [kind : Kinds, sector : Sectors, data : Data,
                  writable : BOOLEAN, status : {"Ok", "Error"}]
  BY <1>1 DEF IInv, TypeOK, QueueInv
<1>4. call' = call /\ stores' = stores /\ pc' = pc /\ answer' = answer
      /\ result' = result /\ job' = job /\ dev' = "moved"
  BY DEF Move, driver
<1>5. Stored'
  BY <1>2, <1>3, <1>4 DEF Stored, Move
<1>6. Done'
  BY <1>2, <1>3, <1>4 DEF Stored, Done, Move
<1> QED
  BY <1>1, <1>2, <1>4, <1>5, <1>6 DEF DataInv, InCall, Served, AnswersTheCall

LEMMA FailKeepsData == ASSUME IInv, DataInv, Fail PROVE DataInv'
<1>1. pc \in {"kick", "wait"}
  BY DeviceWorksForCall DEF Fail
<1> QED
  BY <1>1 DEF DataInv, Fail, InCall, Stored, Served, driver, AnswersTheCall

LEMMA AnswerKeepsData == ASSUME IInv, DataInv, Answer PROVE DataInv'
<1>1. pc \in {"kick", "wait"}
  BY DeviceWorksForCall DEF Answer
<1>2. req \in [kind : Kinds, sector : Sectors, data : Data,
               writable : BOOLEAN, status : {"Ok", "Error"}]
  BY DEF IInv, TypeOK
<1>3. /\ req'.kind = req.kind /\ req'.sector = req.sector /\ req'.data = req.data
      /\ req'.writable = req.writable
      /\ req'.status = "Ok" => dev = "moved"
  BY <1>2 DEF Answer
<1>4. /\ UNCHANGED <<driver, job, disk>> /\ dev' = "answered" /\ dev # "idle"
  BY DEF Answer
<1>5. Stored => Stored'
  BY <1>3, <1>4 DEF Stored, driver
<1>6. Done => Done'
  BY <1>3, <1>4 DEF Done, driver
<1> QED
  BY <1>1, <1>3, <1>4, <1>5, <1>6 DEF DataInv, InCall, Served, driver, AnswersTheCall

LEMMA UseKeepsData == ASSUME IInv, DataInv, Use PROVE DataInv'
<1>1. pc \in {"kick", "wait"}
  BY DeviceWorksForCall DEF Use
<1> QED
  BY <1>1 DEF DataInv, Use, InCall, Stored, Done, Served, driver, AnswersTheCall

LEMMA DataStep ==
    ASSUME InOrder, IInv, DataInv, [Next]_vars PROVE DataInv'
<1>1. CASE Setup
  BY <1>1, SetupKeepsData
<1>2. ASSUME NEW c \in Call, Begin(c) PROVE DataInv'
  BY <1>2, BeginKeepsData
<1>3. CASE StoreRequest \/ StoreIndex \/ IndexOverflows \/ Notify
  BY <1>3, StoreRequestKeepsData, StoreIndexKeepsData, IndexOverflowsKeepsData,
     NotifyKeepsData
<1>4. CASE Completed \/ LoadAnswer \/ Return
  BY <1>4, CompletedKeepsData, LoadAnswerKeepsData, ReturnKeepsData
<1>5. CASE Take \/ FindNothing \/ Move \/ Fail \/ Answer \/ Use
  BY <1>5, TakeKeepsData, FindNothingKeepsData, MoveKeepsData, FailKeepsData,
     AnswerKeepsData, UseKeepsData
<1>6. CASE UNCHANGED vars
  BY <1>6 DEF vars, driver, device, DataInv, InCall, Stored, Done, Loaded, Served,
              AnswersTheCall
<1> QED
  BY <1>1, <1>2, <1>3, <1>4, <1>5, <1>6 DEF Next

LEMMA DataInvariant == ASSUME InOrder PROVE Spec => [](IInv /\ DataInv)
<1>1. IInv /\ DataInv /\ [Next]_vars => DataInv'
  BY DataStep
<1> QED
  BY <1>1, InitDataInv, QueueInvariant, PTL DEF Spec

\* In program order, a call that returns Ok has read the disk's block or written
\* its own, on every lap of the indices.
THEOREM OkMeansDone == ASSUME InOrder PROVE Spec => []AnswersTheCall
<1>1. DataInv => AnswersTheCall
  BY DEF DataInv
<1> QED BY <1>1, DataInvariant, PTL

\* In program order, the disk changes only in the block that a write under way
\* names, and to the data it brings.
THEOREM WritesOnlyItsBlock == ASSUME InOrder PROVE Spec => OnlyTheWrittenBlock
<1>1. ASSUME IInv, DataInv, [Next]_vars, NEW s \in Sectors, disk'[s] # disk[s]
      PROVE  /\ pc \in {"kick", "wait"}
             /\ call = [kind |-> "Write", sector |-> s, data |-> disk'[s]]
  <2>1. Move /\ disk' # disk
    BY <1>1 DEF Next, Setup, Probe, ProbeFails, Reset, SetStatus, InitQueue, DriverOk,
       Publish, SetupStep, Begin, StoreRequest, StoreIndex, IndexOverflows, Notify,
       Completed, LoadAnswer, Return, Take, FindNothing, Fail, Answer, Use, vars, device
  <2>2. pc \in {"kick", "wait"} /\ "index" \notin stores
    BY <1>1, <2>1, DeviceWorksForCall DEF Move
  <2>3. Stored /\ job.kind = call.kind /\ job.sector = call.sector
    BY <1>1, <2>1, <2>2 DEF DataInv, InCall, Move
  <2>4. call.kind = "Write" /\ call.data = req.data
    BY <2>1, <2>3 DEF Move, Stored
  <2>5. call.sector = s /\ disk'[s] = req.data
    BY <1>1, <2>1, <2>3 DEF Move, IInv, TypeOK
  <2>6. call = [kind |-> call.kind, sector |-> call.sector, data |-> call.data]
    BY <1>1 DEF IInv, TypeOK, Call
  <2> QED BY <2>2, <2>4, <2>5, <2>6
<1>2. IInv /\ DataInv /\ [Next]_vars =>
        [\A s \in Sectors :
           disk'[s] # disk[s] =>
             /\ pc \in {"kick", "wait"}
             /\ call = [kind |-> "Write", sector |-> s, data |-> disk'[s]]]_vars
  BY <1>1
<1> QED
  BY <1>2, DataInvariant, PTL DEF Spec, OnlyTheWrittenBlock

-----------------------------------------------------------------------------
(* Fat16 *)

\* What parse() accepts gives every field the range of the bytes it is read from.
THEOREM ParsedBpb ==
    ASSUME NEW sector \in Sector, ParseError(sector) = "Ok"
    PROVE  Parse(sector) \in Bpb
  BY DEF Parse, Sector, Bpb

LEMMA Fields ==
    ASSUME NEW bpb \in Bpb
    PROVE  /\ bpb.sector_size = BLOCK_SIZE
           /\ bpb.sectors_per_cluster \in U8
           /\ bpb.reserved_sectors \in U16
           /\ bpb.fat_count \in U8
           /\ bpb.root_entry_count \in U16
           /\ bpb.sectors_per_fat \in U16
  BY DEF Bpb

\* A product of naturals is a natural, and no larger than that of their bounds.
LEMMA ProductBound ==
    ASSUME NEW m \in Nat, NEW n \in Nat, NEW a \in Nat, NEW b \in Nat, a <= m, b <= n
    PROVE  a * b \in Nat /\ a * b <= m * n
<1>1. a * b \in Nat /\ m * n \in Nat
  OBVIOUS
<1>2. m * n = a * b + a * (n - b) + (m - a) * n
  OBVIOUS
<1>3. a * (n - b) \in Nat /\ (m - a) * n \in Nat
  <2>1. n - b \in Nat /\ m - a \in Nat
    OBVIOUS
  <2> QED BY <2>1
<1> QED BY <1>1, <1>2, <1>3

\* The root directory has room for the entries the disk declares, and no sector
\* of it is spare.
THEOREM RootDirectoryFits ==
    ASSUME NEW bpb \in Bpb
    PROVE  /\ RootDirSectors(bpb) \in Nat /\ RootDirSectors(bpb) <= 4096
           /\ bpb.root_entry_count * DIR_ENTRY_BYTES <= RootDirSectors(bpb) * BLOCK_SIZE
           /\ RootDirSectors(bpb) * BLOCK_SIZE
                < bpb.root_entry_count * DIR_ENTRY_BYTES + BLOCK_SIZE
<1>1. RootDirSectors(bpb) = (bpb.root_entry_count * 32 + 511) \div 512
  <2>1. bpb.root_entry_count \in Int
    BY SMT, Fields DEF U16
  <2> QED
    BY SMT, <2>1, Fields DEF RootDirSectors, DivCeil, BLOCK_SIZE, DIR_ENTRY_BYTES
<1>2. ASSUME NEW n \in U16
      PROVE  /\ (n * 32 + 511) \div 512 \in Nat
             /\ (n * 32 + 511) \div 512 <= 4096
             /\ n * 32 <= ((n * 32 + 511) \div 512) * 512
             /\ ((n * 32 + 511) \div 512) * 512 < n * 32 + 512
  BY SMT DEF U16
<1>3. bpb.root_entry_count \in U16
  BY Fields
<1> QED BY SMT, <1>1, <1>2, <1>3 DEF BLOCK_SIZE, DIR_ENTRY_BYTES

LEMMA StartSectors ==
    ASSUME NEW bpb \in Bpb
    PROVE  /\ bpb.fat_count * bpb.sectors_per_fat \in Nat
           /\ RootDirStartSector(bpb) \in Nat
           /\ RootDirStartSector(bpb) < 16777216
           /\ DataStartSector(bpb) \in Nat
           /\ DataStartSector(bpb) < 16785408
<1>1. /\ bpb.fat_count * bpb.sectors_per_fat \in Nat
      /\ bpb.fat_count * bpb.sectors_per_fat <= 255 * 65535
  <2>1. /\ bpb.fat_count \in Nat /\ bpb.fat_count <= 255
        /\ bpb.sectors_per_fat \in Nat /\ bpb.sectors_per_fat <= 65535
    BY SMT, Fields DEF U8, U16
  <2> QED BY SMT, <2>1, ProductBound
<1>2. RootDirStartSector(bpb) \in Nat /\ RootDirStartSector(bpb) < 16777216
  <2>1. bpb.reserved_sectors \in Nat /\ bpb.reserved_sectors <= 65535
    BY SMT, Fields DEF U16
  <2> QED BY SMT, <1>1, <2>1 DEF RootDirStartSector
<1>3. DataStartSector(bpb) \in Nat /\ DataStartSector(bpb) < 16785408
  BY SMT, <1>2, RootDirectoryFits DEF DataStartSector
<1> QED BY SMT, <1>1, <1>2, <1>3

\* For every disk parse() accepts, the regions follow one another, the FATs filling
\* what lies between the reserved sectors and the root directory.
THEOREM RegionsInOrder ==
    ASSUME NEW bpb \in Bpb
    PROVE  /\ FatStartSector(bpb) + bpb.fat_count * bpb.sectors_per_fat
                = RootDirStartSector(bpb)
           /\ FatStartSector(bpb) <= RootDirStartSector(bpb)
           /\ RootDirStartSector(bpb) <= DataStartSector(bpb)
<1>1. bpb.fat_count * bpb.sectors_per_fat \in Nat /\ bpb.reserved_sectors \in Nat
  BY SMT, StartSectors, Fields DEF U16
<1>2. RootDirStartSector(bpb) \in Nat /\ RootDirSectors(bpb) \in Nat
  BY SMT, StartSectors, RootDirectoryFits
<1>3. FatStartSector(bpb) + bpb.fat_count * bpb.sectors_per_fat = RootDirStartSector(bpb)
  BY DEF FatStartSector, RootDirStartSector
<1>4. FatStartSector(bpb) <= RootDirStartSector(bpb)
  BY SMT, <1>1, <1>3 DEF FatStartSector
<1>5. RootDirStartSector(bpb) <= DataStartSector(bpb)
  BY SMT, <1>2 DEF DataStartSector
<1> QED BY <1>3, <1>4, <1>5

\* The sector of a cluster of a FAT16 disk fits a usize: nothing wraps, whatever
\* the disk's fields are.
THEOREM ClusterSectorIsExact ==
    ASSUME NEW bpb \in Bpb, NEW cluster \in Cluster
    PROVE  ClusterToSector(bpb, cluster) =
             DataStartSector(bpb) + (cluster - 2) * bpb.sectors_per_cluster
<1> DEFINE offset == (cluster - 2) * bpb.sectors_per_cluster
<1>1. offset \in Nat /\ offset <= 65533 * 255
  <2>1. /\ cluster - 2 \in Nat /\ cluster - 2 <= 65533
        /\ bpb.sectors_per_cluster \in Nat /\ bpb.sectors_per_cluster <= 255
    BY SMT, Fields DEF U8, U16, Cluster
  <2> QED BY SMT, <2>1, ProductBound
<1>2. \A n \in Nat : n < USIZE => n % USIZE = n
  BY SMT DEF USIZE
<1>3. (cluster - 2) % USIZE = cluster - 2
  <2>1. cluster - 2 \in Nat /\ cluster - 2 < USIZE
    BY SMT DEF USIZE, Cluster, U16
  <2> QED BY SMT, <1>2, <2>1
<1>4. ClusterToSector(bpb, cluster) = (DataStartSector(bpb) + offset) % USIZE
  BY SMT, <1>3 DEF ClusterToSector
<1> HIDE DEF offset
<1>5. DataStartSector(bpb) + offset \in Nat /\ DataStartSector(bpb) + offset < USIZE
  BY SMT, <1>1, StartSectors DEF USIZE
<1>6. ClusterToSector(bpb, cluster) = DataStartSector(bpb) + offset
  BY SMT, <1>2, <1>4, <1>5
<1> QED BY SMT, <1>6 DEF offset

\* No two clusters share a sector, and none reaches below the data region.
THEOREM ClustersAreDisjoint ==
    ASSUME NEW bpb \in Bpb, NEW a \in Cluster, NEW b \in Cluster, a < b
    PROVE  /\ DataStartSector(bpb) <= ClusterToSector(bpb, a)
           /\ ClusterToSector(bpb, a) + bpb.sectors_per_cluster
                <= ClusterToSector(bpb, b)
<1>1. bpb.sectors_per_cluster \in Nat /\ DataStartSector(bpb) \in Nat
  BY SMT, StartSectors, Fields DEF U8
<1>2. /\ ClusterToSector(bpb, a) =
           DataStartSector(bpb) + (a - 2) * bpb.sectors_per_cluster
      /\ ClusterToSector(bpb, b) =
           DataStartSector(bpb) + (b - 2) * bpb.sectors_per_cluster
  BY SMT, ClusterSectorIsExact
<1>3. ASSUME NEW n \in Nat
      PROVE  (a - 2) * n \in Nat /\ (a - 2) * n + n <= (b - 2) * n
  <2>1. a - 2 \in Nat /\ b - a - 1 \in Nat /\ a \in Nat /\ b \in Nat
    BY SMT DEF Cluster, U16
  <2>2. (a - 2) * n \in Nat /\ (b - a - 1) * n \in Nat
    BY SMT, <2>1
  <2>3. (b - 2) * n = (a - 2) * n + n + (b - a - 1) * n
    BY SMT, <2>1
  <2>4. (b - 2) * n \in Int
    BY SMT, <2>1
  <2> QED BY SMT, <2>2, <2>3, <2>4
<1>4. ASSUME NEW n \in Nat, NEW d \in Nat
      PROVE  d <= d + (a - 2) * n /\ d + (a - 2) * n + n <= d + (b - 2) * n
  <2>1. (a - 2) * n \in Nat /\ (b - 2) * n \in Int
    BY SMT, <1>3 DEF Cluster, U16
  <2> QED BY SMT, <1>3, <2>1
<1> QED BY <1>1, <1>2, <1>4

-----------------------------------------------------------------------------
(* FrameBuffer *)

\* Rows do not overlap: a row that starts lower ends where the next begins, or
\* before it.
LEMMA RowsInOrder ==
    ASSUME NEW w \in Nat, NEW y \in Nat, NEW z \in Nat, y <= z
    PROVE  y * w \in Nat /\ z * w \in Nat /\ y * w <= z * w
<1>1. z - y \in Nat
  OBVIOUS
<1>2. y * w \in Nat /\ (z - y) * w \in Nat /\ z * w \in Nat
  BY <1>1
<1>3. z * w = y * w + (z - y) * w
  OBVIOUS
<1> QED BY <1>2, <1>3

LEMMA NextRow ==
    ASSUME NEW w \in Nat, NEW y \in Nat
    PROVE  y * w \in Nat /\ (y + 1) * w = y * w + w
  OBVIOUS

\* A pixel of the screen has an offset in the buffer.
LEMMA PixelInBuffer ==
    ASSUME WIDTH \in Nat, HEIGHT \in Nat,
           NEW x \in Nat, NEW y \in Nat, x < WIDTH, y < HEIGHT
    PROVE  Offset(x, y) \in Nat /\ Offset(x, y) < SIZE
<1>1. (y + 1) * WIDTH \in Nat /\ (y + 1) * WIDTH <= HEIGHT * WIDTH
  BY RowsInOrder
<1>2. y * WIDTH \in Nat /\ (y + 1) * WIDTH = y * WIDTH + WIDTH
  BY NextRow
<1>3. HEIGHT * WIDTH \in Nat
  OBVIOUS
<1> QED BY <1>1, <1>2, <1>3 DEF Offset, SIZE

\* Two pixels of the screen never share an offset: what is drawn in one row or
\* column never shows up in another.
THEOREM PixelsAreDistinct ==
    ASSUME WIDTH \in Nat,
           NEW x1 \in Nat, NEW y1 \in Nat, x1 < WIDTH,
           NEW x2 \in Nat, NEW y2 \in Nat, x2 < WIDTH,
           Offset(x1, y1) = Offset(x2, y2)
    PROVE  x1 = x2 /\ y1 = y2
<1>1. ASSUME NEW a \in Nat, NEW b \in Nat, NEW p \in Nat, NEW q \in Nat,
             p < WIDTH, q < WIDTH, a < b
      PROVE  a * WIDTH + p < b * WIDTH + q
  <2>1. /\ (a + 1) * WIDTH \in Nat /\ b * WIDTH \in Nat
        /\ (a + 1) * WIDTH <= b * WIDTH
    BY <1>1, RowsInOrder
  <2>2. a * WIDTH \in Nat /\ (a + 1) * WIDTH = a * WIDTH + WIDTH
    BY <1>1, NextRow
  <2> QED BY <1>1, <2>1, <2>2
<1>2. CASE y1 < y2
  <2>1. Offset(x1, y1) < Offset(x2, y2)
    BY <1>1, <1>2 DEF Offset
  <2>2. Offset(x1, y1) \in Nat /\ Offset(x2, y2) \in Nat
    BY NextRow DEF Offset
  <2> QED BY <2>1, <2>2
<1>3. CASE y2 < y1
  <2>1. Offset(x2, y2) < Offset(x1, y1)
    BY <1>1, <1>3 DEF Offset
  <2>2. Offset(x1, y1) \in Nat /\ Offset(x2, y2) \in Nat
    BY NextRow DEF Offset
  <2> QED BY <2>1, <2>2
<1>4. CASE y1 = y2
  <2>1. y1 * WIDTH \in Nat
    BY NextRow
  <2> QED BY <1>4, <2>1 DEF Offset
<1> QED BY <1>2, <1>3, <1>4

\* Within a row, the slice that starts at column x and does not leave the row
\* holds the pixels of that row from column x, and no others.
LEMMA SliceOfRow ==
    ASSUME WIDTH \in Nat, NEW x \in Nat, NEW y \in Nat, NEW n \in Nat, x + n <= WIDTH,
           NEW px \in Nat, NEW py \in Nat, px < WIDTH
    PROVE  /\ InSlice(Offset(px, py), Offset(x, y), Offset(x, y) + n)
                <=> (py = y /\ x <= px /\ px < x + n)
           /\ py = y => Offset(px, py) - Offset(x, y) = px - x
<1>1. y * WIDTH \in Nat /\ py * WIDTH \in Nat
  BY NextRow
<1>2. CASE py = y
  BY <1>1, <1>2 DEF InSlice, Offset
<1>3. CASE py < y
  <2>1. /\ (py + 1) * WIDTH \in Nat /\ (py + 1) * WIDTH <= y * WIDTH
    BY <1>3, RowsInOrder
  <2>2. (py + 1) * WIDTH = py * WIDTH + WIDTH
    BY NextRow
  <2> QED BY <1>1, <1>3, <2>1, <2>2 DEF InSlice, Offset
<1>4. CASE y < py
  <2>1. /\ (y + 1) * WIDTH \in Nat /\ (y + 1) * WIDTH <= py * WIDTH
    BY <1>4, RowsInOrder
  <2>2. (y + 1) * WIDTH = y * WIDTH + WIDTH
    BY NextRow
  <2> QED BY <1>1, <1>4, <2>1, <2>2 DEF InSlice, Offset
<1> QED BY <1>2, <1>3, <1>4

\* Where set_pixels() draws, it stays inside the buffer, puts its colours on the
\* row and from the column it is given, and leaves every other pixel alone.
THEOREM SetPixelsDrawsItsRow ==
    ASSUME WIDTH \in Nat, HEIGHT \in Nat,
           NEW Colours, NEW buf \in Buffers(Colours), NEW colours \in Seq(Colours),
           NEW x \in Nat, NEW y \in Nat, x + Len(colours) < WIDTH, y < HEIGHT,
           NEW px \in Nat, NEW py \in Nat, px < WIDTH, py < HEIGHT
    PROVE  /\ SliceInBounds(Offset(x, y), Offset(x, y) + Len(colours))
           /\ SetPixels(buf, x, y, colours)[Offset(px, py)] =
                IF py = y /\ x <= px /\ px < x + Len(colours)
                THEN colours[px - x + 1] ELSE buf[Offset(px, py)]
<1> DEFINE n == Len(colours)
<1>1. n \in Nat
  OBVIOUS
<1>2. SliceInBounds(Offset(x, y), Offset(x, y) + n)
  <2>1. x + n \in Nat /\ x + n < WIDTH
    BY <1>1
  <2>2. Offset(x + n, y) \in Nat /\ Offset(x + n, y) < SIZE
    BY <2>1, PixelInBuffer
  <2>3. Offset(x, y) \in Nat /\ Offset(x + n, y) = Offset(x, y) + n
    BY <1>1, NextRow DEF Offset
  <2>4. SIZE \in Nat
    BY DEF SIZE
  <2> HIDE DEF n
  <2> QED BY <1>1, <2>2, <2>3, <2>4 DEF SliceInBounds
<1>3. Offset(px, py) \in DOMAIN buf
  BY PixelInBuffer DEF Buffers
<1>4. SetPixels(buf, x, y, colours)[Offset(px, py)] =
        IF InSlice(Offset(px, py), Offset(x, y), Offset(x, y) + n)
        THEN colours[Offset(px, py) - Offset(x, y) + 1] ELSE buf[Offset(px, py)]
  BY <1>3 DEF SetPixels, CopySlice
<1>5. /\ InSlice(Offset(px, py), Offset(x, y), Offset(x, y) + n)
           <=> (py = y /\ x <= px /\ px < x + n)
      /\ py = y => Offset(px, py) - Offset(x, y) = px - x
  <2>1. x + n <= WIDTH
    BY <1>1
  <2> HIDE DEF n
  <2> QED BY <1>1, <2>1, SliceOfRow
<1> QED BY <1>2, <1>4, <1>5

\* The last slice a row has room for is the one it never draws: a glyph that ends
\* at the right edge, which draw_char() lets pass, leaves the screen as it is.
THEOREM RightEdgeIsNotDrawn ==
    ASSUME WIDTH \in Nat, FONT_WIDTH \in Nat, NEW buf, NEW bits, NEW fg, NEW bg,
           NEW x \in Nat, NEW y \in Nat, x + FONT_WIDTH = WIDTH
    PROVE  SetPixels(buf, x, y, GlyphRow(bits, fg, bg)) = buf
<1>1. Len(GlyphRow(bits, fg, bg)) = FONT_WIDTH
  BY DEF GlyphRow
<1> QED BY <1>1 DEF SetPixels

\* scroll() moves every row up by scroll_height and fills the rows that come free;
\* no pixel moves sideways and none of the old bottom rows stays.
THEOREM ScrollMovesRows ==
    ASSUME WIDTH \in Nat, HEIGHT \in Nat,
           NEW Colours, NEW buf \in Buffers(Colours), NEW bg \in Colours,
           NEW h \in Nat, h <= HEIGHT,
           NEW px \in Nat, NEW py \in Nat, px < WIDTH, py < HEIGHT
    PROVE  /\ SliceInBounds(h * WIDTH, SIZE)
           /\ Scroll(buf, h, bg)[Offset(px, py)] =
                IF py + h < HEIGHT THEN buf[Offset(px, py + h)] ELSE bg
<1> DEFINE i == Offset(px, py)
           top == HEIGHT - h
           moved == MoveDown(buf, h * WIDTH)
<1>1. /\ top \in Nat /\ top <= HEIGHT
      /\ h * WIDTH \in Nat /\ top * WIDTH \in Nat /\ SIZE \in Nat
      /\ h * WIDTH <= SIZE
  <2>1. top \in Nat /\ top <= HEIGHT
    OBVIOUS
  <2> HIDE DEF top
  <2> QED BY <2>1, RowsInOrder DEF SIZE
<1>2. SliceInBounds(h * WIDTH, SIZE)
  BY <1>1 DEF SliceInBounds
<1>3. i \in Nat /\ i < SIZE /\ i \in DOMAIN buf /\ DOMAIN moved = DOMAIN buf
  BY PixelInBuffer DEF Buffers, MoveDown
<1>4. i + h * WIDTH = Offset(px, py + h)
  <2>1. (py + h) * WIDTH = py * WIDTH + h * WIDTH
    OBVIOUS
  <2>2. py * WIDTH \in Nat /\ h * WIDTH \in Nat
    BY NextRow
  <2> QED BY <2>1, <2>2 DEF Offset
<1>5. Scroll(buf, h, bg)[i] = IF InSlice(i, top * WIDTH, SIZE) THEN bg ELSE moved[i]
  <2>1. top + h = HEIGHT
    OBVIOUS
  <2>2. Scroll(buf, h, bg) = FillSlice(moved, top * WIDTH, SIZE, bg)
    BY <2>1 DEF Scroll, FillRows, SIZE
  <2> HIDE DEF i, top, moved
  <2> QED BY <1>3, <2>2 DEF FillSlice
<1>6. CASE py + h < HEIGHT
  <2>1. Offset(px, py + h) \in Nat /\ Offset(px, py + h) < SIZE
    BY <1>6, PixelInBuffer
  <2>2. moved[i] = buf[Offset(px, py + h)]
    BY <1>3, <1>4, <2>1 DEF MoveDown
  <2>3. ~InSlice(i, top * WIDTH, SIZE)
    <3>1. (py + 1) * WIDTH \in Nat /\ (py + 1) * WIDTH <= top * WIDTH
      <4>1. py + 1 <= top
        BY <1>6
      <4> HIDE DEF top
      <4> QED BY <1>1, <4>1, RowsInOrder
    <3>2. py * WIDTH \in Nat /\ (py + 1) * WIDTH = py * WIDTH + WIDTH
      BY NextRow
    <3>3. i < top * WIDTH
      <4> HIDE DEF top
      <4> QED BY <1>1, <3>1, <3>2 DEF Offset
    <3> HIDE DEF i, top
    <3> QED BY <1>1, <1>3, <3>3 DEF InSlice
  <2> QED BY <1>2, <1>5, <1>6, <2>2, <2>3
<1>7. CASE ~(py + h < HEIGHT)
  <2>1. top <= py
    BY <1>7
  <2>2. top * WIDTH <= py * WIDTH /\ py * WIDTH \in Nat
    <3> HIDE DEF top
    <3> QED BY <1>1, <2>1, RowsInOrder
  <2>3. top * WIDTH <= i
    <3> HIDE DEF top
    <3> QED BY <1>1, <2>2 DEF Offset
  <2>4. InSlice(i, top * WIDTH, SIZE)
    <3> HIDE DEF i, top
    <3> QED BY <1>3, <2>3 DEF InSlice
  <2> QED BY <1>2, <1>5, <1>7, <2>4
<1> QED BY <1>2, <1>6, <1>7

-----------------------------------------------------------------------------
(* A glyph: draw_char() row by row *)

IsDrawn(f, k, buf, x, y, glyph, fg, bg) ==
    f = [r \in 0..k |->
            IF r = 0 THEN buf
            ELSE SetPixels(f[r - 1], x, y + r - 1, GlyphRow(glyph[r], fg, bg))]

LEMMA DrawnExists ==
    ASSUME NEW k \in Nat, NEW buf, NEW x, NEW y, NEW glyph, NEW fg, NEW bg
    PROVE  \E f : IsDrawn(f, k, buf, x, y, glyph, fg, bg)
<1> DEFINE Next1(f, r) == SetPixels(f[r - 1], x, y + r - 1, GlyphRow(glyph[r], fg, bg))
           S == {j \in Nat : \E f : IsDrawn(f, j, buf, x, y, glyph, fg, bg)}
<1>1. 0 \in S
  <2> DEFINE f == [r \in 0..0 |-> buf]
  <2>1. f = [r \in 0..0 |-> IF r = 0 THEN buf ELSE Next1(f, r)]
    OBVIOUS
  <2> QED BY <2>1 DEF IsDrawn
<1>2. ASSUME NEW j \in S PROVE j + 1 \in S
  <2>1. PICK f : IsDrawn(f, j, buf, x, y, glyph, fg, bg)
    OBVIOUS
  <2>2. \A r \in 0..j : f[r] = IF r = 0 THEN buf ELSE Next1(f, r)
    BY <2>1 DEF IsDrawn
  <2> DEFINE g == [r \in 0..(j + 1) |-> IF r <= j THEN f[r] ELSE Next1(f, j + 1)]
  <2>3. ASSUME NEW r \in 0..(j + 1) PROVE g[r] = IF r = 0 THEN buf ELSE Next1(g, r)
    <3>1. CASE r = 0
      BY <3>1, <2>2
    <3>2. CASE r # 0 /\ r <= j
      <4>1. g[r] = f[r] /\ g[r - 1] = f[r - 1]
        BY <3>2
      <4>2. f[r] = Next1(f, r)
        BY <3>2, <2>2
      <4> QED BY <4>1, <4>2, <3>2
    <3>3. CASE ~(r <= j)
      <4>1. r = j + 1
        BY <3>3
      <4>2. g[r] = Next1(f, r) /\ g[r - 1] = f[r - 1] /\ r # 0
        BY <3>3, <4>1
      <4> QED BY <4>2
    <3> QED BY <3>1, <3>2, <3>3
  <2>4. g = [r \in 0..(j + 1) |-> IF r = 0 THEN buf ELSE Next1(g, r)]
    <3>1. g = [r \in 0..(j + 1) |-> g[r]]
      OBVIOUS
    <3> HIDE DEF g
    <3> QED BY <3>1, <2>3
  <2>5. IsDrawn(g, j + 1, buf, x, y, glyph, fg, bg)
    BY <2>4 DEF IsDrawn
  <2> QED BY <2>5
<1> HIDE DEF S
<1>3. S = Nat
  <2>1. S \in SUBSET Nat
    BY DEF S
  <2> QED BY <1>1, <1>2, <2>1, Induction
<1> QED BY <1>3 DEF S

\* The rows of a glyph, one after the other, up to the one that draw_char() leaves.
AreRows(f, buf, x, y, glyph, fg, bg) ==
    /\ f[0] = buf
    /\ \A r \in 1..FONT_HEIGHT :
          f[r] = SetPixels(f[r - 1], x, y + r - 1, GlyphRow(glyph[r], fg, bg))

LEMMA DrawnRows ==
    ASSUME WIDTH \in Nat, HEIGHT \in Nat, FONT_WIDTH \in Nat, FONT_HEIGHT \in Nat,
           NEW glyph \in [1..FONT_HEIGHT -> [1..FONT_WIDTH -> BOOLEAN]],
           NEW buf, NEW x \in Nat, NEW y \in Nat, NEW fg, NEW bg,
           x + FONT_WIDTH <= WIDTH, y <= HEIGHT - FONT_HEIGHT
    PROVE  \E f : /\ AreRows(f, buf, x, y, glyph, fg, bg)
                  /\ DrawChar(buf, x, y, glyph, fg, bg) = f[FONT_HEIGHT]
<1> DEFINE f == CHOOSE g : IsDrawn(g, FONT_HEIGHT, buf, x, y, glyph, fg, bg)
<1>1. IsDrawn(f, FONT_HEIGHT, buf, x, y, glyph, fg, bg)
  BY DrawnExists
<1>2. DrawChar(buf, x, y, glyph, fg, bg) = f[FONT_HEIGHT]
  BY DEF DrawChar, IsDrawn
<1> HIDE DEF f
<1>3. \A r \in 0..FONT_HEIGHT :
        f[r] = IF r = 0 THEN buf
               ELSE SetPixels(f[r - 1], x, y + r - 1, GlyphRow(glyph[r], fg, bg))
  BY <1>1 DEF IsDrawn
<1>4. f[0] = buf
  BY <1>3
<1>5. \A r \in 1..FONT_HEIGHT :
        f[r] = SetPixels(f[r - 1], x, y + r - 1, GlyphRow(glyph[r], fg, bg))
  BY <1>3
<1> QED BY <1>2, <1>4, <1>5 DEF AreRows

\* set_pixels() keeps a framebuffer one, whatever it draws.
LEMMA SetPixelsIsBuffer ==
    ASSUME NEW Colours, NEW buf \in Buffers(Colours), NEW colours \in Seq(Colours),
           WIDTH \in Nat, NEW x \in Nat, NEW y \in Nat
    PROVE  SetPixels(buf, x, y, colours) \in Buffers(Colours)
<1> DEFINE start == Offset(x, y)
           n == Len(colours)
           new == CopySlice(buf, start, colours)
<1>1. start \in Nat /\ n \in Nat
  BY NextRow DEF Offset
<1> HIDE DEF start
<1>2. /\ DOMAIN new = {i \in Nat : i < SIZE}
      /\ \A i \in {i \in Nat : i < SIZE} :
            new[i] = IF InSlice(i, start, start + n) THEN colours[i - start + 1] ELSE buf[i]
  BY DEF CopySlice, Buffers
<1>3. ASSUME NEW i \in Nat, i < SIZE PROVE new[i] \in Colours
  <2>1. CASE InSlice(i, start, start + n)
    <3>1. i - start + 1 \in 1..n
      BY <1>1, <2>1 DEF InSlice
    <3>2. colours[i - start + 1] \in Colours
      BY <3>1
    <3> QED BY <1>2, <1>3, <2>1, <3>2
  <2>2. CASE ~InSlice(i, start, start + n)
    BY <1>2, <1>3, <2>2 DEF Buffers
  <2> QED BY <2>1, <2>2
<1>4. new = [i \in {j \in Nat : j < SIZE} |-> new[i]]
  BY DEF CopySlice, Buffers
<1> HIDE DEF new
<1>5. new \in Buffers(Colours)
  BY <1>3, <1>4 DEF Buffers
<1> QED BY <1>5 DEF SetPixels, new, start

\* A glyph that ends before the right edge: draw_char() gives every pixel of its
\* rectangle the colour of its bit, and leaves all others alone.
THEOREM DrawCharDrawsGlyph ==
    ASSUME WIDTH \in Nat, HEIGHT \in Nat, FONT_WIDTH \in Nat, FONT_HEIGHT \in Nat,
           NEW Colours, NEW buf \in Buffers(Colours), NEW fg \in Colours, NEW bg \in Colours,
           NEW glyph \in [1..FONT_HEIGHT -> [1..FONT_WIDTH -> BOOLEAN]],
           NEW x \in Nat, NEW y \in Nat, x + FONT_WIDTH < WIDTH, y + FONT_HEIGHT <= HEIGHT
    PROVE  /\ DrawChar(buf, x, y, glyph, fg, bg) \in Buffers(Colours)
           /\ \A px, py \in Nat :
                px < WIDTH /\ py < HEIGHT =>
                    DrawChar(buf, x, y, glyph, fg, bg)[Offset(px, py)] =
                        IF x <= px /\ px < x + FONT_WIDTH /\ y <= py /\ py < y + FONT_HEIGHT
                        THEN IF glyph[py - y + 1][px - x + 1] THEN fg ELSE bg
                        ELSE buf[Offset(px, py)]
<1>1. x + FONT_WIDTH <= WIDTH /\ y <= HEIGHT - FONT_HEIGHT
  OBVIOUS
<1>2. PICK f : /\ AreRows(f, buf, x, y, glyph, fg, bg)
               /\ DrawChar(buf, x, y, glyph, fg, bg) = f[FONT_HEIGHT]
  BY <1>1, DrawnRows
<1> DEFINE Shown(r, px, py) ==
              IF x <= px /\ px < x + FONT_WIDTH /\ y <= py /\ py < y + r
              THEN IF glyph[py - y + 1][px - x + 1] THEN fg ELSE bg
              ELSE buf[Offset(px, py)]
           Holds(r) == /\ f[r] \in Buffers(Colours)
                       /\ \A px, py \in Nat :
                             px < WIDTH /\ py < HEIGHT => f[r][Offset(px, py)] = Shown(r, px, py)
           S == {r \in Nat : r <= FONT_HEIGHT => Holds(r)}
<1>3. 0 \in S
  <2>1. \A px, py \in Nat : Shown(0, px, py) = buf[Offset(px, py)]
    OBVIOUS
  <2> QED BY <2>1, <1>2 DEF AreRows
<1>4. ASSUME NEW r \in S PROVE r + 1 \in S
  <2> SUFFICES ASSUME r + 1 <= FONT_HEIGHT PROVE Holds(r + 1)
    OBVIOUS
  <2> DEFINE row == GlyphRow(glyph[r + 1], fg, bg)
  <2>1. /\ r \in Nat /\ r + 1 \in 1..FONT_HEIGHT /\ (r + 1) - 1 = r /\ Holds(r)
        /\ y + r \in Nat /\ y + r < HEIGHT /\ y + (r + 1) - 1 = y + r
    OBVIOUS
  <2>2. f[r + 1] = SetPixels(f[r], x, y + r, row)
    BY <2>1, <1>2 DEF AreRows
  <2>3. /\ row \in Seq(Colours) /\ Len(row) = FONT_WIDTH
        /\ \A c \in 1..FONT_WIDTH : row[c] = IF glyph[r + 1][c] THEN fg ELSE bg
    BY DEF GlyphRow
  <2> HIDE DEF row
  <2>4. f[r + 1] \in Buffers(Colours)
    BY <2>1, <2>2, <2>3, SetPixelsIsBuffer
  <2>5. ASSUME NEW px \in Nat, NEW py \in Nat, px < WIDTH, py < HEIGHT
        PROVE  f[r + 1][Offset(px, py)] = Shown(r + 1, px, py)
    <3>1. f[r + 1][Offset(px, py)] =
            IF py = y + r /\ x <= px /\ px < x + FONT_WIDTH
            THEN row[px - x + 1] ELSE f[r][Offset(px, py)]
      <4>1. PICK b \in Buffers(Colours) : b = f[r]
        BY <2>1
      <4>2. PICK q \in Nat : q = y + r /\ q < HEIGHT
        BY <2>1
      <4> HIDE DEF Shown, Holds, S
      <4>3. row \in Seq(Colours) /\ x + Len(row) < WIDTH
        BY <2>3
      <4>4. SetPixels(b, x, q, row)[Offset(px, py)] =
                IF py = q /\ x <= px /\ px < x + Len(row)
                THEN row[px - x + 1] ELSE b[Offset(px, py)]
        BY <4>2, <4>3, <2>5, SetPixelsDrawsItsRow, SMTT(60)
      <4> QED BY <4>1, <4>2, <4>4, <2>2, <2>3
    <3>2. f[r][Offset(px, py)] = Shown(r, px, py)
      BY <2>1, <2>5
    <3>3. CASE py = y + r /\ x <= px /\ px < x + FONT_WIDTH
      <4>1. px - x + 1 \in 1..FONT_WIDTH /\ py - y + 1 = r + 1 /\ y <= py /\ py < y + (r + 1)
        BY <3>3
      <4>2. row[px - x + 1] = IF glyph[py - y + 1][px - x + 1] THEN fg ELSE bg
        BY <4>1, <2>3
      <4> QED BY <3>1, <3>3, <4>1, <4>2
    <3>4. CASE ~(py = y + r /\ x <= px /\ px < x + FONT_WIDTH)
      <4>1. (x <= px /\ px < x + FONT_WIDTH /\ y <= py /\ py < y + (r + 1))
              <=> (x <= px /\ px < x + FONT_WIDTH /\ y <= py /\ py < y + r)
        BY <3>4
      <4>2. Shown(r + 1, px, py) = Shown(r, px, py)
        BY <4>1
      <4> QED BY <3>1, <3>2, <3>4, <4>2
    <3> QED BY <3>3, <3>4
  <2> HIDE DEF Shown
  <2> QED BY <2>4, <2>5
<1>5. Holds(FONT_HEIGHT)
  <2>1. S \in SUBSET Nat
    OBVIOUS
  <2> HIDE DEF S
  <2>2. S = Nat
    BY <1>3, <1>4, <2>1, Induction
  <2> HIDE DEF Holds
  <2> QED BY <2>2 DEF S
<1> QED BY <1>2, <1>5

\* A glyph that ends at the right edge, all rows of it: the screen stays as it is.
THEOREM LastColumnIsNotDrawn ==
    ASSUME WIDTH \in Nat, HEIGHT \in Nat, FONT_WIDTH \in Nat, FONT_HEIGHT \in Nat,
           NEW buf, NEW fg, NEW bg, NEW glyph \in [1..FONT_HEIGHT -> [1..FONT_WIDTH -> BOOLEAN]],
           NEW x \in Nat, NEW y \in Nat, x + FONT_WIDTH = WIDTH, y + FONT_HEIGHT <= HEIGHT
    PROVE  DrawChar(buf, x, y, glyph, fg, bg) = buf
<1>1. x + FONT_WIDTH <= WIDTH /\ y <= HEIGHT - FONT_HEIGHT
  OBVIOUS
<1>2. PICK f : /\ AreRows(f, buf, x, y, glyph, fg, bg)
               /\ DrawChar(buf, x, y, glyph, fg, bg) = f[FONT_HEIGHT]
  BY <1>1, DrawnRows
<1> DEFINE S == {r \in Nat : r <= FONT_HEIGHT => f[r] = buf}
<1>3. 0 \in S
  BY <1>2 DEF AreRows
<1>4. ASSUME NEW r \in S PROVE r + 1 \in S
  <2> SUFFICES ASSUME r + 1 <= FONT_HEIGHT PROVE f[r + 1] = buf
    OBVIOUS
  <2>1. r + 1 \in 1..FONT_HEIGHT /\ (r + 1) - 1 = r /\ y + (r + 1) - 1 \in Nat /\ f[r] = buf
    OBVIOUS
  <2>2. f[r + 1] = SetPixels(buf, x, y + (r + 1) - 1, GlyphRow(glyph[r + 1], fg, bg))
    BY <2>1, <1>2 DEF AreRows
  <2> QED BY <2>1, <2>2, RightEdgeIsNotDrawn
<1>5. S = Nat
  <2>1. S \in SUBSET Nat
    OBVIOUS
  <2> HIDE DEF S
  <2> QED BY <1>3, <1>4, <2>1, Induction
<1> QED BY <1>2, <1>5

-----------------------------------------------------------------------------
(* The cells of a console on the framebuffer *)

CONSTANTS ROWS, COLUMNS, TAB_SIZE

Con == INSTANCE ConsoleOps

\* The screen is a whole number of cells: 640 * 480 of 8 * 16, 80 columns and 30 rows.
WholeCells ==
    /\ ROWS \in Nat \ {0} /\ COLUMNS \in Nat \ {0}
    /\ FONT_WIDTH \in Nat \ {0} /\ FONT_HEIGHT \in Nat \ {0}
    /\ WIDTH = COLUMNS * FONT_WIDTH /\ HEIGHT = ROWS * FONT_HEIGHT

Bitmaps == [1..FONT_HEIGHT -> [1..FONT_WIDTH -> BOOLEAN]]
Cells(Chars) == [Con!RowIndex -> [Con!ColumnIndex -> [ch : Chars, inverse : BOOLEAN]]]
Consoles(Chars) ==
    [buffer : [Con!RowIndex -> [Con!ColumnIndex -> Chars]],
     x : Con!ColumnIndex, y : Con!RowIndex, visible : BOOLEAN, attached : BOOLEAN,
     cells : Cells(Chars)]

\* The colour of pixel (i, j) of a cell; an inverse glyph swaps the two.
Ink(glyph, font, i, j, fg, bg) ==
    IF font[glyph.ch][j + 1][i + 1]
    THEN IF glyph.inverse THEN bg ELSE fg
    ELSE IF glyph.inverse THEN fg ELSE bg

Paints(buf, cells, font, fg, bg) ==
    \A x \in Con!ColumnIndex, y \in Con!RowIndex, i, j \in Nat :
        i < FONT_WIDTH /\ j < FONT_HEIGHT =>
            buf[Offset(x * FONT_WIDTH + i, y * FONT_HEIGHT + j)] =
                Ink(cells[y][x], font, i, j, fg, bg)

\* Cells do not overlap, and there is room for all of them.
LEMMA InCell ==
    ASSUME NEW w \in Nat, NEW a \in Nat, NEW b \in Nat, NEW i \in Nat, i < w
    PROVE  /\ a * w \in Nat /\ b * w \in Nat
           /\ (b * w <= a * w + i /\ a * w + i < b * w + w) <=> a = b
<1>1. a * w \in Nat /\ b * w \in Nat
  BY NextRow
<1>2. CASE a = b
  BY <1>1, <1>2
<1>3. CASE a < b
  <2>1. (a + 1) * w \in Nat /\ (a + 1) * w <= b * w
    BY <1>3, RowsInOrder
  <2>2. (a + 1) * w = a * w + w
    BY NextRow
  <2> QED BY <1>1, <1>3, <2>1, <2>2
<1>4. CASE b < a
  <2>1. (b + 1) * w \in Nat /\ (b + 1) * w <= a * w
    BY <1>4, RowsInOrder
  <2>2. (b + 1) * w = b * w + w
    BY NextRow
  <2> QED BY <1>1, <1>4, <2>1, <2>2
<1> QED BY <1>2, <1>3, <1>4, <1>1

LEMMA CellHasRoom ==
    ASSUME NEW w \in Nat, NEW a \in Nat, NEW n \in Nat, a < n
    PROVE  a * w \in Nat /\ n * w \in Nat /\ a * w + w <= n * w
<1>1. (a + 1) * w \in Nat /\ n * w \in Nat /\ (a + 1) * w <= n * w
  BY RowsInOrder
<1>2. a * w \in Nat /\ (a + 1) * w = a * w + w
  BY NextRow
<1> QED BY <1>1, <1>2

LEMMA PixelOfCell ==
    ASSUME WholeCells, NEW x \in Con!ColumnIndex, NEW y \in Con!RowIndex,
           NEW i \in Nat, NEW j \in Nat, i < FONT_WIDTH, j < FONT_HEIGHT
    PROVE  /\ x * FONT_WIDTH \in Nat /\ y * FONT_HEIGHT \in Nat
           /\ x * FONT_WIDTH + i \in Nat /\ y * FONT_HEIGHT + j \in Nat
           /\ x * FONT_WIDTH + i < WIDTH /\ y * FONT_HEIGHT + j < HEIGHT
           /\ WIDTH \in Nat /\ HEIGHT \in Nat
<1>1. /\ x \in Nat /\ y \in Nat /\ x < COLUMNS /\ y < ROWS
      /\ FONT_WIDTH \in Nat /\ FONT_HEIGHT \in Nat /\ ROWS \in Nat /\ COLUMNS \in Nat
  BY DEF WholeCells, Con!ColumnIndex, Con!RowIndex
<1>2. x * FONT_WIDTH \in Nat /\ WIDTH \in Nat /\ x * FONT_WIDTH + FONT_WIDTH <= WIDTH
  BY <1>1, CellHasRoom DEF WholeCells
<1>3. y * FONT_HEIGHT \in Nat /\ HEIGHT \in Nat /\ y * FONT_HEIGHT + FONT_HEIGHT <= HEIGHT
  BY <1>1, CellHasRoom DEF WholeCells
<1> QED BY <1>1, <1>2, <1>3

\* draw_char, show_cursor and hide_cursor of the console give the screen the glyph
\* that DrawGlyph gives its cells, and in the last column neither of them does:
\* what ConsoleOps says of cells is what is on the screen, pixel by pixel.
THEOREM GlyphPaintsItsCell ==
    ASSUME WholeCells,
           NEW Colours, NEW buf \in Buffers(Colours), NEW fg \in Colours, NEW bg \in Colours,
           NEW Chars, NEW font \in [Chars -> Bitmaps],
           NEW con \in Consoles(Chars), con.attached,
           NEW ch \in Chars, NEW inverse \in BOOLEAN,
           Paints(buf, con.cells, font, fg, bg)
    PROVE  Paints(DrawChar(buf, con.x * FONT_WIDTH, con.y * FONT_HEIGHT, font[ch],
                           IF inverse THEN bg ELSE fg, IF inverse THEN fg ELSE bg),
                  Con!DrawGlyph(con, ch, inverse).cells, font, fg, bg)
<1> DEFINE f == IF inverse THEN bg ELSE fg
           b == IF inverse THEN fg ELSE bg
           X == con.x * FONT_WIDTH
           Y == con.y * FONT_HEIGHT
           new == DrawChar(buf, X, Y, font[ch], f, b)
           cells == Con!DrawGlyph(con, ch, inverse).cells
<1>1. /\ FONT_WIDTH \in Nat /\ FONT_HEIGHT \in Nat /\ FONT_WIDTH > 0 /\ FONT_HEIGHT > 0
      /\ ROWS \in Nat /\ COLUMNS \in Nat
  BY DEF WholeCells
<1>2. /\ con.x \in Con!ColumnIndex /\ con.y \in Con!RowIndex
      /\ con.x \in Nat /\ con.x < COLUMNS /\ con.y \in Nat /\ con.y < ROWS
      /\ con.cells \in Cells(Chars)
  BY <1>1 DEF Consoles, Con!ColumnIndex, Con!RowIndex
<1>3. X \in Nat /\ WIDTH \in Nat /\ X + FONT_WIDTH <= WIDTH
  BY <1>1, <1>2, CellHasRoom DEF WholeCells
<1>4. Y \in Nat /\ HEIGHT \in Nat /\ Y + FONT_HEIGHT <= HEIGHT
  BY <1>1, <1>2, CellHasRoom DEF WholeCells
<1>5. f \in Colours /\ b \in Colours /\ font[ch] \in [1..FONT_HEIGHT -> [1..FONT_WIDTH -> BOOLEAN]]
  BY DEF Bitmaps
<1>6. CASE con.x + 1 < COLUMNS
  <2>1. X + FONT_WIDTH < WIDTH
    <3>1. (con.x + 1) * FONT_WIDTH \in Nat /\ (con.x + 1) * FONT_WIDTH + FONT_WIDTH <= WIDTH
      BY <1>1, <1>2, <1>3, <1>6, CellHasRoom DEF WholeCells
    <3>2. (con.x + 1) * FONT_WIDTH = X + FONT_WIDTH
      BY <1>1, <1>2, NextRow
    <3> HIDE DEF X
    <3> QED BY <1>1, <1>3, <3>1, <3>2
  <2>2. cells = [con.cells EXCEPT ![con.y][con.x] = Con!Glyph(ch, inverse)]
    <3>1. Con!Drawable(con, con.x)
      BY <1>1, <1>2, <1>6 DEF Con!Drawable, Con!GlyphFits, Con!PixelsFit
    <3> QED BY <3>1 DEF Con!DrawGlyph, Consoles
  <2>3. \A px, py \in Nat :
          px < WIDTH /\ py < HEIGHT =>
              new[Offset(px, py)] =
                  IF X <= px /\ px < X + FONT_WIDTH /\ Y <= py /\ py < Y + FONT_HEIGHT
                  THEN IF font[ch][py - Y + 1][px - X + 1] THEN f ELSE b
                  ELSE buf[Offset(px, py)]
    <3>1. PICK g \in [1..FONT_HEIGHT -> [1..FONT_WIDTH -> BOOLEAN]] : g = font[ch]
      BY <1>5
    <3>2. PICK p \in Nat : p = X /\ p + FONT_WIDTH < WIDTH
      BY <1>3, <2>1
    <3>3. PICK q \in Nat : q = Y /\ q + FONT_HEIGHT <= HEIGHT
      BY <1>4
    <3> HIDE DEF f, b, X, Y
    <3>4. \A px, py \in Nat :
            px < WIDTH /\ py < HEIGHT =>
                DrawChar(buf, p, q, g, f, b)[Offset(px, py)] =
                    IF p <= px /\ px < p + FONT_WIDTH /\ q <= py /\ py < q + FONT_HEIGHT
                    THEN IF g[py - q + 1][px - p + 1] THEN f ELSE b
                    ELSE buf[Offset(px, py)]
      BY <1>1, <1>3, <1>4, <1>5, <3>2, <3>3, DrawCharDrawsGlyph, SMTT(60)
    <3> QED BY <3>1, <3>2, <3>3, <3>4
  <2> SUFFICES ASSUME NEW x \in Con!ColumnIndex, NEW y \in Con!RowIndex,
                      NEW i \in Nat, NEW j \in Nat, i < FONT_WIDTH, j < FONT_HEIGHT
               PROVE  new[Offset(x * FONT_WIDTH + i, y * FONT_HEIGHT + j)] =
                        Ink(cells[y][x], font, i, j, fg, bg)
    BY DEF Paints
  <2> DEFINE px == x * FONT_WIDTH + i
             py == y * FONT_HEIGHT + j
  <2>4. /\ x * FONT_WIDTH \in Nat /\ y * FONT_HEIGHT \in Nat
        /\ px \in Nat /\ py \in Nat /\ px < WIDTH /\ py < HEIGHT
    BY PixelOfCell
  <2>5. x \in Nat /\ y \in Nat
    BY <1>1 DEF Con!ColumnIndex, Con!RowIndex
  <2>6. /\ (X <= px /\ px < X + FONT_WIDTH) <=> x = con.x
        /\ (Y <= py /\ py < Y + FONT_HEIGHT) <=> y = con.y
    BY <1>1, <1>2, <2>5, InCell
  <2>7. cells[y][x] = IF x = con.x /\ y = con.y THEN Con!Glyph(ch, inverse) ELSE con.cells[y][x]
    BY <1>2, <2>2 DEF Cells
  <2>8. buf[Offset(px, py)] = Ink(con.cells[y][x], font, i, j, fg, bg)
    BY DEF Paints
  <2>9. CASE x = con.x /\ y = con.y
    <3>1. px - X = i /\ py - Y = j
      BY <2>4, <2>9
    <3>2. new[Offset(px, py)] = IF font[ch][j + 1][i + 1] THEN f ELSE b
      <4> HIDE DEF new, X, Y, px, py, f, b
      <4> QED BY <2>3, <2>4, <2>6, <2>9, <3>1
    <3>3. cells[y][x] = [ch |-> ch, inverse |-> inverse]
      BY <2>7, <2>9 DEF Con!Glyph
    <3> QED BY <3>2, <3>3 DEF Ink
  <2>10. CASE ~(x = con.x /\ y = con.y)
    <3>1. new[Offset(px, py)] = buf[Offset(px, py)]
      <4> HIDE DEF new, X, Y, px, py, f, b
      <4> QED BY <2>3, <2>4, <2>6, <2>10
    <3> QED BY <2>7, <2>8, <2>10, <3>1
  <2> QED BY <2>9, <2>10
<1>7. CASE ~(con.x + 1 < COLUMNS)
  <2>1. X + FONT_WIDTH = WIDTH
    <3>1. COLUMNS = con.x + 1
      BY <1>1, <1>2, <1>7
    <3>2. (con.x + 1) * FONT_WIDTH = X + FONT_WIDTH
      BY <1>1, <1>2, NextRow
    <3> QED BY <3>1, <3>2 DEF WholeCells
  <2>2. new = buf
    <3> HIDE DEF f, b, X, Y
    <3> QED BY <1>1, <1>3, <1>4, <1>5, <2>1, LastColumnIsNotDrawn
  <2>3. cells = con.cells
    BY <1>7 DEF Con!DrawGlyph, Con!Drawable, Con!PixelsFit
  <2> QED BY <2>2, <2>3
<1> QED BY <1>6, <1>7

\* The font's space has no bit set (its 16 bytes in VGA8.F16 are zero).
BlankSpace(font) ==
    \A i, j \in Nat :
        i < FONT_WIDTH /\ j < FONT_HEIGHT => font[Con!Space][j + 1][i + 1] = FALSE

\* scroll() of the console moves the cells up by one and the framebuffer by the
\* height of a glyph: the pixels are the cells', and the last row blank in both.
THEOREM ScrollPaintsTheCells ==
    ASSUME WholeCells,
           NEW Colours, NEW buf \in Buffers(Colours), NEW fg \in Colours, NEW bg \in Colours,
           NEW Chars, NEW font \in [Chars -> Bitmaps], BlankSpace(font),
           NEW con \in Consoles(Chars), con.attached,
           Paints(buf, con.cells, font, fg, bg)
    PROVE  Paints(Scroll(buf, FONT_HEIGHT, bg), Con!Scroll(con).cells, font, fg, bg)
<1> DEFINE new == Scroll(buf, FONT_HEIGHT, bg)
           cells == Con!Scroll(con).cells
<1>1. /\ FONT_WIDTH \in Nat /\ FONT_HEIGHT \in Nat /\ ROWS \in Nat /\ COLUMNS \in Nat
      /\ FONT_WIDTH > 0 /\ FONT_HEIGHT > 0 /\ ROWS > 0 /\ COLUMNS > 0
  BY DEF WholeCells
<1>2. cells = Con!ScrollUp(con.cells, Con!BlankCells[0])
  BY DEF Con!Scroll, Consoles
<1> SUFFICES ASSUME NEW x \in Con!ColumnIndex, NEW y \in Con!RowIndex,
                    NEW i \in Nat, NEW j \in Nat, i < FONT_WIDTH, j < FONT_HEIGHT
             PROVE  new[Offset(x * FONT_WIDTH + i, y * FONT_HEIGHT + j)] =
                      Ink(cells[y][x], font, i, j, fg, bg)
  BY DEF Paints
<1> DEFINE px == x * FONT_WIDTH + i
           py == y * FONT_HEIGHT + j
<1>3. /\ px \in Nat /\ py \in Nat /\ px < WIDTH /\ py < HEIGHT
      /\ WIDTH \in Nat /\ HEIGHT \in Nat /\ y * FONT_HEIGHT \in Nat
  BY PixelOfCell
<1>4. FONT_HEIGHT <= HEIGHT
  BY <1>1, CellHasRoom DEF WholeCells
<1>5. new[Offset(px, py)] =
        IF py + FONT_HEIGHT < HEIGHT THEN buf[Offset(px, py + FONT_HEIGHT)] ELSE bg
  <2> HIDE DEF px, py
  <2> QED BY <1>1, <1>3, <1>4, ScrollMovesRows
<1>6. y \in Nat /\ y < ROWS /\ x \in Con!ColumnIndex
  BY <1>1 DEF Con!RowIndex
<1>7. /\ (y + 1) * FONT_HEIGHT = y * FONT_HEIGHT + FONT_HEIGHT
      /\ y * FONT_HEIGHT \in Nat
  BY <1>1, <1>6, NextRow
<1>8. CASE y = ROWS - 1
  <2>1. HEIGHT = y * FONT_HEIGHT + FONT_HEIGHT
    <3>1. ROWS = y + 1
      BY <1>1, <1>8
    <3> QED BY <3>1, <1>7 DEF WholeCells
  <2>2. ~(py + FONT_HEIGHT < HEIGHT)
    BY <1>1, <1>3, <1>7, <2>1
  <2>3. cells[y][x] = [ch |-> Con!Space, inverse |-> FALSE]
    BY <1>1, <1>2, <1>8 DEF Con!ScrollUp, Con!BlankCells, Con!Glyph, Con!RowIndex
  <2>4. font[Con!Space][j + 1][i + 1] = FALSE
    BY DEF BlankSpace
  <2> QED BY <1>5, <2>2, <2>3, <2>4 DEF Ink
<1>9. CASE y # ROWS - 1
  <2>1. y + 1 \in Con!RowIndex
    BY <1>1, <1>6, <1>9 DEF Con!RowIndex
  <2>2. (y + 1) * FONT_HEIGHT + j = py + FONT_HEIGHT
    BY <1>1, <1>7
  <2>3. py + FONT_HEIGHT < HEIGHT
    BY <2>1, <2>2, PixelOfCell
  <2>4. buf[Offset(px, py + FONT_HEIGHT)] = Ink(con.cells[y + 1][x], font, i, j, fg, bg)
    BY <2>1, <2>2 DEF Paints
  <2>5. cells[y][x] = con.cells[y + 1][x]
    BY <1>2, <1>9 DEF Con!ScrollUp
  <2> QED BY <1>5, <2>3, <2>4, <2>5
<1> QED BY <1>8, <1>9

\* clear() fills the framebuffer with the background: every cell is blank.
THEOREM ClearPaintsTheCells ==
    ASSUME WholeCells,
           NEW Colours, NEW buf \in Buffers(Colours), NEW fg \in Colours, NEW bg \in Colours,
           NEW Chars, NEW font \in [Chars -> Bitmaps], BlankSpace(font),
           NEW con \in Consoles(Chars), con.attached
    PROVE  Paints(Fill(buf, bg), Con!Clear(con).cells, font, fg, bg)
<1>1. Con!Clear(con).cells = Con!BlankCells
  BY DEF Con!Clear, Consoles
<1> SUFFICES ASSUME NEW x \in Con!ColumnIndex, NEW y \in Con!RowIndex,
                    NEW i \in Nat, NEW j \in Nat, i < FONT_WIDTH, j < FONT_HEIGHT
             PROVE  Fill(buf, bg)[Offset(x * FONT_WIDTH + i, y * FONT_HEIGHT + j)] =
                      Ink(Con!BlankCells[y][x], font, i, j, fg, bg)
  BY <1>1 DEF Paints
<1> DEFINE px == x * FONT_WIDTH + i
           py == y * FONT_HEIGHT + j
<1>2. Offset(px, py) \in Nat /\ Offset(px, py) < SIZE
  <2>1. px \in Nat /\ py \in Nat /\ px < WIDTH /\ py < HEIGHT /\ WIDTH \in Nat /\ HEIGHT \in Nat
    BY PixelOfCell
  <2> HIDE DEF px, py
  <2> QED BY <2>1, PixelInBuffer
<1>3. Fill(buf, bg)[Offset(px, py)] = bg
  <2> HIDE DEF px, py
  <2> QED BY <1>2 DEF Fill, Buffers
<1>4. Con!BlankCells[y][x] = [ch |-> Con!Space, inverse |-> FALSE]
  BY DEF Con!BlankCells, Con!Glyph
<1>5. font[Con!Space][j + 1][i + 1] = FALSE
  BY DEF BlankSpace
<1> QED BY <1>3, <1>4, <1>5 DEF Ink
=============================================================================
