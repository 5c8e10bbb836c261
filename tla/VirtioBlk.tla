------------------------------ MODULE VirtioBlk ------------------------------
(***************************************************************************)
(* drivers/virtio: the block driver, its one virtqueue, and the device     *)
(* that serves the queue by DMA while the driver runs.                     *)
(*                                                                         *)
(* disk_op() holds BLK from end to end, so one call runs at a time.  The   *)
(* queue holds at most one request, always the chain at descriptor 0; the  *)
(* ring's slots all name it, and are left out.  Plain stores and loads are *)
(* steps of their own, whose order only the fence of virtq_kick and the    *)
(* constant InOrder restrain.                                              *)
(***************************************************************************)
EXTENDS Integers

CONSTANTS
    Capacity,  \* the number of sectors of the disk
    Data,      \* contents of a block
    Blank,     \* the block of zeros, one of Data
    INDEX,     \* 2^16: the queue's indices are modulo INDEX
    InOrder    \* TRUE: plain accesses take effect in program order

ASSUME CapacityAssumption == Capacity \in Nat \ {0}
ASSUME DataAssumption == Blank \in Data
ASSUME IndexAssumption == INDEX \in Nat /\ INDEX > 1
ASSUME InOrderAssumption == InOrder \in BOOLEAN

VARIABLES
    \* the driver
    setup,            \* where VirtioBlkState::new() is
    checked,          \* the build has overflow checks: the dev and test profiles
    pc,               \* where disk_op is
    call,             \* the arguments of the call in progress, or of the last
    stores,           \* plain stores of the call that have not taken effect
    answer,           \* the status and data the driver has loaded, or nothing
    result,           \* what the last call returned
    last_used_index,
    \* memory that the device reads and writes
    req,              \* VirtioBlkReq, and whether the data descriptor is writable
    avail_index,      \* VirtqAvail.index
    used_index,       \* VirtqUsed.index
    \* the device
    status,           \* the bits of DEVICE_STATUS
    page,             \* the device knows the queue's page
    notified,         \* a write to QueueNotify it has not looked after
    dev,              \* how far it is with a request
    job,              \* the header it read
    dev_avail,        \* requests it has taken
    disk

driver == <<setup, checked, pc, call, stores, answer, result, last_used_index>>
device == <<status, page, notified, dev, job, dev_avail, disk>>
vars == <<driver, req, avail_index, used_index, device>>

Kinds == {"Read", "Write"}
Sectors == 0..(Capacity - 1)
Indices == 0..(INDEX - 1)

\* The calls: any block up to the first one past the end, to read or to write.
Call == [kind : {"Read"}, sector : 0..Capacity, data : {Blank}] \cup
        [kind : {"Write"}, sector : 0..Capacity, data : Data]
NoAnswer == [status |-> "None", data |-> Blank]

TypeOK ==
    /\ setup \in {"probe", "reset", "ack", "driver", "features", "queue",
                  "driver_ok", "publish", "done", "panicked"}
    /\ checked \in BOOLEAN /\ page \in BOOLEAN /\ notified \in BOOLEAN
    /\ status \subseteq {"ACK", "DRIVER", "FEAT_OK", "DRIVER_OK"}
    /\ pc \in {"idle", "kick", "wait", "answer", "panicked"}
    /\ call \in Call
    /\ stores \subseteq {"request", "index"}
    /\ answer \in [status : {"None", "Ok", "Error"}, data : Data]
    /\ result \in {"None", "Ok", "NotInitialized", "SectorOutOfRange", "DeviceError"}
    /\ {last_used_index, avail_index, used_index, dev_avail} \subseteq Indices
    /\ req \in [kind : Kinds, sector : Sectors, data : Data,
                writable : BOOLEAN, status : {"Ok", "Error"}]
    /\ dev \in {"idle", "taken", "failed", "moved", "answered"}
    /\ job \in [kind : Kinds, sector : Sectors]
    /\ disk \in [Sectors -> Data]

Init ==
    /\ setup = "probe"
    /\ checked \in BOOLEAN
    /\ pc = "idle"
    /\ call = [kind |-> "Read", sector |-> 0, data |-> Blank]
    /\ stores = {}
    /\ answer = NoAnswer
    /\ result = "None"
    \* VirtioVirtq::zeroed() and the zeroed request, whose status reads as OK
    /\ last_used_index = 0 /\ avail_index = 0 /\ used_index = 0
    /\ req = [kind |-> "Read", sector |-> 0, data |-> Blank,
              writable |-> FALSE, status |-> "Ok"]
    /\ status = {} /\ page = FALSE /\ notified = FALSE
    /\ dev = "idle" /\ dev_avail = 0
    /\ job = [kind |-> "Read", sector |-> 0]
    /\ disk \in [Sectors -> Data]

Forward(i) == i + 1  \* Faulty: the index leaves the 16 bits

Succ(i) == (i + 1) % INDEX

-----------------------------------------------------------------------------
(* VirtioBlkState::new().  A device may look at the queue once it knows its  *)
(* page and DRIVER_OK is set; disk_op() only when BLK has the new state.     *)

Initialized == setup = "done"

SetupStep(from, to) ==
    /\ setup = from
    /\ setup' = to
    /\ UNCHANGED <<checked, pc, call, stores, answer, result, last_used_index,
                   req, avail_index, used_index, dev, job, dev_avail, disk>>

Probe ==
    /\ SetupStep("probe", "reset")
    /\ UNCHANGED <<status, page, notified>>

\* no virtio device there, none of version 1, or another kind
ProbeFails ==
    /\ SetupStep("probe", "panicked")
    /\ UNCHANGED <<status, page, notified>>

\* DEVICE_STATUS = 0: the device forgets all it was told
Reset ==
    /\ SetupStep("reset", "ack")
    /\ status' = {} /\ page' = FALSE /\ notified' = FALSE

\* virtio_reg_fetch_and_or32(DEVICE_STATUS, bit)
SetStatus(bit, from, to) ==
    /\ SetupStep(from, to)
    /\ status' = status \cup {bit}
    /\ UNCHANGED <<page, notified>>

\* virtq_init(): a zeroed queue, and its page told to the device
InitQueue ==
    /\ SetupStep("queue", "driver_ok")
    /\ page' = TRUE
    /\ UNCHANGED <<status, notified>>

\* a plain write, which takes the bits set before away
DriverOk ==
    /\ SetupStep("driver_ok", "publish")
    /\ status' = {"DRIVER_OK"}
    /\ UNCHANGED <<page, notified>>

\* the capacity is read and the state stored in BLK
Publish ==
    /\ SetupStep("publish", "done")
    /\ UNCHANGED <<status, page, notified>>

Setup ==
    \/ Probe
    \/ ProbeFails
    \/ Reset
    \/ SetStatus("ACK", "ack", "driver")
    \/ SetStatus("DRIVER", "driver", "features")
    \/ SetStatus("FEAT_OK", "features", "queue")
    \/ InitQueue
    \/ DriverOk
    \/ Publish

\* disk_op() up to its first store; data is the block to write
Begin(c) ==
    /\ pc = "idle"
    /\ call' = c
    /\ answer' = NoAnswer
    /\ IF Initialized /\ c.sector \in Sectors
       THEN pc' = "kick" /\ stores' = {"request", "index"} /\ result' = "None"
       ELSE /\ result' = IF Initialized THEN "SectorOutOfRange" ELSE "NotInitialized"
            /\ UNCHANGED <<pc, stores>>
    /\ UNCHANGED <<setup, checked, last_used_index, req, avail_index, used_index, device>>

\* the request and its descriptors; a read leaves the data of the last request
StoreRequest ==
    /\ "request" \in stores
    /\ req' = [req EXCEPT !.kind = call.kind,
                          !.sector = call.sector,
                          !.data = IF call.kind = "Write" THEN call.data ELSE @,
                          !.writable = call.kind = "Read"]
    /\ stores' = stores \ {"request"}
    /\ UNCHANGED <<setup, checked, pc, call, answer, result, last_used_index,
                   avail_index, used_index, device>>

StoreIndexFirst ==  \* Faulty: the index is not stored last
    /\ "index" \in stores
    /\ ~(checked /\ avail_index = INDEX - 1)
    /\ avail_index' = Succ(avail_index)
    /\ stores' = stores \ {"index"}
    /\ UNCHANGED <<setup, checked, pc, call, answer, result, last_used_index,
                   req, used_index, device>>

\* avail.index += 1
StoreIndex ==
    /\ "index" \in stores
    /\ InOrder => "request" \notin stores
    /\ ~(checked /\ avail_index = INDEX - 1)
    /\ avail_index' = Succ(avail_index)
    /\ stores' = stores \ {"index"}
    /\ UNCHANGED <<setup, checked, pc, call, answer, result, last_used_index,
                   req, used_index, device>>

\* With overflow checks the addition panics at the last index.
IndexOverflows ==
    /\ "index" \in stores
    /\ InOrder => "request" \notin stores
    /\ checked /\ avail_index = INDEX - 1
    /\ pc' = "panicked"
    /\ stores' = {}
    /\ UNCHANGED <<setup, checked, call, answer, result, last_used_index,
                   req, avail_index, used_index, device>>

NotifyUnfenced ==  \* Faulty: no fence before the device is notified
    /\ pc = "kick"
    /\ notified' = TRUE
    /\ last_used_index' = Succ(last_used_index)
    /\ pc' = "wait"
    /\ UNCHANGED <<setup, checked, call, stores, answer, result, req, avail_index,
                   used_index, status, page, dev, job, dev_avail, disk>>

\* The fence, the write to QueueNotify, and last_used_index += 1, which is in
\* step with the avail index and overflows with it.
Notify ==
    /\ pc = "kick"
    /\ stores = {}
    /\ notified' = TRUE
    /\ last_used_index' = Succ(last_used_index)
    /\ pc' = "wait"
    /\ UNCHANGED <<setup, checked, call, stores, answer, result, req, avail_index,
                   used_index, status, page, dev, job, dev_avail, disk>>

IsBehind == used_index < last_used_index  \* Faulty: indices compared by size

\* virtq_is_busy()
IsBusy == last_used_index # used_index

Completed ==
    /\ pc = "wait"
    /\ ~IsBusy
    /\ pc' = "answer"
    /\ UNCHANGED <<setup, checked, call, stores, answer, result, last_used_index,
                   req, avail_index, used_index, device>>

LoadAnswerAnyTime ==  \* Faulty: status and data may be those of the last request
    /\ pc \in {"wait", "answer"}
    /\ answer = NoAnswer
    /\ answer' = [status |-> req.status, data |-> req.data]
    /\ UNCHANGED <<setup, checked, pc, call, stores, result, last_used_index,
                   req, avail_index, used_index, device>>

\* the loads of status and data, which no fence keeps behind that of the index
LoadAnswer ==
    /\ pc = "answer" \/ (~InOrder /\ pc = "wait")
    /\ answer = NoAnswer
    /\ answer' = [status |-> req.status, data |-> req.data]
    /\ UNCHANGED <<setup, checked, pc, call, stores, result, last_used_index,
                   req, avail_index, used_index, device>>

Return ==
    /\ pc = "answer"
    /\ answer # NoAnswer
    /\ result' = IF answer.status = "Ok" THEN "Ok" ELSE "DeviceError"
    /\ pc' = "idle"
    /\ UNCHANGED <<setup, checked, call, stores, answer, last_used_index,
                   req, avail_index, used_index, device>>

-----------------------------------------------------------------------------
(* The device.  It must look at the queue after a notification, and may look *)
(* at any other time.                                                        *)

Take ==
    /\ "DRIVER_OK" \in status /\ page
    /\ dev = "idle"
    /\ dev_avail # avail_index
    /\ dev' = "taken"
    /\ job' = [kind |-> req.kind, sector |-> req.sector]
    /\ dev_avail' = Succ(dev_avail)
    /\ notified' = FALSE
    /\ UNCHANGED <<driver, req, avail_index, used_index, status, page, disk>>

FindNothing ==
    /\ notified
    /\ dev = "idle"
    /\ dev_avail = avail_index
    /\ notified' = FALSE
    /\ UNCHANGED <<driver, req, avail_index, used_index,
                   status, page, dev, job, dev_avail, disk>>

\* the block goes from the disk to a writable buffer, or from the buffer to the disk
Move ==
    /\ dev = "taken"
    /\ dev' = "moved"
    /\ \/ /\ job.kind = "Read" /\ req.writable
          /\ req' = [req EXCEPT !.data = disk[job.sector]]
          /\ UNCHANGED disk
       \/ /\ job.kind = "Write" /\ ~req.writable
          /\ disk' = [disk EXCEPT ![job.sector] = req.data]
          /\ UNCHANGED req
    /\ UNCHANGED <<driver, avail_index, used_index, status, page, notified, job, dev_avail>>

\* An error, after which the block may have been moved or not.
Fail ==
    /\ dev \in {"taken", "moved"}
    /\ dev' = "failed"
    /\ UNCHANGED <<driver, req, avail_index, used_index,
                   status, page, notified, job, dev_avail, disk>>

Answer ==
    /\ dev \in {"moved", "failed"}
    /\ dev' = "answered"
    /\ req' = [req EXCEPT !.status = IF dev = "failed" THEN "Error" ELSE "Ok"]
    /\ UNCHANGED <<driver, avail_index, used_index,
                   status, page, notified, job, dev_avail, disk>>

Use ==
    /\ dev = "answered"
    /\ dev' = "idle"
    /\ used_index' = Succ(used_index)
    /\ UNCHANGED <<driver, req, avail_index, status, page, notified, job, dev_avail, disk>>

-----------------------------------------------------------------------------
Driver ==
    \/ StoreRequest \/ StoreIndex \/ IndexOverflows \/ Notify
    \/ Completed \/ LoadAnswer \/ Return

Next ==
    \/ Setup
    \/ \E c \in Call : Begin(c)
    \/ StoreRequest
    \/ StoreIndex
    \/ IndexOverflows
    \/ Notify
    \/ Completed
    \/ LoadAnswer
    \/ Return
    \/ Take
    \/ FindNothing
    \/ Move
    \/ Fail
    \/ Answer
    \/ Use

\* The hart executes the call; the device handles notifications and finishes
\* what it has taken.  Nobody has to call.
Fairness ==
    /\ WF_vars(Driver)
    /\ WF_vars(notified /\ Take)
    /\ WF_vars(Move) /\ WF_vars(Answer) /\ WF_vars(Use)

Spec == Init /\ [][Next]_vars
FairSpec == Spec /\ Fairness

-----------------------------------------------------------------------------
\* A call that returned Ok did what it was asked: the block read is the disk's,
\* the block written is on the disk.  The driver never takes the last request's
\* status or data for this one's, on any lap of the indices.
AnswersTheCall ==
    pc = "idle" /\ result = "Ok" =>
        IF call.kind = "Read" THEN answer.data = disk[call.sector]
                              ELSE disk[call.sector] = call.data

\* The disk changes only while a write is under way, in the block it names and
\* to the data it brings: the device never sees a request before it is whole.
OnlyTheWrittenBlock ==
    [][\A s \in Sectors :
         disk'[s] # disk[s] =>
             /\ pc \in {"kick", "wait"}
             /\ call = [kind |-> "Write", sector |-> s, data |-> disk'[s]]]_vars

\* When no call is in progress the device is through with the queue, and driver
\* and device agree on every index: the next request finds the buffer free.
QuietBetweenCalls ==
    pc = "idle" =>
        /\ dev = "idle"
        /\ last_used_index = avail_index
        /\ used_index = avail_index
        /\ dev_avail = avail_index

\* Every call returns: no notification is lost, whenever the device looks at the
\* queue.  (With overflow checks one call panics after INDEX - 1 requests.)
CallReturns == ~checked /\ pc # "idle" ~> pc = "idle"
=============================================================================
