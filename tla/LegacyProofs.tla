---------------------------- MODULE LegacyProofs ----------------------------
(***************************************************************************)
(* Proofs about the legacy backend, for any documents, users, handlers and *)
(* faults: what it tells is so, however decisions interleave and fail; what *)
(* it answers is documented; and, one decision at a time, what it promises  *)
(* of a GPU adds up.                                                        *)
(***************************************************************************)
EXTENDS MCLegacy, FiniteSetTheorems, WellFoundedInduction, TLAPS

-----------------------------------------------------------------------------
(* What the error middleware makes of errors. *)

\* An operational error keeps its status; one that is thrown is none of those
\* that a success has.
LEMMA ErrorStatuses ==
  /\ \A code : ErrorStatus(AppError(code)) = code
  /\ \A name : ErrorStatus(Thrown(name)) \in {400, 401, 500}
<1>1. DOMAIN TransformedStatus =
        {"CastError", "DuplicateKey", "ValidationError", "JsonWebTokenError", "TokenExpiredError"}
  BY DEF TransformedStatus
<1>2. \A name \in DOMAIN TransformedStatus : TransformedStatus[name] \in {400, 401}
  BY DEF TransformedStatus
<1>3. \A code : ErrorStatus(AppError(code)) = code
  BY <1>1 DEF ErrorStatus, AppError
<1>4. \A name : ErrorStatus(Thrown(name)) \in {400, 401, 500}
  BY <1>2 DEF ErrorStatus, Thrown
<1> QED
  BY <1>3, <1>4

\* Of those it does not know, and outside development of those it does.
LEMMA ThrownStatuses ==
  /\ ErrorStatus(Thrown("MongoServerError")) = 500
  /\ ErrorStatus(Thrown("DocumentNotFoundError")) = 500
  /\ NodeEnv # "development" =>
       /\ ErrorStatus(Thrown("CastError")) = 400
       /\ ErrorStatus(Thrown("ValidationError")) = 400
       /\ ErrorStatus(Thrown("JsonWebTokenError")) = 401
       /\ ErrorStatus(Thrown("TokenExpiredError")) = 401
<1>1. DOMAIN TransformedStatus =
        {"CastError", "DuplicateKey", "ValidationError", "JsonWebTokenError", "TokenExpiredError"}
  BY DEF TransformedStatus
<1>2. /\ TransformedStatus["CastError"] = 400
      /\ TransformedStatus["ValidationError"] = 400
      /\ TransformedStatus["JsonWebTokenError"] = 401
      /\ TransformedStatus["TokenExpiredError"] = 401
  BY DEF TransformedStatus
<1> QED
  BY <1>1, <1>2 DEF ErrorStatus, Thrown

-----------------------------------------------------------------------------
(* Types, and what a handler knows that its statements established. *)

Deciding == {"approveRequest", "rejectRequest", "completeGpuRequest"}
Stages == {"load", "check", "loadGpu", "saveGpu", "saveRequest", "announce", "log"}

Frame == [pc : Stages \union {"idle", "answered"}, op : Offered \union {None}, by : Users \union {None},
          r : Requests \union {None}, g : Gpus \union {None},
          doc : RequestDoc \union {None, Unread}, gpu : ResourceDoc \union {None, Gone, Unread},
          status : Int]

Tables ==
  /\ requests \in [Requests -> RequestDoc \union {None}]
  /\ gpus \in [Gpus -> ResourceDoc \union {None, Gone}]
  /\ ever \in [Requests -> SUBSET Statuses]
  /\ started \in Nat /\ faults \in Nat
  /\ \A r \in Requests : requests[r] = None => ever[r] = {}

\* The status a request has had once op is saved, and the one it is decided from.
Saves(op) == IF op = "createGpuRequest" THEN "PENDING" ELSE NewStatus(op)
DecidedFrom(op) == IF op = "completeGpuRequest" THEN "APPROVED" ELSE "PENDING"

Known(f) == Saves(f.op) \in ever[f.r]
Held(f) == f.doc \in RequestDoc /\ f.doc.status = DecidedFrom(f.op) /\ f.op \in Deciding

\* What the code of a stage relies on.
Knows(f) ==
  /\ f.pc \in Stages => f.r \in Requests /\ f.by \in Users /\ f.op \in Deciding \union {"createGpuRequest"}
  /\ f.pc \in Stages /\ f.op = "approveRequest" => f.g \in Gpus
  /\ f.pc = "load" => f.op \in Deciding /\ (f.op # "approveRequest" => f.gpu = Unread)
  /\ f.pc = "check" => f.op = "approveRequest" /\ f.doc # Unread /\ f.gpu # Unread
  /\ f.pc \in {"loadGpu", "saveGpu", "saveRequest"} => Held(f)
  /\ f.pc = "loadGpu" => f.op = "completeGpuRequest" /\ f.g \in Gpus
  /\ f.pc = "saveGpu" => f.g \in Gpus /\ f.gpu \in ResourceDoc /\ f.op # "rejectRequest"
  /\ f.pc = "announce" => f.op \in {"approveRequest", "rejectRequest"} /\ Known(f)
  /\ f.pc = "log" => f.op # "rejectRequest" /\ Known(f)
  /\ f.pc \in Stages /\ f.doc \in RequestDoc => requests[f.r] # None
  /\ f.pc \in Stages /\ f.gpu \in ResourceDoc =>
       /\ f.g \in Gpus /\ gpus[f.g] # None
       /\ f.g \notin resized =>
            /\ Exists(gpus[f.g]) => gpus[f.g].vram = f.gpu.vram
            /\ f.gpu.availableVRAM \in 0 .. f.gpu.vram
  /\ f.pc = "answered" /\ f.status = 200 /\ f.r # None => Means(f.op) \in ever[f.r]

Told == \A e \in events \union logs : e[2] \in Requests /\ Means(e[1]) \in ever[e[2]]

Inv ==
  /\ Tables
  /\ frames \in [Handlers -> Frame]
  /\ \A h \in Handlers : Knows(frames[h])
  /\ Told
  /\ VramInRange

-----------------------------------------------------------------------------
(* Documents, frames and the tables under a step. *)

\* None of the marks for a document that is not there is a document.
LEMMA NoDocs ==
  \A x \in {None, Unread, Gone} : x \notin RequestDoc /\ x \notin ResourceDoc
BY ConstantsAssumption

\* A GPU that exists is a document.
LEMMA ExistingIsDoc ==
  ASSUME NEW doc \in ResourceDoc \union {None, Gone}
  PROVE  Exists(doc) <=> doc \in ResourceDoc
BY NoDocs DEF Exists

\* save() writes the paths of a request that have changed.
LEMMA RequestSaved ==
  ASSUME NEW s \in RequestDoc, NEW o \in RequestDoc, NEW n \in RequestDoc
  PROVE  /\ Saved(s, o, n) \in RequestDoc
         /\ Saved(s, o, n).status = IF n.status # o.status THEN n.status ELSE s.status
         /\ Saved(s, o, n).gpu = IF n.gpu # o.gpu THEN n.gpu ELSE s.gpu
         /\ Saved(s, o, n).vram = IF n.vram # o.vram THEN n.vram ELSE s.vram
         /\ Saved(s, o, n).start = IF n.start # o.start THEN n.start ELSE s.start
         /\ Saved(s, o, n).end = IF n.end # o.end THEN n.end ELSE s.end
<1>1. DOMAIN s = {"user", "gpu", "vram", "start", "end", "status", "faculty"}
  BY DEF RequestDoc
<1>2. Saved(s, o, n) = [user |-> IF n.user # o.user THEN n.user ELSE s.user,
                        gpu |-> IF n.gpu # o.gpu THEN n.gpu ELSE s.gpu,
                        vram |-> IF n.vram # o.vram THEN n.vram ELSE s.vram,
                        start |-> IF n.start # o.start THEN n.start ELSE s.start,
                        end |-> IF n.end # o.end THEN n.end ELSE s.end,
                        status |-> IF n.status # o.status THEN n.status ELSE s.status,
                        faculty |-> IF n.faculty # o.faculty THEN n.faculty ELSE s.faculty]
  BY <1>1 DEF Saved
<1> QED
  BY <1>2 DEF RequestDoc

\* ... and those of a GPU.
LEMMA ResourceSaved ==
  ASSUME NEW s \in ResourceDoc, NEW o \in ResourceDoc, NEW n \in ResourceDoc
  PROVE  /\ Saved(s, o, n) \in ResourceDoc
         /\ Saved(s, o, n).vram = IF n.vram # o.vram THEN n.vram ELSE s.vram
         /\ Saved(s, o, n).availableVRAM =
              IF n.availableVRAM # o.availableVRAM THEN n.availableVRAM ELSE s.availableVRAM
<1>1. DOMAIN s = {"vram", "availableVRAM", "status"}
  BY DEF ResourceDoc
<1>2. Saved(s, o, n) = [vram |-> IF n.vram # o.vram THEN n.vram ELSE s.vram,
                        availableVRAM |-> IF n.availableVRAM # o.availableVRAM
                                          THEN n.availableVRAM ELSE s.availableVRAM,
                        status |-> IF n.status # o.status THEN n.status ELSE s.status]
  BY <1>1 DEF Saved
<1> QED
  BY <1>2 DEF ResourceDoc

\* What a handler makes of a request keeps what was asked for.
LEMMA RequestMade ==
  ASSUME NEW f \in Frame, f.doc \in RequestDoc, f.by \in Users, f.op \in Deciding,
         f.op = "approveRequest" => f.g \in Gpus
  PROVE  /\ NewRequest(f) \in RequestDoc
         /\ NewRequest(f).status = NewStatus(f.op)
         /\ NewRequest(f).gpu = IF f.op = "approveRequest" THEN f.g ELSE f.doc.gpu
         /\ NewRequest(f).vram = f.doc.vram
         /\ NewRequest(f).start = f.doc.start
         /\ NewRequest(f).end = f.doc.end
<1>1. NewStatus(f.op) \in Statuses
  BY DEF NewStatus, Statuses
<1>2. CASE f.op = "approveRequest"
  BY <1>1, <1>2 DEF NewRequest, RequestDoc
<1>3. CASE f.op # "approveRequest"
  BY <1>1, <1>3 DEF NewRequest, RequestDoc
<1> QED
  BY <1>2, <1>3

\* What it makes of a GPU has the same VRAM in all, and a part of it left if it had.
LEMMA ResourceMade ==
  ASSUME NEW f \in Frame, f.gpu \in ResourceDoc, f.doc \in RequestDoc
  PROVE  /\ NewGpu(f) \in ResourceDoc
         /\ NewGpu(f).vram = f.gpu.vram
         /\ NewGpu(f).availableVRAM = IF f.op = "approveRequest" THEN Left(f.gpu, f.doc.vram)
                                      ELSE f.gpu.vram
         /\ f.gpu.availableVRAM \in 0 .. f.gpu.vram => NewGpu(f).availableVRAM \in 0 .. f.gpu.vram
<1>1. f.doc.vram \in Nat
  BY DEF RequestDoc
<1>2. /\ f.gpu.vram \in Nat /\ f.gpu.availableVRAM \in Int
  BY DEF ResourceDoc
<1>3. /\ Left(f.gpu, f.doc.vram) \in Nat
      /\ f.gpu.availableVRAM \in 0 .. f.gpu.vram => Left(f.gpu, f.doc.vram) \in 0 .. f.gpu.vram
  BY <1>1, <1>2 DEF Left
<1>4. CASE f.op = "approveRequest"
  <2> DEFINE st == IF Left(f.gpu, f.doc.vram) <= 0 THEN "Allocated" ELSE "Available"
             left == Left(f.gpu, f.doc.vram)
  <2>1. NewGpu(f) = [f.gpu EXCEPT !.availableVRAM = left, !.status = st]
    BY <1>4 DEF NewGpu, AllocatedGpu
  <2>2. st \in {"Available", "Allocated"} /\ left \in Int
    BY <1>3
  <2> HIDE DEF st, left
  <2>3. NewGpu(f) \in ResourceDoc /\ NewGpu(f).vram = f.gpu.vram /\ NewGpu(f).availableVRAM = left
    BY <2>1, <2>2 DEF ResourceDoc
  <2> QED
    BY <1>3, <1>4, <2>3 DEF left
<1>5. CASE f.op # "approveRequest"
  <2>1. NewGpu(f) = [f.gpu EXCEPT !.availableVRAM = f.gpu.vram, !.status = "Available"]
    BY <1>5 DEF NewGpu, ReleasedGpu
  <2>2. f.gpu.vram \in Int
    BY <1>2
  <2>3. /\ NewGpu(f) \in ResourceDoc /\ NewGpu(f).vram = f.gpu.vram
        /\ NewGpu(f).availableVRAM = f.gpu.vram
    BY <2>1, <2>2 DEF ResourceDoc
  <2> QED
    BY <1>2, <1>5, <2>3
<1> QED
  BY <1>4, <1>5

\* An empty slot is a frame that knows nothing.
LEMMA IdleFrame == Idle \in Frame /\ Knows(Idle)
<1>1. Idle \in Frame
  BY DEF Idle, Frame, Ok
<1>2. Idle.pc = "idle"
  BY DEF Idle
<1> QED
  BY <1>1, <1>2 DEF Knows, Stages

\* What stays so at every step: documents are not taken out of the collection,
\* deleted GPUs do not come back, no status that was is forgotten, and only an
\* administrator gives a GPU another VRAM.
Persist ==
  /\ \A r \in Requests : (requests[r] # None => requests'[r] # None) /\ ever[r] \subseteq ever'[r]
  /\ \A g \in Gpus : gpus[g] # None =>
       /\ gpus'[g] # None
       /\ Exists(gpus'[g]) => Exists(gpus[g]) /\ (g \notin resized' => gpus'[g].vram = gpus[g].vram)
  /\ resized \subseteq resized'

\* So what a handler knows stays so.
LEMMA KnowsKept ==
  ASSUME Tables, Persist, NEW f \in Frame, Knows(f)
  PROVE  Knows(f)'
<1>1. f.pc \in Stages => f.r \in Requests
  BY DEF Knows
<1>2. f.r # None => f.r \in Requests
  BY DEF Frame
<1>3. f.pc \in {"announce", "log"} => Known(f)'
  BY <1>1 DEF Knows, Known, Persist, Stages
<1>4. f.pc = "answered" /\ f.status = 200 /\ f.r # None => Means(f.op) \in ever'[f.r]
  BY <1>2 DEF Knows, Persist
<1>5. f.pc \in Stages /\ f.doc \in RequestDoc => requests'[f.r] # None
  BY <1>1 DEF Knows, Persist
<1>6. f.pc \in Stages /\ f.gpu \in ResourceDoc =>
       /\ f.g \in Gpus /\ gpus'[f.g] # None
       /\ f.g \notin resized' =>
            /\ Exists(gpus'[f.g]) => gpus'[f.g].vram = f.gpu.vram
            /\ f.gpu.availableVRAM \in 0 .. f.gpu.vram
  BY DEF Knows, Persist
<1> QED
  BY <1>3, <1>4, <1>5, <1>6 DEF Knows, Held

\* A step that moves one handler on.
LEMMA Moved ==
  ASSUME Inv, Tables', Told', VramInRange', Persist,
         NEW h \in Handlers, NEW f \in Frame, frames' = [frames EXCEPT ![h] = f], Knows(f)'
  PROVE  Inv'
<1>1. frames' \in [Handlers -> Frame]
  BY DEF Inv
<1>2. ASSUME NEW k \in Handlers PROVE Knows(frames[k])'
  <2>1. CASE k = h
    BY <2>1 DEF Inv
  <2>2. CASE k # h
    <3>1. PICK e \in Frame : e = frames[k]
      BY DEF Inv
    <3>2. Knows(e) /\ frames'[k] = e
      BY <2>2, <3>1 DEF Inv
    <3>3. Knows(e)'
      BY <3>2, KnowsKept DEF Inv
    <3> QED
      BY <3>2, <3>3
  <2> QED
    BY <2>1, <2>2
<1> QED
  BY <1>1, <1>2 DEF Inv

\* A step that leaves the collections alone keeps what is told of them.
LEMMA Quiet ==
  ASSUME Inv, UNCHANGED data, started' \in Nat, faults' \in Nat
  PROVE  Tables' /\ Told' /\ VramInRange' /\ Persist
<1>1. /\ requests' = requests /\ gpus' = gpus /\ logs' = logs /\ events' = events /\ ever' = ever
      /\ resized' = resized
  BY DEF data
<1>2. Tables'
  BY <1>1 DEF Inv, Tables
<1>3. Told'
  BY <1>1 DEF Inv, Told
<1>4. VramInRange'
  BY <1>1 DEF Inv, VramInRange, Exists
<1>5. Persist
  BY <1>1 DEF Persist
<1> QED
  BY <1>2, <1>3, <1>4, <1>5

-----------------------------------------------------------------------------
(* The steps. *)

\* A frame that has answered knows no more than what it told.
LEMMA AnsweredFrame ==
  ASSUME NEW f \in Frame, NEW status \in Int,
         status = 200 /\ f.r # None => Means(f.op) \in ever'[f.r],
         NEW a, a = [Idle EXCEPT !.pc = "answered", !.op = f.op, !.r = f.r, !.status = status]
  PROVE  a \in Frame /\ Knows(a)'
<1>1. a = [pc |-> "answered", op |-> f.op, by |-> None, r |-> f.r, g |-> None,
           doc |-> Unread, gpu |-> Unread, status |-> status]
  BY DEF Idle
<1>2. a \in Frame
  BY <1>1 DEF Frame
<1>3. a.pc = "answered" /\ a.op = f.op /\ a.r = f.r /\ a.status = status
  BY <1>1
<1>4. Knows(a)'
  BY <1>3 DEF Knows, Stages
<1> QED
  BY <1>2, <1>4

\* Answering keeps the invariant if the tables do and a success is true.
LEMMA AnswerInv ==
  ASSUME Inv, Tables', Told', VramInRange', Persist,
         NEW h \in Handlers, NEW status \in Int, Answer(h, status),
         status = 200 /\ frames[h].r # None => Means(frames[h].op) \in ever'[frames[h].r]
  PROVE  Inv'
<1>1. PICK f \in Frame : f = frames[h]
  BY DEF Inv
<1>2. PICK a : a = [Idle EXCEPT !.pc = "answered", !.op = f.op, !.r = f.r, !.status = status]
  OBVIOUS
<1>3. a \in Frame /\ Knows(a)'
  BY <1>1, <1>2, AnsweredFrame
<1>4. frames' = [frames EXCEPT ![h] = a]
  BY <1>1, <1>2 DEF Answer
<1> QED
  BY <1>3, <1>4, Moved

\* So does the answer to a request that the handler did not get to work on.
LEMMA DoneInv ==
  ASSUME Inv, Tables', Told', VramInRange', Persist,
         NEW h \in Handlers, NEW op \in Offered, NEW status \in Int, Done(h, op, status)
  PROVE  Inv'
<1>1. PICK a : a = [Idle EXCEPT !.pc = "answered", !.op = op, !.status = status]
  OBVIOUS
<1>2. a = [pc |-> "answered", op |-> op, by |-> None, r |-> None, g |-> None,
           doc |-> Unread, gpu |-> Unread, status |-> status]
  BY <1>1 DEF Idle
<1>3. a \in Frame
  BY <1>2 DEF Frame
<1>4. Knows(a)'
  BY <1>2 DEF Knows, Stages
<1>5. frames' = [frames EXCEPT ![h] = a]
  BY <1>1 DEF Done
<1> QED
  BY <1>3, <1>4, <1>5, Moved

\* And a request that begins.
LEMMA OpenInv ==
  ASSUME Inv, Tables', Told', VramInRange', Persist,
         NEW h \in Handlers, NEW op \in Offered, NEW by \in Users, NEW r \in Requests,
         NEW g \in Gpus \union {None}, NEW pc \in {"load", "log"}, Open(h, op, by, r, g, pc),
         pc = "load" => op \in Deciding,
         pc = "log" => op = "createGpuRequest" /\ "PENDING" \in ever'[r],
         op = "approveRequest" => g \in Gpus
  PROVE  Inv'
<1>1. PICK a : a = [Idle EXCEPT !.pc = pc, !.op = op, !.by = by, !.r = r, !.g = g]
  OBVIOUS
<1>2. a = [pc |-> pc, op |-> op, by |-> by, r |-> r, g |-> g,
           doc |-> Unread, gpu |-> Unread, status |-> Ok]
  BY <1>1 DEF Idle
<1>3. a \in Frame
  BY <1>2 DEF Frame, Stages, Ok
<1>4. a.doc \notin RequestDoc /\ a.gpu \notin ResourceDoc
  BY <1>2, NoDocs
<1>5. pc = "log" => Known(a)'
  BY <1>2 DEF Known, Saves
<1>6. Knows(a)'
  BY <1>2, <1>4, <1>5 DEF Knows, Stages, Deciding
<1>7. frames' = [frames EXCEPT ![h] = a]
  BY <1>1 DEF Open
<1> QED
  BY <1>3, <1>6, <1>7, Moved

\* The statuses that handlers answer are numbers, and no error is a success.
LEMMA Refusals ==
  /\ \A code \in Int : ErrorStatus(AppError(code)) \in Int
  /\ \A code \in {400, 401, 403, 404, 409} : ErrorStatus(AppError(code)) # 200
  /\ \A name : ErrorStatus(Thrown(name)) \in Int /\ ErrorStatus(Thrown(name)) # 200
  /\ \A query : ListStatus(query) \in Int
  /\ \A op, user, token, n : token \in Tokens => Admission(op, user, token, n) \in Int
<1>1. /\ \A code : ErrorStatus(AppError(code)) = code
      /\ \A name : ErrorStatus(Thrown(name)) \in {400, 401, 500}
  BY ErrorStatuses
<1>2. \A query : ListStatus(query) \in Int
  BY <1>1 DEF ListStatus
<1>3. ASSUME NEW op, NEW user, NEW token \in Tokens, NEW n
      PROVE  Admission(op, user, token, n) \in Int
  <2>1. CASE Limited(n)
    BY <2>1 DEF Admission, TooMany
  <2>2. CASE ~Limited(n) /\ RestrictTo(op) = Anyone
    BY <2>2 DEF Admission, Ok
  <2> DEFINE Restricted == ~Limited(n) /\ RestrictTo(op) # Anyone
  <2>3. ASSUME Restricted, token = "absent" PROVE Admission(op, user, token, n) = 401
    BY <1>1, <2>3 DEF Admission
  <2>4. ASSUME Restricted, token = "malformed" PROVE Admission(op, user, token, n) \in {400, 401, 500}
    BY <1>1, <2>4 DEF Admission
  <2>5. ASSUME Restricted, token = "expired" PROVE Admission(op, user, token, n) \in {400, 401, 500}
    BY <1>1, <2>5 DEF Admission
  <2>6. ASSUME Restricted, token = "valid" PROVE Admission(op, user, token, n) \in {Ok, 401, 403}
    BY <1>1, <2>6 DEF Admission
  <2> QED
    BY <1>3, <2>1, <2>2, <2>3, <2>4, <2>5, <2>6 DEF Tokens, Ok
<1> QED
  BY <1>1, <1>2, <1>3

\* A GPU that is written: what it has in all stays so, and what is left is part
\* of it, unless an administrator gave it other VRAM.
LEMMA GpuWritten ==
  ASSUME Inv, UNCHANGED <<requests, logs, events, ever>>, started' \in Nat, faults' \in Nat,
         NEW g \in Gpus, NEW new \in ResourceDoc \union {Gone}, gpus' = [gpus EXCEPT ![g] = new],
         resized \subseteq resized',
         new \in ResourceDoc /\ gpus[g] # None => Exists(gpus[g]),
         new \in ResourceDoc /\ g \notin resized' =>
           new.availableVRAM \in 0 .. new.vram /\ (gpus[g] # None => new.vram = gpus[g].vram)
  PROVE  Tables' /\ Told' /\ VramInRange' /\ Persist
<1>0. gpus \in [Gpus -> ResourceDoc \union {None, Gone}]
  BY DEF Inv, Tables
<1>1. gpus' \in [Gpus -> ResourceDoc \union {None, Gone}]
  BY <1>0
<1>2. Tables'
  BY <1>1 DEF Inv, Tables
<1>3. Told'
  BY DEF Inv, Told
<1>4. ASSUME NEW x \in Gpus \ resized', Exists(gpus'[x])
      PROVE  gpus'[x].availableVRAM \in 0 .. gpus'[x].vram
  <2>1. CASE x = g
    <3>1. gpus'[x] = new
      BY <1>0, <2>1
    <3>2. new \in ResourceDoc
      BY <1>4, <3>1, ExistingIsDoc
    <3> QED
      BY <1>4, <2>1, <3>1, <3>2
  <2>2. CASE x # g
    BY <1>0, <1>4, <2>2 DEF Inv, VramInRange
  <2> QED
    BY <2>1, <2>2
<1>5. VramInRange'
  BY <1>4 DEF VramInRange, Exists
<1>6. ASSUME NEW x \in Gpus, gpus[x] # None
      PROVE  /\ gpus'[x] # None
             /\ Exists(gpus'[x]) => /\ Exists(gpus[x])
                                    /\ x \notin resized' => gpus'[x].vram = gpus[x].vram
  <2>1. CASE x = g
    <3>1. gpus'[x] = new
      BY <1>0, <2>1
    <3>2. Exists(new) => new \in ResourceDoc
      BY ExistingIsDoc
    <3>3. new # None
      BY NoDocs, ConstantsAssumption
    <3> QED
      BY <1>6, <2>1, <3>1, <3>2, <3>3
  <2>2. CASE x # g
    BY <1>0, <1>6, <2>2
  <2> QED
    BY <2>1, <2>2
<1>7. Persist
  BY <1>6 DEF Persist
<1> QED
  BY <1>2, <1>3, <1>5, <1>7

\* Every step counts its requests and faults.
LEMMA Counted ==
  ASSUME Inv, NEW h, NEW op, Arrives(h, op)
  PROVE  started' \in Nat /\ faults' \in Nat /\ op \in Offered
BY DEF Inv, Tables, Arrives

\* A request that the middleware answers.
LEMMA RefuseStep == ASSUME Inv, NEW h \in Handlers, refuse(h) PROVE Inv'
<1>1. PICK op \in Offered, by \in Users \union {None}, token \in Presented :
        /\ Arrives(h, op)
        /\ Done(h, op, Admission(op, by, token, hits))
        /\ UNCHANGED data
  BY DEF refuse
<1>2. started' \in Nat /\ faults' \in Nat
  BY <1>1, Counted
<1>3. Tables' /\ Told' /\ VramInRange' /\ Persist
  BY <1>1, <1>2, Quiet
<1>4. Admission(op, by, token, hits) \in Int
  BY <1>1, Refusals, ConstantsAssumption
<1> QED
  BY <1>1, <1>3, <1>4, DoneInv

\* A GPU is created.
LEMMA CreateGpuStep == ASSUME Inv, NEW h \in Handlers, createGpuResource(h) PROVE Inv'
<1>1. PICK vram \in Sizes \union {0}, status \in {"Available"} \union Patched, g \in Gpus :
        /\ Arrives(h, "createGpuResource")
        /\ UNCHANGED <<requests, logs, events, ever, resized>>
        /\ IF vram = 0
           THEN Done(h, "createGpuResource", ErrorStatus(AppError(400))) /\ UNCHANGED gpus
           ELSE /\ gpus[g] = None
                /\ gpus' = [gpus EXCEPT ![g] = NewResource(vram, status)]
                /\ Done(h, "createGpuResource", 201)
  BY DEF createGpuResource, Admitted
<1>2. started' \in Nat /\ faults' \in Nat /\ "createGpuResource" \in Offered
  BY <1>1, Counted
<1>3. CASE vram = 0
  <2>1. Tables' /\ Told' /\ VramInRange' /\ Persist
    BY <1>1, <1>2, <1>3, Quiet DEF data
  <2> QED
    BY <1>1, <1>2, <1>3, <2>1, DoneInv, Refusals
<1>4. CASE vram # 0
  <2>1. PICK new : new = NewResource(vram, status)
    OBVIOUS
  <2>2. vram \in Nat
    BY ConstantsAssumption
  <2>3. new \in ResourceDoc /\ new.availableVRAM \in 0 .. new.vram
    BY <2>1, <2>2 DEF NewResource, ResourceDoc
  <2>4. gpus' = [gpus EXCEPT ![g] = new] /\ gpus[g] = None
    BY <1>1, <1>4, <2>1
  <2>5. Tables' /\ Told' /\ VramInRange' /\ Persist
    BY <1>1, <1>2, <2>3, <2>4, GpuWritten
  <2> QED
    BY <1>1, <1>2, <1>4, <2>5, DoneInv
<1> QED
  BY <1>3, <1>4

\* An operation on one GPU answers a number.
LEMMA ByIdStep ==
  ASSUME Inv, Tables', Told', VramInRange', Persist, NEW h \in Handlers, NEW op \in Offered,
         NEW g, NEW found \in Int, ById(h, op, g, found)
  PROVE  Inv'
<1>1. PICK status \in Int : Done(h, op, status)
  BY Refusals DEF ById
<1> QED
  BY <1>1, DoneInv

\* What a patch makes of a GPU.
LEMMA PatchWritten ==
  ASSUME NEW doc \in ResourceDoc, NEW body, IsPatch(body)
  PROVE  /\ Written(doc, body) \in ResourceDoc
         /\ DOMAIN body \subseteq {"status"} =>
              /\ Written(doc, body).vram = doc.vram
              /\ Written(doc, body).availableVRAM = doc.availableVRAM
<1>1. DOMAIN doc = {"vram", "availableVRAM", "status"}
  BY DEF ResourceDoc
<1>2. Written(doc, body) = [vram |-> IF "vram" \in DOMAIN body THEN body.vram ELSE doc.vram,
                            availableVRAM |-> IF "availableVRAM" \in DOMAIN body
                                              THEN body.availableVRAM ELSE doc.availableVRAM,
                            status |-> IF "status" \in DOMAIN body THEN body.status ELSE doc.status]
  BY <1>1 DEF Written
<1> QED
  BY <1>2 DEF ResourceDoc, IsPatch

\* A GPU is patched by an administrator.
LEMMA UpdateGpuStep == ASSUME Inv, NEW h \in Handlers, updateGpuResource(h) PROVE Inv'
<1>0. gpus \in [Gpus -> ResourceDoc \union {None, Gone}]
  BY DEF Inv, Tables
<1>1. PICK g \in Gpus \union Malformed, body \in Bodies, into \in SUBSET Gpus :
        /\ into = {x \in Gpus : x = g /\ Exists(gpus[x]) /\ Validated(body)}
        /\ Arrives(h, "updateGpuResource")
        /\ \E status \in Int : Done(h, "updateGpuResource", status)
        /\ gpus' = [x \in Gpus |-> IF x \in into THEN Written(gpus[x], body) ELSE gpus[x]]
        /\ resized' = IF DOMAIN body \subseteq {"status"} THEN resized ELSE resized \union into
        /\ UNCHANGED <<requests, logs, events, ever>>
  <2>1. PICK g \in Gpus \union Malformed, body \in Bodies, into \in SUBSET Gpus :
          /\ into = {x \in Gpus : x = g /\ Exists(gpus[x]) /\ Validated(body)}
          /\ Arrives(h, "updateGpuResource")
          /\ IF g \in Gpus /\ ~Validated(body)
             THEN Done(h, "updateGpuResource", ErrorStatus(Thrown("ValidationError")))
             ELSE ById(h, "updateGpuResource", g, 200)
          /\ gpus' = [x \in Gpus |-> IF x \in into THEN Written(gpus[x], body) ELSE gpus[x]]
          /\ resized' = IF DOMAIN body \subseteq {"status"} THEN resized ELSE resized \union into
          /\ UNCHANGED <<requests, logs, events, ever>>
    BY DEF updateGpuResource, Admitted
  <2>2. \E status \in Int : Done(h, "updateGpuResource", status)
    BY <2>1, Refusals DEF ById
  <2> QED
    BY <2>1, <2>2
<1>2. started' \in Nat /\ faults' \in Nat /\ "updateGpuResource" \in Offered
  BY <1>1, Counted
<1>3. Tables' /\ Told' /\ VramInRange' /\ Persist
  <2>1. CASE into = {}
    <3>1. gpus' = gpus /\ resized' = resized
      BY <1>0, <1>1, <2>1
    <3> QED
      BY <1>1, <1>2, <3>1, Quiet DEF data
  <2>2. CASE into # {}
    <3>1. g \in Gpus /\ Exists(gpus[g]) /\ into = {g}
      BY <1>1, <2>2
    <3>2. gpus[g] \in ResourceDoc
      BY <1>0, <3>1, ExistingIsDoc
    <3>3. PICK n : n = Written(gpus[g], body)
      OBVIOUS
    <3>4. /\ n \in ResourceDoc
          /\ DOMAIN body \subseteq {"status"} =>
               n.vram = gpus[g].vram /\ n.availableVRAM = gpus[g].availableVRAM
      BY <3>2, <3>3, PatchWritten, ConstantsAssumption
    <3>5. gpus' = [gpus EXCEPT ![g] = n]
      BY <1>0, <1>1, <3>1, <3>3
    <3>6. resized \subseteq resized'
      BY <1>1
    <3>7. ASSUME g \notin resized'
          PROVE  n.vram = gpus[g].vram /\ n.availableVRAM \in 0 .. n.vram
      <4>1. DOMAIN body \subseteq {"status"} /\ g \notin resized
        BY <1>1, <3>1, <3>6, <3>7
      <4> QED
        BY <3>1, <3>4, <4>1 DEF Inv, VramInRange
    <3> QED
      BY <1>1, <1>2, <3>1, <3>4, <3>5, <3>6, <3>7, GpuWritten
  <2> QED
    BY <2>1, <2>2
<1> QED
  BY <1>1, <1>2, <1>3, DoneInv

\* A GPU is deleted.
LEMMA DeleteGpuStep == ASSUME Inv, NEW h \in Handlers, deleteGpuResource(h) PROVE Inv'
<1>0. gpus \in [Gpus -> ResourceDoc \union {None, Gone}]
  BY DEF Inv, Tables
<1>1. PICK g \in Gpus \union Malformed :
        /\ Arrives(h, "deleteGpuResource")
        /\ ById(h, "deleteGpuResource", g, 204)
        /\ gpus' = [x \in Gpus |-> IF x = g /\ Exists(gpus[x]) THEN Gone ELSE gpus[x]]
        /\ UNCHANGED <<requests, logs, events, ever, resized>>
  BY DEF deleteGpuResource, Admitted
<1>2. started' \in Nat /\ faults' \in Nat /\ "deleteGpuResource" \in Offered
  BY <1>1, Counted
<1>3. Tables' /\ Told' /\ VramInRange' /\ Persist
  <2>1. CASE g \in Gpus /\ Exists(gpus[g])
    <3>1. gpus' = [gpus EXCEPT ![g] = Gone] /\ Gone \notin ResourceDoc
      BY <1>0, <1>1, <2>1, NoDocs
    <3> QED
      BY <1>1, <1>2, <2>1, <3>1, GpuWritten
  <2>2. CASE ~(g \in Gpus /\ Exists(gpus[g]))
    <3>1. gpus' = gpus
      BY <1>0, <1>1, <2>2
    <3> QED
      BY <1>1, <1>2, <3>1, Quiet DEF data
  <2> QED
    BY <2>1, <2>2
<1> QED
  BY <1>1, <1>2, <1>3, ByIdStep

\* A listing.
LEMMA ListStep == ASSUME Inv, NEW h \in Handlers, list(h) PROVE Inv'
<1>1. PICK op \in Listings \union Overviews, status \in Int :
        Arrives(h, op) /\ Done(h, op, status) /\ UNCHANGED data
  <2>1. PICK op \in Listings \union Overviews, query \in Queries :
          /\ Arrives(h, op) /\ Done(h, op, IF op \in Overviews THEN 200 ELSE ListStatus(query))
          /\ UNCHANGED data
    BY DEF list, Admitted
  <2>2. PICK status \in Int : status = IF op \in Overviews THEN 200 ELSE ListStatus(query)
    BY Refusals
  <2>3. Done(h, op, status)
    BY <2>1, <2>2
  <2> QED
    BY <2>1, <2>3
<1>2. started' \in Nat /\ faults' \in Nat /\ op \in Offered
  BY <1>1, Counted
<1>3. Tables' /\ Told' /\ VramInRange' /\ Persist
  BY <1>1, <1>2, Quiet
<1> QED
  BY <1>1, <1>2, <1>3, DoneInv, Refusals

\* A student asks for VRAM.
LEMMA CreateRequestStep == ASSUME Inv, NEW h \in Handlers, createGpuRequest(h) PROVE Inv'
<1>0. /\ requests \in [Requests -> RequestDoc \union {None}]
      /\ ever \in [Requests -> SUBSET Statuses]
      /\ \A q \in Requests : requests[q] = None => ever[q] = {}
  BY DEF Inv, Tables
<1>1. PICK by \in Users, d \in Details \union {None}, g \in Gpus \union {None} \union Malformed, r \in Requests :
        /\ Arrives(h, "createGpuRequest")
        /\ IF d = None \/ g \in Malformed \/ ~Ordered(d)
           THEN Done(h, "createGpuRequest", ErrorStatus(AppError(400))) /\ UNCHANGED data
           ELSE /\ requests[r] = None
                /\ requests' = [requests EXCEPT ![r] =
                                  [user |-> by, gpu |-> g, vram |-> d.vram, start |-> d.start,
                                   end |-> d.end, status |-> "PENDING", faculty |-> None]]
                /\ ever' = [ever EXCEPT ![r] = {"PENDING"}]
                /\ Open(h, "createGpuRequest", by, r, g, "log")
                /\ UNCHANGED <<gpus, logs, events, resized>>
  BY DEF createGpuRequest, Admitted
<1>2. started' \in Nat /\ faults' \in Nat /\ "createGpuRequest" \in Offered
  BY <1>1, Counted
<1>3. CASE d = None \/ g \in Malformed \/ ~Ordered(d)
  <2>1. Tables' /\ Told' /\ VramInRange' /\ Persist
    BY <1>1, <1>2, <1>3, Quiet
  <2> QED
    BY <1>1, <1>2, <1>3, <2>1, DoneInv, Refusals
<1>4. CASE ~(d = None \/ g \in Malformed \/ ~Ordered(d))
  <2>1. PICK doc : doc = [user |-> by, gpu |-> g, vram |-> d.vram, start |-> d.start,
                          end |-> d.end, status |-> "PENDING", faculty |-> None]
    OBVIOUS
  <2>2. d \in [start : Nat, end : Nat, vram : Nat] /\ g \in Gpus \union {None}
    BY <1>4, ConstantsAssumption
  <2>3. doc \in RequestDoc
    BY <2>1, <2>2 DEF RequestDoc, Statuses
  <2>4. /\ requests[r] = None
        /\ requests' = [requests EXCEPT ![r] = doc]
        /\ ever' = [ever EXCEPT ![r] = {"PENDING"}]
        /\ Open(h, "createGpuRequest", by, r, g, "log")
        /\ gpus' = gpus /\ logs' = logs /\ events' = events /\ resized' = resized
    BY <1>1, <1>4, <2>1
  <2>5. requests' \in [Requests -> RequestDoc \union {None}] /\ ever' \in [Requests -> SUBSET Statuses]
    BY <1>0, <2>3, <2>4 DEF Statuses
  <2>6. doc # None
    BY <2>3, NoDocs
  <2>7. \A q \in Requests : requests'[q] = None => ever'[q] = {}
    BY <1>0, <2>4, <2>6
  <2>8. \A q \in Requests : (requests[q] # None => requests'[q] # None) /\ ever[q] \subseteq ever'[q]
    BY <1>0, <2>4, <2>6
  <2>9. Tables' /\ Persist
    BY <1>2, <2>4, <2>5, <2>7, <2>8 DEF Inv, Tables, Persist
  <2>10. Told'
    BY <2>4, <2>8 DEF Inv, Told
  <2>11. VramInRange'
    BY <2>4 DEF Inv, VramInRange, Exists
  <2>12. "PENDING" \in ever'[r]
    BY <1>0, <2>4
  <2> QED
    BY <1>2, <2>2, <2>4, <2>9, <2>10, <2>11, <2>12, OpenInv
<1> QED
  BY <1>3, <1>4

\* A faculty member begins to decide.
LEMMA DecideStep ==
  ASSUME Inv, NEW h \in Handlers, approveRequest(h) \/ decideRequest(h)
  PROVE  Inv'
<1>1. PICK by \in Users, op \in Deciding, r \in Requests \union Malformed,
           g \in Gpus \union {None} \union Malformed :
        /\ Arrives(h, op)
        /\ UNCHANGED data
        /\ \/ \E status \in Int : Done(h, op, status)
           \/ /\ Open(h, op, by, r, g, "load") /\ r \notin Malformed /\ g \notin Malformed
              /\ op = "approveRequest" => g # None
  <2>1. CASE approveRequest(h)
    <3>1. PICK by \in Users, r \in Requests \union Malformed, g \in Gpus \union {None} \union Malformed :
            /\ Arrives(h, "approveRequest")
            /\ UNCHANGED data
            /\ IF g \in {None} \union Malformed
               THEN Done(h, "approveRequest", ErrorStatus(AppError(400)))
               ELSE IF r \in Malformed
               THEN Done(h, "approveRequest", ErrorStatus(Thrown("CastError")))
               ELSE Open(h, "approveRequest", by, r, g, "load")
      BY <2>1 DEF approveRequest, Admitted
    <3>2. ErrorStatus(AppError(400)) \in Int /\ ErrorStatus(Thrown("CastError")) \in Int
      BY Refusals
    <3>3. \/ \E status \in Int : Done(h, "approveRequest", status)
          \/ /\ Open(h, "approveRequest", by, r, g, "load") /\ r \notin Malformed /\ g \notin Malformed
             /\ g # None
      BY <3>1, <3>2
    <3>4. "approveRequest" \in Deciding
      BY DEF Deciding
    <3> QED
      BY <3>1, <3>3, <3>4
  <2>2. CASE decideRequest(h)
    <3>1. PICK by \in Users, op \in {"rejectRequest", "completeGpuRequest"}, r \in Requests \union Malformed :
            /\ Arrives(h, op)
            /\ UNCHANGED data
            /\ IF r \in Malformed
               THEN Done(h, op, ErrorStatus(Thrown("CastError")))
               ELSE Open(h, op, by, r, None, "load")
      BY <2>2 DEF decideRequest, Admitted
    <3>2. None \notin Malformed /\ ErrorStatus(Thrown("CastError")) \in Int
      BY ConstantsAssumption, Refusals
    <3>3. \/ \E status \in Int : Done(h, op, status)
          \/ Open(h, op, by, r, None, "load") /\ r \notin Malformed /\ None \notin Malformed
      BY <3>1, <3>2
    <3>4. op \in Deciding /\ op # "approveRequest"
      BY DEF Deciding
    <3> QED
      BY <3>1, <3>3, <3>4
  <2> QED
    BY <2>1, <2>2
<1>2. started' \in Nat /\ faults' \in Nat /\ op \in Offered
  BY <1>1, Counted
<1>3. Tables' /\ Told' /\ VramInRange' /\ Persist
  BY <1>1, <1>2, Quiet
<1>4. ASSUME NEW status \in Int, Done(h, op, status) PROVE Inv'
  BY <1>2, <1>3, <1>4, DoneInv
<1>5. CASE Open(h, op, by, r, g, "load") /\ r \notin Malformed /\ g \notin Malformed
           /\ (op = "approveRequest" => g # None)
  <2>1. r \in Requests /\ g \in Gpus \union {None} /\ (op = "approveRequest" => g \in Gpus)
    BY <1>5
  <2> QED
    BY <1>2, <1>3, <1>5, <2>1, OpenInv
<1> QED
  BY <1>1, <1>4, <1>5

\* approveRequest reads a half.
LEMMA LoadBothStep == ASSUME Inv, NEW h \in Handlers, LoadBoth(h) PROVE Inv'
<1>1. PICK f \in Frame : f = frames[h]
  BY DEF Inv
<1>2. /\ f.pc = "load" /\ f.op = "approveRequest" /\ Knows(f)
      /\ started' \in Nat /\ faults' \in Nat /\ UNCHANGED data
  BY <1>1 DEF LoadBoth, counts, Inv, Tables
<1>3. f.r \in Requests /\ f.g \in Gpus /\ f.by \in Users
  BY <1>2 DEF Knows, Stages
<1>4. Tables' /\ Told' /\ VramInRange' /\ Persist
  BY <1>2, Quiet
<1>5. /\ requests[f.r] \in RequestDoc \union {None}
      /\ gpus[f.g] \in ResourceDoc \union {None, Gone}
  BY <1>3 DEF Inv, Tables
<1>6. PICK e : /\ \/ /\ f.doc = Unread
                     /\ e = [f EXCEPT !.doc = requests[f.r], !.pc = IF f.gpu = Unread THEN "load" ELSE "check"]
                  \/ /\ f.gpu = Unread
                     /\ e = [f EXCEPT !.gpu = gpus[f.g], !.pc = IF f.doc = Unread THEN "load" ELSE "check"]
               /\ frames' = [frames EXCEPT ![h] = e]
  BY <1>1 DEF LoadBoth
<1>7. /\ e \in Frame /\ e.r = f.r /\ e.g = f.g /\ e.by = f.by /\ e.op = f.op
      /\ \/ e.pc = "load"
         \/ e.pc = "check" /\ e.doc # Unread /\ e.gpu # Unread
      /\ e.doc \in {f.doc, requests[f.r]} /\ e.gpu \in {f.gpu, gpus[f.g]}
  <2>1. requests[f.r] # Unread /\ gpus[f.g] # Unread
    BY <1>5, NoDocs, ConstantsAssumption
  <2>2. CASE f.doc = Unread /\ e = [f EXCEPT !.doc = requests[f.r], !.pc = IF f.gpu = Unread THEN "load" ELSE "check"]
    BY <1>5, <2>1, <2>2 DEF Frame, Stages
  <2>3. CASE f.gpu = Unread /\ e = [f EXCEPT !.gpu = gpus[f.g], !.pc = IF f.doc = Unread THEN "load" ELSE "check"]
    <3>1. PICK pc \in {"load", "check"} : pc = IF f.doc = Unread THEN "load" ELSE "check"
      OBVIOUS
    <3>2. PICK gpu \in ResourceDoc \union {None, Gone} : gpu = gpus[f.g]
      BY <1>5
    <3>3. e = [f EXCEPT !.gpu = gpu, !.pc = pc]
      BY <2>3, <3>1, <3>2
    <3>4. /\ e \in Frame /\ e.r = f.r /\ e.g = f.g /\ e.by = f.by /\ e.op = f.op
          /\ e.pc = pc /\ e.doc = f.doc /\ e.gpu = gpu
      BY <3>3 DEF Frame, Stages
    <3> QED
      BY <2>1, <3>1, <3>2, <3>4
  <2> QED
    BY <1>6, <2>2, <2>3
<1>8. e.doc \in RequestDoc => requests[e.r] # None
  BY <1>2, <1>7, NoDocs DEF Knows, Stages
<1>9. e.gpu \in ResourceDoc =>
        /\ gpus[e.g] # None
        /\ e.g \notin resized =>
             /\ Exists(gpus[e.g]) => gpus[e.g].vram = e.gpu.vram
             /\ e.gpu.availableVRAM \in 0 .. e.gpu.vram
  <2>1. CASE e.gpu = f.gpu
    BY <1>2, <1>7, <2>1 DEF Knows, Stages
  <2>2. CASE e.gpu = gpus[f.g]
    BY <1>3, <1>7, <2>2, ExistingIsDoc, NoDocs DEF Inv, VramInRange
  <2> QED
    BY <1>7, <2>1, <2>2
<1>10. Knows(e)
  BY <1>2, <1>3, <1>7, <1>8, <1>9 DEF Knows, Stages, Deciding
<1>11. Knows(e)'
  BY <1>4, <1>7, <1>10, KnowsKept DEF Inv
<1> QED
  BY <1>4, <1>6, <1>7, <1>11, Moved

\* A handler that goes on to its next stage.
LEMMA Advanced ==
  ASSUME NEW f \in Frame, NEW pc \in Stages, NEW e, e = [f EXCEPT !.pc = pc]
  PROVE  /\ e \in Frame /\ e.pc = pc /\ e.op = f.op /\ e.by = f.by /\ e.r = f.r /\ e.g = f.g
         /\ e.doc = f.doc /\ e.gpu = f.gpu
BY DEF Frame

LEMMA GotoInv ==
  ASSUME Inv, Tables', Told', VramInRange', Persist,
         NEW h \in Handlers, NEW f \in Frame, f = frames[h], NEW pc \in Stages, Goto(h, pc),
         NEW e, e = [f EXCEPT !.pc = pc], Knows(e)'
  PROVE  Inv'
<1>1. e \in Frame
  BY Advanced
<1>2. frames' = [frames EXCEPT ![h] = e]
  BY DEF Goto
<1> QED
  BY <1>1, <1>2, Moved

\* approveRequest decides.
LEMMA CheckStep == ASSUME Inv, NEW h \in Handlers, CheckApproval(h) PROVE Inv'
<1>1. PICK f \in Frame : f = frames[h]
  BY DEF Inv
<1>2. /\ f.pc = "check" /\ Knows(f)
      /\ started' \in Nat /\ faults' \in Nat /\ UNCHANGED data
  BY <1>1 DEF CheckApproval, counts, Inv, Tables
<1>3. /\ f.r \in Requests /\ f.by \in Users /\ f.g \in Gpus /\ f.op = "approveRequest"
      /\ f.doc # Unread /\ f.gpu # Unread
  BY <1>2 DEF Knows, Stages
<1>4. Tables' /\ Told' /\ VramInRange' /\ Persist
  BY <1>2, Quiet
<1>5. CASE \E status \in Int : status # 200 /\ Answer(h, status)
  BY <1>4, <1>5, AnswerInv
<1>6. CASE f.doc # None /\ f.doc.status = "PENDING" /\ Exists(f.gpu) /\ Goto(h, "saveGpu")
  <2>1. f.doc \in RequestDoc /\ f.gpu \in ResourceDoc
    BY <1>3, <1>6 DEF Frame, Exists
  <2>2. "saveGpu" \in Stages /\ Goto(h, "saveGpu")
    BY <1>6 DEF Stages
  <2>3. PICK e : e = [f EXCEPT !.pc = "saveGpu"]
    OBVIOUS
  <2>4. /\ e \in Frame /\ e.pc = "saveGpu" /\ e.op = f.op /\ e.by = f.by /\ e.r = f.r /\ e.g = f.g
        /\ e.doc = f.doc /\ e.gpu = f.gpu
    BY <2>2, <2>3, Advanced
  <2>5. Knows(e)
    BY <1>2, <1>3, <1>6, <2>1, <2>4 DEF Knows, Held, Stages, Deciding, DecidedFrom
  <2>6. Knows(e)'
    BY <1>4, <2>4, <2>5, KnowsKept DEF Inv
  <2> QED
    BY <1>1, <1>4, <2>2, <2>3, <2>6, GotoInv
<1>7. \/ \E status \in Int : status # 200 /\ Answer(h, status)
      \/ f.doc # None /\ f.doc.status = "PENDING" /\ Exists(f.gpu) /\ Goto(h, "saveGpu")
  <2>1. \A code \in {400, 404, 409} : ErrorStatus(AppError(code)) \in Int /\ ErrorStatus(AppError(code)) # 200
    BY Refusals
  <2>2. CASE f.doc = None
    BY <1>1, <2>1, <2>2 DEF CheckApproval
  <2>3. CASE f.doc # None /\ f.doc.status # "PENDING"
    BY <1>1, <2>1, <2>3 DEF CheckApproval
  <2>4. CASE f.doc # None /\ f.doc.status = "PENDING"
    BY <1>1, <2>1, <2>4 DEF CheckApproval
  <2> QED
    BY <2>2, <2>3, <2>4
<1> QED
  BY <1>5, <1>6, <1>7

\* A request is read to be rejected or completed.
LEMMA LoadRequestStep == ASSUME Inv, NEW h \in Handlers, LoadRequest(h) PROVE Inv'
<1>1. PICK f \in Frame : f = frames[h]
  BY DEF Inv
<1>2. /\ f.pc = "load" /\ f.op # "approveRequest" /\ Knows(f)
      /\ started' \in Nat /\ faults' \in Nat /\ UNCHANGED data
  BY <1>1 DEF LoadRequest, counts, Inv, Tables
<1>3. f.r \in Requests /\ f.by \in Users /\ f.op \in {"rejectRequest", "completeGpuRequest"} /\ f.gpu = Unread
  BY <1>2 DEF Knows, Stages, Deciding
<1>4. Tables' /\ Told' /\ VramInRange' /\ Persist
  BY <1>2, Quiet
<1>5. PICK doc \in RequestDoc \union {None} : doc = requests[f.r]
  BY <1>3 DEF Inv, Tables
<1>6. CASE \E status \in Int : status # 200 /\ Answer(h, status)
  BY <1>4, <1>6, AnswerInv
<1>7. CASE /\ doc # None /\ doc.status = Awaited(f.op)
           /\ frames' = [frames EXCEPT
                           ![h].doc = doc,
                           ![h].g = IF f.op = "completeGpuRequest" THEN doc.gpu ELSE None,
                           ![h].pc = IF f.op = "completeGpuRequest" /\ doc.gpu # None
                                     THEN "loadGpu" ELSE "saveRequest"]
  <2>1. PICK g, pc : /\ g = IF f.op = "completeGpuRequest" THEN doc.gpu ELSE None
                     /\ pc = IF f.op = "completeGpuRequest" /\ doc.gpu # None THEN "loadGpu" ELSE "saveRequest"
    OBVIOUS
  <2>2. PICK e : e = [f EXCEPT !.doc = doc, !.g = g, !.pc = pc]
    OBVIOUS
  <2>3. frames' = [frames EXCEPT ![h] = e]
    BY <1>1, <1>7, <2>1, <2>2
  <2>4. doc \in RequestDoc /\ doc.gpu \in Gpus \union {None}
    BY <1>7 DEF RequestDoc
  <2>5. g \in Gpus \union {None} /\ pc \in Stages
    BY <2>1, <2>4 DEF Stages
  <2>6. /\ e \in Frame /\ e.pc = pc /\ e.doc = doc /\ e.g = g
        /\ e.op = f.op /\ e.by = f.by /\ e.r = f.r /\ e.gpu = f.gpu
    BY <2>2, <2>4, <2>5 DEF Frame
  <2>7. e.gpu \notin ResourceDoc /\ requests[e.r] # None
    BY <1>3, <1>5, <1>7, <2>6, NoDocs
  <2>8. e.doc.status = DecidedFrom(e.op)
    BY <1>3, <1>7, <2>6 DEF DecidedFrom, Awaited
  <2>9. Knows(e)
    BY <1>3, <2>1, <2>4, <2>5, <2>6, <2>7, <2>8 DEF Knows, Held, Stages, Deciding
  <2> QED
    BY <1>4, <2>3, <2>6, <2>9, KnowsKept, Moved DEF Inv
<1>8. \/ \E status \in Int : status # 200 /\ Answer(h, status)
      \/ /\ doc # None /\ doc.status = Awaited(f.op)
         /\ frames' = [frames EXCEPT
                           ![h].doc = doc,
                           ![h].g = IF f.op = "completeGpuRequest" THEN doc.gpu ELSE None,
                           ![h].pc = IF f.op = "completeGpuRequest" /\ doc.gpu # None
                                     THEN "loadGpu" ELSE "saveRequest"]
  BY <1>1, <1>5, Refusals DEF LoadRequest
<1> QED
  BY <1>6, <1>7, <1>8

\* completeGpuRequest reads the GPU.
LEMMA LoadGpuStep == ASSUME Inv, NEW h \in Handlers, LoadGpu(h) PROVE Inv'
<1>1. PICK f \in Frame : f = frames[h]
  BY DEF Inv
<1>2. /\ f.pc = "loadGpu" /\ Knows(f)
      /\ started' \in Nat /\ faults' \in Nat /\ UNCHANGED data
  BY <1>1 DEF LoadGpu, counts, Inv, Tables
<1>3. f.r \in Requests /\ f.by \in Users /\ f.g \in Gpus /\ f.op = "completeGpuRequest" /\ Held(f)
  BY <1>2 DEF Knows, Stages
<1>4. Tables' /\ Told' /\ VramInRange' /\ Persist
  BY <1>2, Quiet
<1>5. PICK gpu \in ResourceDoc \union {None, Gone} : gpu = gpus[f.g]
  BY <1>3 DEF Inv, Tables
<1>6. PICK e : e = [f EXCEPT !.gpu = gpu, !.pc = IF Exists(gpu) THEN "saveGpu" ELSE "saveRequest"]
  OBVIOUS
<1>7. frames' = [frames EXCEPT ![h] = e]
  BY <1>1, <1>5, <1>6 DEF LoadGpu
<1>8. /\ e \in Frame /\ e.pc = (IF Exists(gpu) THEN "saveGpu" ELSE "saveRequest") /\ e.gpu = gpu
      /\ e.op = f.op /\ e.by = f.by /\ e.r = f.r /\ e.g = f.g /\ e.doc = f.doc
  BY <1>6 DEF Frame, Stages
<1>9. gpu \in ResourceDoc => /\ Exists(gpu) /\ gpu # None
                             /\ f.g \notin resized => gpu.availableVRAM \in 0 .. gpu.vram
  BY <1>3, <1>5, ExistingIsDoc, NoDocs DEF Inv, VramInRange
<1>10. Exists(gpu) => gpu \in ResourceDoc
  BY ExistingIsDoc
<1>11. requests[f.r] # None
  BY <1>2, <1>3 DEF Knows, Held, Stages
<1>12. Held(e)
  BY <1>3, <1>8 DEF Held
<1>13. Knows(e)
  BY <1>3, <1>5, <1>8, <1>9, <1>10, <1>11, <1>12 DEF Knows, Stages, Deciding
<1> QED
  BY <1>4, <1>7, <1>8, <1>13, KnowsKept, Moved DEF Inv

\* document.save() of the GPU.
LEMMA SaveGpuStep == ASSUME Inv, NEW h \in Handlers, SaveGpu(h) PROVE Inv'
<1>1. PICK f \in Frame : f = frames[h]
  BY DEF Inv
<1>2. /\ f.pc = "saveGpu" /\ Knows(f) /\ started' \in Nat /\ faults' \in Nat
      /\ UNCHANGED <<requests, logs, events, ever, resized>>
  BY <1>1 DEF SaveGpu, counts, Inv, Tables
<1>3. /\ f.r \in Requests /\ f.by \in Users /\ f.g \in Gpus /\ f.op \in Deciding /\ f.op # "rejectRequest"
      /\ Held(f) /\ f.gpu \in ResourceDoc
  BY <1>2 DEF Knows, Stages, Held
<1>4. f.g \notin resized => /\ Exists(gpus[f.g]) => gpus[f.g].vram = f.gpu.vram
                            /\ f.gpu.availableVRAM \in 0 .. f.gpu.vram
  BY <1>2, <1>3 DEF Knows, Stages
<1>5. PICK s \in ResourceDoc \union {None, Gone} : s = gpus[f.g]
  BY <1>3 DEF Inv, Tables
<1>6. CASE Exists(s)
  <2>1. /\ s \in ResourceDoc
        /\ f.g \notin resized => s.vram = f.gpu.vram /\ s.availableVRAM \in 0 .. s.vram
    BY <1>3, <1>4, <1>5, <1>6, ExistingIsDoc DEF Inv, VramInRange
  <2>2. PICK n : n = NewGpu(f)
    OBVIOUS
  <2>3. /\ n \in ResourceDoc /\ n.vram = f.gpu.vram
        /\ f.g \notin resized => n.availableVRAM \in 0 .. f.gpu.vram
    BY <1>3, <1>4, <2>2, ResourceMade DEF Held
  <2>4. PICK new : new = Saved(s, f.gpu, n)
    OBVIOUS
  <2>5. /\ new \in ResourceDoc
        /\ f.g \notin resized => new.vram = s.vram /\ new.availableVRAM \in 0 .. new.vram
    BY <1>3, <2>1, <2>3, <2>4, ResourceSaved
  <2>6. gpus' = [gpus EXCEPT ![f.g] = new] /\ Goto(h, "saveRequest")
    BY <1>1, <1>5, <1>6, <2>2, <2>4 DEF SaveGpu
  <2>7. Tables' /\ Told' /\ VramInRange' /\ Persist
    BY <1>2, <1>3, <1>5, <1>6, <2>5, <2>6, GpuWritten
  <2>8. "saveRequest" \in Stages
    BY DEF Stages
  <2>9. PICK e : e = [f EXCEPT !.pc = "saveRequest"]
    OBVIOUS
  <2>10. /\ e \in Frame /\ e.pc = "saveRequest" /\ e.op = f.op /\ e.by = f.by /\ e.r = f.r /\ e.g = f.g
         /\ e.doc = f.doc /\ e.gpu = f.gpu
    BY <2>8, <2>9, Advanced
  <2>11. Knows(e)
    BY <1>2, <1>3, <2>10 DEF Knows, Held, Stages, Deciding
  <2>12. Knows(e)'
    BY <2>7, <2>10, <2>11, KnowsKept DEF Inv
  <2> QED
    BY <1>1, <2>6, <2>7, <2>8, <2>9, <2>12, GotoInv
<1>7. CASE ~Exists(s)
  <2>1. Answer(h, ErrorStatus(Thrown("DocumentNotFoundError"))) /\ gpus' = gpus
    BY <1>1, <1>5, <1>7 DEF SaveGpu
  <2>2. Tables' /\ Told' /\ VramInRange' /\ Persist
    BY <1>2, <2>1, Quiet DEF data
  <2> QED
    BY <2>1, <2>2, AnswerInv, Refusals
<1> QED
  BY <1>6, <1>7

\* document.save() of the request.
LEMMA SaveRequestStep == ASSUME Inv, NEW h \in Handlers, SaveRequest(h) PROVE Inv'
<1>0. /\ requests \in [Requests -> RequestDoc \union {None}]
      /\ ever \in [Requests -> SUBSET Statuses]
      /\ \A q \in Requests : requests[q] = None => ever[q] = {}
  BY DEF Inv, Tables
<1>1. PICK f \in Frame : f = frames[h]
  BY DEF Inv
<1>2. /\ f.pc = "saveRequest" /\ Knows(f) /\ started' \in Nat /\ faults' \in Nat
      /\ UNCHANGED <<gpus, logs, events, resized>>
  BY <1>1 DEF SaveRequest, counts, Inv, Tables
<1>3. /\ f.r \in Requests /\ f.by \in Users /\ f.op \in Deciding /\ Held(f)
      /\ f.op = "approveRequest" => f.g \in Gpus
  BY <1>2 DEF Knows, Stages, Held
<1>4. PICK s \in RequestDoc \union {None} : s = requests[f.r]
  BY <1>0, <1>3
<1>5. s \in RequestDoc /\ f.doc \in RequestDoc
  BY <1>2, <1>3, <1>4 DEF Knows, Stages, Held
<1>6. PICK n : n = NewRequest(f)
  OBVIOUS
<1>7. n \in RequestDoc /\ n.status = NewStatus(f.op)
  BY <1>3, <1>5, <1>6, RequestMade
<1>8. PICK new : new = Saved(s, f.doc, n)
  OBVIOUS
<1>9. f.doc.status # NewStatus(f.op) /\ Saves(f.op) = NewStatus(f.op)
  BY <1>3 DEF Held, DecidedFrom, NewStatus, Saves, Deciding
<1>10. new \in RequestDoc /\ new.status = Saves(f.op)
  BY <1>5, <1>7, <1>8, <1>9, RequestSaved
<1>11. /\ requests' = [requests EXCEPT ![f.r] = new]
       /\ ever' = [ever EXCEPT ![f.r] = @ \union {requests'[f.r].status}]
       /\ Goto(h, IF f.op = "completeGpuRequest" THEN "log" ELSE "announce")
  BY <1>1, <1>4, <1>6, <1>8 DEF SaveRequest
<1>12. ever' = [ever EXCEPT ![f.r] = @ \union {new.status}]
  BY <1>0, <1>3, <1>11
<1>13. new.status \in Statuses /\ new # None
  BY <1>10, NoDocs DEF RequestDoc
<1>14. requests' \in [Requests -> RequestDoc \union {None}] /\ ever' \in [Requests -> SUBSET Statuses]
  <2>1. requests' \in [Requests -> RequestDoc \union {None}]
    BY <1>0, <1>10, <1>11
  <2>2. ever[f.r] \union {new.status} \in SUBSET Statuses
    BY <1>0, <1>3, <1>13
  <2>3. ever' \in [Requests -> SUBSET Statuses]
    BY <1>0, <1>12, <2>2
  <2> QED
    BY <2>1, <2>3
<1>15. \A q \in Requests : requests'[q] = None => ever'[q] = {}
  BY <1>0, <1>11, <1>12, <1>13
<1>16. \A q \in Requests : (requests[q] # None => requests'[q] # None) /\ ever[q] \subseteq ever'[q]
  BY <1>0, <1>11, <1>12, <1>13
<1>17. Tables' /\ Persist
  BY <1>2, <1>14, <1>15, <1>16 DEF Inv, Tables, Persist
<1>18. Told'
  BY <1>2, <1>16 DEF Inv, Told
<1>19. VramInRange'
  BY <1>2 DEF Inv, VramInRange, Exists
<1>20. Saves(f.op) \in ever'[f.r]
  BY <1>0, <1>3, <1>10, <1>12
<1>21. PICK pc \in Stages : pc = IF f.op = "completeGpuRequest" THEN "log" ELSE "announce"
  BY DEF Stages
<1>22. PICK e : e = [f EXCEPT !.pc = pc]
  OBVIOUS
<1>23. /\ e \in Frame /\ e.pc = pc /\ e.op = f.op /\ e.by = f.by /\ e.r = f.r /\ e.g = f.g
       /\ e.doc = f.doc /\ e.gpu = f.gpu
  BY <1>21, <1>22, Advanced
<1>24. Known(e)'
  BY <1>20, <1>23 DEF Known
<1>25. /\ requests'[f.r] # None
       /\ f.gpu \in ResourceDoc =>
            /\ f.g \in Gpus /\ gpus'[f.g] # None
            /\ f.g \notin resized' =>
                 /\ Exists(gpus'[f.g]) => gpus'[f.g].vram = f.gpu.vram
                 /\ f.gpu.availableVRAM \in 0 .. f.gpu.vram
  BY <1>2, <1>3, <1>4, <1>5, <1>16, NoDocs DEF Knows, Stages
<1>26. Knows(e)'
  BY <1>3, <1>21, <1>23, <1>24, <1>25 DEF Knows, Stages, Deciding
<1> QED
  BY <1>1, <1>11, <1>17, <1>18, <1>19, <1>21, <1>22, <1>26, GotoInv

\* An entry or an event is true when the handler knows that its decision was saved.
LEMMA ToldMore ==
  ASSUME Inv, NEW r \in Requests, NEW event, NEW entry,
         Means(event) \in ever[r], Means(entry) \in ever[r],
         events' \in {events, events \union {<<event, r>>}}, createLog(entry, r),
         UNCHANGED <<requests, gpus, ever, resized>>, started' \in Nat, faults' \in Nat
  PROVE  Tables' /\ Told' /\ VramInRange' /\ Persist
<1>1. ASSUME NEW e \in events' \union logs' PROVE e[2] \in Requests /\ Means(e[1]) \in ever[e[2]]
  BY <1>1 DEF createLog, Inv, Told
<1>2. Told'
  BY <1>1 DEF Told
<1>3. Tables'
  BY DEF Inv, Tables
<1>4. VramInRange'
  BY DEF Inv, VramInRange, Exists
<1>5. Persist
  BY DEF Persist
<1> QED
  BY <1>2, <1>3, <1>4, <1>5

\* What the names of operations, events and entries stand for.
LEMMA Meanings ==
  /\ Saves("createGpuRequest") = "PENDING" /\ Saves("approveRequest") = "APPROVED"
  /\ Saves("rejectRequest") = "REJECTED" /\ Saves("completeGpuRequest") = "COMPLETED"
  /\ Means("REQUEST_CREATED") = "PENDING"
  /\ \A name \in {"request:approved", "REQUEST_APPROVED", "GPU_ALLOCATED", "approveRequest"} :
       Means(name) = "APPROVED"
  /\ \A name \in {"request:rejected", "REQUEST_REJECTED", "rejectRequest"} : Means(name) = "REJECTED"
  /\ \A name \in {"COMPLETE_GPU_REQUEST", "completeGpuRequest"} : Means(name) = "COMPLETED"
BY DEF Saves, NewStatus, Means

\* The student is told.
LEMMA AnnounceStep == ASSUME Inv, NEW h \in Handlers, Announce(h) PROVE Inv'
<1>1. PICK f \in Frame : f = frames[h]
  BY DEF Inv
<1>2. /\ f.pc = "announce" /\ Knows(f) /\ started' \in Nat /\ faults' \in Nat
      /\ UNCHANGED <<requests, gpus, ever, resized>>
  BY <1>1 DEF Announce, counts, Inv, Tables
<1>3. /\ f.r \in Requests /\ f.by \in Users /\ f.op \in {"approveRequest", "rejectRequest"} /\ Known(f)
      /\ f.op = "approveRequest" => f.g \in Gpus
  BY <1>2 DEF Knows, Stages
<1>4. CASE f.op = "approveRequest"
  <2>1. /\ events' = events \union {<<"request:approved", f.r>>}
        /\ createLog("REQUEST_APPROVED", f.r) /\ Goto(h, "log")
    BY <1>1, <1>4 DEF Announce
  <2>2. Means("request:approved") \in ever[f.r] /\ Means("REQUEST_APPROVED") \in ever[f.r]
    BY <1>3, <1>4, Meanings DEF Known
  <2>3. Tables' /\ Told' /\ VramInRange' /\ Persist
    BY <1>2, <1>3, <2>1, <2>2, ToldMore
  <2>4. "log" \in Stages
    BY DEF Stages
  <2>5. PICK e : e = [f EXCEPT !.pc = "log"]
    OBVIOUS
  <2>6. /\ e \in Frame /\ e.pc = "log" /\ e.op = f.op /\ e.by = f.by /\ e.r = f.r /\ e.g = f.g
        /\ e.doc = f.doc /\ e.gpu = f.gpu
    BY <2>4, <2>5, Advanced
  <2>7. Knows(e)
    BY <1>2, <1>3, <1>4, <2>6 DEF Knows, Known, Stages, Deciding
  <2>8. Knows(e)'
    BY <2>3, <2>6, <2>7, KnowsKept DEF Inv
  <2> QED
    BY <1>1, <2>1, <2>3, <2>4, <2>5, <2>8, GotoInv
<1>5. CASE f.op = "rejectRequest"
  <2>1. /\ events' = events \union {<<"request:rejected", f.r>>}
        /\ createLog("REQUEST_REJECTED", f.r) /\ Answer(h, 200)
    BY <1>1, <1>5 DEF Announce
  <2>2. /\ Means("request:rejected") \in ever[f.r] /\ Means("REQUEST_REJECTED") \in ever[f.r]
        /\ Means(f.op) \in ever[f.r]
    BY <1>3, <1>5, Meanings DEF Known
  <2>3. Tables' /\ Told' /\ VramInRange' /\ Persist
    BY <1>2, <1>3, <2>1, <2>2, ToldMore
  <2>4. Means(frames[h].op) \in ever'[frames[h].r]
    BY <1>1, <1>2, <2>2
  <2> QED
    BY <2>1, <2>3, <2>4, AnswerInv
<1> QED
  BY <1>3, <1>4, <1>5

\* The last entry of the audit trail.
LEMMA LogStep == ASSUME Inv, NEW h \in Handlers, Log(h) PROVE Inv'
<1>1. PICK f \in Frame : f = frames[h]
  BY DEF Inv
<1>2. /\ f.pc = "log" /\ Knows(f) /\ started' \in Nat /\ faults' \in Nat
      /\ UNCHANGED <<requests, gpus, events, ever, resized>>
  BY <1>1 DEF Log, counts, Inv, Tables
<1>3. f.r \in Requests /\ f.op \in {"createGpuRequest", "approveRequest", "completeGpuRequest"} /\ Known(f)
  BY <1>2 DEF Knows, Stages, Deciding
<1>4. PICK entry \in {"REQUEST_CREATED", "GPU_ALLOCATED", "COMPLETE_GPU_REQUEST"} :
        createLog(entry, f.r) /\ Means(entry) = Saves(f.op)
  <2>1. CASE f.op = "createGpuRequest"
    BY <1>1, <2>1, Meanings DEF Log
  <2>2. CASE f.op = "approveRequest"
    BY <1>1, <2>2, Meanings DEF Log
  <2>3. CASE f.op = "completeGpuRequest"
    BY <1>1, <2>3, Meanings DEF Log
  <2> QED
    BY <1>3, <2>1, <2>2, <2>3
<1>5. Tables' /\ Told' /\ VramInRange' /\ Persist
  BY <1>2, <1>3, <1>4, ToldMore DEF Known
<1>6. PICK status \in Int : Answer(h, status) /\ (status = 200 => f.op # "createGpuRequest")
  BY <1>1 DEF Log
<1>7. status = 200 => Means(frames[h].op) \in ever'[frames[h].r]
  BY <1>1, <1>2, <1>3, <1>6, Meanings DEF Known
<1> QED
  BY <1>5, <1>6, <1>7, AnswerInv

\* A statement fails, or the process exits.
LEMMA FaultStep ==
  ASSUME Inv, (\E h \in Handlers : Fail(h)) \/ Crash
  PROVE  Inv'
<1>1. CASE \E h \in Handlers : Fail(h)
  <2>1. PICK h \in Handlers : Fail(h)
    BY <1>1
  <2>2. UNCHANGED data /\ started' \in Nat /\ faults' \in Nat
    BY <2>1 DEF Fail, Refuse, Inv, Tables
  <2>3. Tables' /\ Told' /\ VramInRange' /\ Persist
    BY <2>2, Quiet
  <2> QED
    BY <2>1, <2>3, AnswerInv, Refusals DEF Fail, Refuse
<1>2. CASE Crash
  <2>1. UNCHANGED data /\ started' \in Nat /\ faults' \in Nat
    BY <1>2 DEF Crash, Inv, Tables
  <2>2. Tables' /\ Told' /\ VramInRange' /\ Persist
    BY <2>1, Quiet
  <2>3. \A h \in Handlers : frames'[h] = Idle
    BY <1>2 DEF Crash
  <2>4. frames' \in [Handlers -> Frame]
    BY <1>2, IdleFrame DEF Crash
  <2>5. Knows(Idle)'
    BY <2>2, IdleFrame, KnowsKept DEF Inv
  <2>6. ASSUME NEW h \in Handlers PROVE Knows(frames[h])'
    BY <2>3, <2>5
  <2> QED
    BY <2>2, <2>4, <2>6 DEF Inv
<1> QED
  BY <1>1, <1>2

\* Every step of every handler.
LEMMA InvStep == ASSUME Inv, [Next]_vars PROVE Inv'
<1>1. CASE UNCHANGED vars \/ WindowEnds
  <2>1. /\ UNCHANGED data /\ started' \in Nat /\ faults' \in Nat
        /\ frames' = frames
    BY <1>1 DEF vars, counts, WindowEnds, Inv, Tables
  <2>2. Tables' /\ Told' /\ VramInRange' /\ Persist
    BY <2>1, Quiet
  <2>3. ASSUME NEW h \in Handlers PROVE Knows(frames[h])'
    <3>1. PICK f \in Frame : f = frames[h] /\ Knows(f)
      BY DEF Inv
    <3>2. Knows(f)'
      BY <2>2, <3>1, KnowsKept DEF Inv
    <3> QED
      BY <2>1, <3>1, <3>2
  <2> QED
    BY <2>1, <2>2, <2>3 DEF Inv
<1>2. CASE Crash
  BY <1>2, FaultStep
<1>3. ASSUME NEW h \in Handlers, Arrive(h) \/ Proceed(h) PROVE Inv'
  <2>1. CASE refuse(h) \/ Resource(h)
    BY <2>1, RefuseStep, CreateGpuStep, UpdateGpuStep, DeleteGpuStep, ListStep DEF Resource
  <2>2. CASE Request(h)
    BY <2>2, CreateRequestStep, DecideStep DEF Request
  <2>3. CASE Load(h)
    BY <2>3, LoadBothStep, CheckStep, LoadRequestStep, LoadGpuStep DEF Load
  <2>4. CASE Save(h)
    BY <2>4, SaveGpuStep, SaveRequestStep, AnnounceStep, LogStep DEF Save
  <2>5. CASE Fail(h)
    BY <2>5, FaultStep
  <2> QED
    BY <1>3, <2>1, <2>2, <2>3, <2>4, <2>5 DEF Arrive, Proceed
<1> QED
  BY <1>1, <1>2, <1>3 DEF Next

\* At first nothing is asked for, and every GPU is free or not there.
LEMMA InvInit == ASSUME Init PROVE Inv
<1>1. \A vram \in Sizes : /\ NewResource(vram, "Available") \in ResourceDoc
                          /\ NewResource(vram, "Available").availableVRAM \in 0 .. NewResource(vram, "Available").vram
  BY ConstantsAssumption DEF NewResource, ResourceDoc
<1>2. Tables
  BY <1>1 DEF Init, Tables
<1>3. frames \in [Handlers -> Frame] /\ \A h \in Handlers : Knows(frames[h])
  BY IdleFrame DEF Init
<1>4. Told
  BY DEF Init, Told
<1>5. VramInRange
  BY <1>1 DEF Init, VramInRange, Exists
<1> QED
  BY <1>2, <1>3, <1>4, <1>5 DEF Inv

-----------------------------------------------------------------------------
(* However decisions interleave, and wherever one fails. *)

LEMMA InvTells == ASSUME Inv PROVE Truthful /\ VramInRange
BY DEF Inv, Told, Truthful, Knows

\* What students are told, auditors read and callers are answered has been so,
\* and the VRAM left of a GPU is between nothing and all of it as long as no
\* administrator has written it, for any number of requests in flight, failures
\* and crashes (the controllers of the legacy backend, which save documents one
\* after the other).
THEOREM LegacyTellsTheTruth == Spec => [](Truthful /\ VramInRange)
<1>1. Spec => []Inv
  BY InvInit, InvStep, PTL DEF Spec
<1> QED
  BY <1>1, InvTells, PTL

\* A part of the model-checked instance makes only steps of the backend.
LEMMA PartsStep == ASSUME PartsNext PROVE Next /\ UNCHANGED part
BY DEF PartsNext, Next, Usable, Arrive, Resource, Request, Proceed

\* So it holds of the instance's part whose decisions race and fail.
THEOREM RacesTellTheTruthCorrect == PartsSpec => []RacesTellTheTruth
<1>1. PartsInit => Inv
  BY InvInit DEF PartsInit
<1>2. Inv /\ [PartsNext]_<<vars, part>> => Inv'
  BY InvStep, PartsStep
<1>3. Inv => RacesTellTheTruth
  BY InvTells DEF RacesTellTheTruth
<1> QED
  BY <1>1, <1>2, <1>3, PTL DEF PartsSpec

-----------------------------------------------------------------------------
(* One request at a time. *)

\* The document a handler has in memory is the one stored, until it saves it;
\* it completes a request on the GPU of the request; and a request it has found
\* free of conflicts stays so.
Current(f) ==
  /\ f.pc \in {"load", "check", "loadGpu", "saveGpu", "saveRequest"} /\ f.doc # Unread
       => f.doc = requests[f.r]
  /\ f.pc \in {"load", "check", "loadGpu", "saveGpu"} /\ f.gpu # Unread => f.gpu = gpus[f.g]
  /\ f.pc \in {"loadGpu", "saveGpu", "saveRequest"} /\ f.op = "completeGpuRequest" => f.g = f.doc.gpu
  /\ f.pc \in {"saveGpu", "saveRequest"} /\ f.op = "approveRequest" => ~HasConflict(f.r, f.doc, f.g)

Alone(h) == \A k \in Handlers \ {h} : frames[k] = Idle

OneAtATime ==
  /\ \A g, h \in Handlers : g # h => frames[g] = Idle \/ frames[h] = Idle
  /\ \A h \in Handlers : Current(frames[h])

\* A handler moves on alone.
LEMMA OneMoves ==
  ASSUME NEW h \in Handlers, Arrive(h) \/ Proceed(h), frames \in [Handlers -> Frame]
  PROVE  \A k \in Handlers \ {h} : frames'[k] = frames[k]
<1>1. CASE Arrive(h)
  <2>1. CASE refuse(h) \/ Resource(h)
    BY <2>1 DEF refuse, Resource, createGpuResource, updateGpuResource, deleteGpuResource, list, ById, Done
  <2>2. CASE Request(h)
    BY <2>2 DEF Request, createGpuRequest, approveRequest, decideRequest, Done, Open
  <2> QED
    BY <1>1, <2>1, <2>2 DEF Arrive
<1>2. CASE Load(h)
  BY <1>2 DEF Load, LoadBoth, CheckApproval, LoadRequest, LoadGpu, Answer, Goto
<1>3. CASE Save(h) \/ Fail(h)
  BY <1>3 DEF Save, SaveGpu, SaveRequest, Announce, Log, Fail, Refuse, Answer, Goto
<1> QED
  BY <1>1, <1>2, <1>3 DEF Proceed

\* The frame of a request that arrives has read nothing.
LEMMA ArrivesUnread ==
  ASSUME NEW h \in Handlers, Arrive(h), frames \in [Handlers -> Frame]
  PROVE  /\ frames'[h].doc = Unread /\ frames'[h].gpu = Unread
         /\ frames'[h].pc \in {"answered", "load", "log"}
<1>1. \A op, status : Done(h, op, status) => /\ frames'[h].doc = Unread /\ frames'[h].gpu = Unread
                                             /\ frames'[h].pc = "answered"
  BY DEF Done, Idle
<1>2. \A op, by, r, g, pc : Open(h, op, by, r, g, pc) => /\ frames'[h].doc = Unread /\ frames'[h].gpu = Unread
                                                         /\ frames'[h].pc = pc
  BY DEF Open, Idle
<1>3. CASE refuse(h) \/ Resource(h)
  BY <1>1, <1>3 DEF refuse, Resource, createGpuResource, updateGpuResource, deleteGpuResource, list, ById
<1>4. CASE Request(h)
  BY <1>1, <1>2, <1>4 DEF Request, createGpuRequest, approveRequest, decideRequest
<1> QED
  BY <1>3, <1>4 DEF Arrive

\* The frame of a request that is answered keeps nothing.
LEMMA AnswersUnread ==
  ASSUME NEW h \in Handlers, NEW status, Answer(h, status), frames \in [Handlers -> Frame]
  PROVE  /\ frames'[h].pc = "answered" /\ frames'[h].op = frames[h].op /\ frames'[h].status = status
         /\ Current(frames[h])'
<1>1. PICK f \in Frame : f = frames[h]
  OBVIOUS
<1>2. frames'[h] = [Idle EXCEPT !.pc = "answered", !.op = f.op, !.r = f.r, !.status = status]
  BY <1>1 DEF Answer
<1>3. frames'[h].pc = "answered" /\ frames'[h].op = f.op /\ frames'[h].status = status
  BY <1>2 DEF Idle
<1> QED
  BY <1>1, <1>3 DEF Current

\* What a handler holds is current after a read, ...
LEMMA CurrentLoads ==
  ASSUME Inv, NEW h \in Handlers, Current(frames[h]), Load(h)
  PROVE  Current(frames[h])'
<1>0. frames \in [Handlers -> Frame]
  BY DEF Inv
<1>1. PICK f \in Frame : f = frames[h]
  BY <1>0
<1>2. /\ Knows(f) /\ Current(f)
  BY <1>1 DEF Inv
<1>3. requests' = requests /\ gpus' = gpus
  BY DEF Load, LoadBoth, CheckApproval, LoadRequest, LoadGpu, data
<1>4. CASE LoadBoth(h)
  <2>1. PICK e : /\ \/ /\ f.doc = Unread
                       /\ e = [f EXCEPT !.doc = requests[f.r], !.pc = IF f.gpu = Unread THEN "load" ELSE "check"]
                    \/ /\ f.gpu = Unread
                       /\ e = [f EXCEPT !.gpu = gpus[f.g], !.pc = IF f.doc = Unread THEN "load" ELSE "check"]
                 /\ frames' = [frames EXCEPT ![h] = e]
    BY <1>1, <1>4 DEF LoadBoth
  <2>2. /\ e.r = f.r /\ e.g = f.g /\ e.op = f.op /\ e.pc \in {"load", "check"}
        /\ e.doc \in {f.doc, requests[f.r]} /\ e.gpu \in {f.gpu, gpus[f.g]}
    BY <2>1 DEF Frame
  <2>3. f.pc = "load"
    BY <1>1, <1>4 DEF LoadBoth
  <2>4. Current(e)
    BY <1>2, <2>2, <2>3 DEF Current
  <2>5. frames'[h] = e
    BY <1>0, <2>1
  <2> QED
    BY <1>3, <2>4, <2>5 DEF Current, HasConflict
<1>5. CASE CheckApproval(h)
  <2>1. CASE \E status : Answer(h, status)
    BY <1>0, <2>1, AnswersUnread
  <2>2. CASE Goto(h, "saveGpu") /\ ~HasConflict(f.r, f.doc, f.g)
    <3>1. PICK e : e = [f EXCEPT !.pc = "saveGpu"]
      OBVIOUS
    <3>2. /\ e.r = f.r /\ e.g = f.g /\ e.op = f.op /\ e.pc = "saveGpu" /\ e.doc = f.doc /\ e.gpu = f.gpu
      BY <3>1 DEF Frame
    <3>3. f.pc = "check" /\ f.op = "approveRequest"
      BY <1>1, <1>2, <1>5 DEF CheckApproval, Knows
    <3>4. Current(e)
      BY <1>2, <2>2, <3>2, <3>3 DEF Current
    <3>5. frames'[h] = e
      BY <1>0, <1>1, <2>2, <3>1 DEF Goto
    <3> QED
      BY <1>3, <3>4, <3>5 DEF Current, HasConflict
  <2>3. (\E status : Answer(h, status)) \/ (Goto(h, "saveGpu") /\ ~HasConflict(f.r, f.doc, f.g))
    <3>1. CASE f.doc = None
      BY <1>1, <1>5, <3>1 DEF CheckApproval
    <3>2. CASE f.doc # None /\ f.doc.status # "PENDING"
      BY <1>1, <1>5, <3>2 DEF CheckApproval
    <3>3. CASE f.doc # None /\ f.doc.status = "PENDING"
      BY <1>1, <1>5, <3>3 DEF CheckApproval
    <3> QED
      BY <3>1, <3>2, <3>3
  <2> QED
    BY <2>1, <2>2, <2>3
<1>6. CASE LoadRequest(h)
  <2>0. f.gpu = Unread /\ f.op # "approveRequest"
    BY <1>1, <1>2, <1>6 DEF LoadRequest, Knows
  <2>1. CASE \E status : Answer(h, status)
    BY <1>0, <2>1, AnswersUnread
  <2>2. CASE ~\E status : Answer(h, status)
    <3>1. PICK doc, g, pc :
            /\ doc = requests[f.r]
            /\ g = IF f.op = "completeGpuRequest" THEN doc.gpu ELSE None
            /\ pc = IF f.op = "completeGpuRequest" /\ doc.gpu # None THEN "loadGpu" ELSE "saveRequest"
      OBVIOUS
    <3>2. frames' = [frames EXCEPT ![h].doc = doc, ![h].g = g, ![h].pc = pc]
      BY <1>1, <1>6, <2>2, <3>1 DEF LoadRequest
    <3>3. PICK e : e = [f EXCEPT !.doc = doc, !.g = g, !.pc = pc]
      OBVIOUS
    <3>4. frames'[h] = e
      BY <1>0, <1>1, <3>2, <3>3
    <3>5. e.r = f.r /\ e.op = f.op /\ e.doc = doc /\ e.gpu = f.gpu /\ e.g = g
      BY <3>3 DEF Frame
    <3>6. Current(e)
      BY <2>0, <3>1, <3>5 DEF Current
    <3> QED
      BY <1>3, <3>4, <3>6 DEF Current, HasConflict
  <2> QED
    BY <2>1, <2>2
<1>7. CASE LoadGpu(h)
  <2>1. PICK e : /\ e = [f EXCEPT !.gpu = gpus[f.g], !.pc = IF Exists(gpus[f.g]) THEN "saveGpu" ELSE "saveRequest"]
                 /\ frames' = [frames EXCEPT ![h] = e]
    BY <1>1, <1>7 DEF LoadGpu
  <2>2. e.r = f.r /\ e.g = f.g /\ e.op = f.op /\ e.doc = f.doc /\ e.gpu = gpus[f.g]
    BY <2>1 DEF Frame
  <2>3. f.pc = "loadGpu" /\ f.op # "approveRequest"
    BY <1>1, <1>2, <1>7 DEF LoadGpu, Knows
  <2>4. Current(e)
    BY <1>2, <2>2, <2>3 DEF Current
  <2>5. frames'[h] = e
    BY <1>0, <2>1
  <2> QED
    BY <1>3, <2>4, <2>5 DEF Current, HasConflict
<1> QED
  BY <1>4, <1>5, <1>6, <1>7 DEF Load

\* ... and after it saves the GPU it has read; and of what it saves last it
\* knows no more.
LEMMA CurrentSaves ==
  ASSUME Inv, NEW h \in Handlers, Current(frames[h]), Save(h) \/ Fail(h)
  PROVE  Current(frames[h])'
<1>0. frames \in [Handlers -> Frame]
  BY DEF Inv
<1>1. PICK f \in Frame : f = frames[h]
  BY <1>0
<1>2. /\ Knows(f) /\ Current(f)
  BY <1>1 DEF Inv
<1>3. ASSUME NEW status, Answer(h, status) PROVE Current(frames[h])'
  BY <1>0, <1>3, AnswersUnread
<1>4. ASSUME NEW pc \in {"log", "announce"}, Goto(h, pc) PROVE Current(frames[h])'
  <2>1. frames'[h].pc = pc
    BY <1>0, <1>4 DEF Goto, Frame
  <2> QED
    BY <2>1 DEF Current
<1>5. CASE SaveGpu(h) /\ Goto(h, "saveRequest")
  <2>1. frames'[h] = [f EXCEPT !.pc = "saveRequest"]
    BY <1>0, <1>1, <1>5 DEF Goto
  <2>2. PICK e : e = [f EXCEPT !.pc = "saveRequest"]
    OBVIOUS
  <2>3. e.r = f.r /\ e.g = f.g /\ e.op = f.op /\ e.doc = f.doc /\ e.pc = "saveRequest"
    BY <2>2 DEF Frame
  <2>4. f.pc = "saveGpu" /\ requests' = requests
    BY <1>1, <1>5 DEF SaveGpu
  <2>5. Current(e)
    BY <1>2, <2>3, <2>4 DEF Current
  <2>6. frames'[h] = e
    BY <2>1, <2>2
  <2> QED
    BY <2>3, <2>4, <2>5, <2>6 DEF Current, HasConflict
<1>6. CASE SaveGpu(h)
  BY <1>3, <1>5, <1>6 DEF SaveGpu
<1>7. CASE SaveRequest(h)
  BY <1>4, <1>7 DEF SaveRequest
<1>8. CASE Announce(h)
  BY <1>3, <1>4, <1>8 DEF Announce
<1>9. CASE Log(h) \/ Fail(h)
  BY <1>3, <1>9 DEF Log, Fail, Refuse
<1> QED
  BY <1>6, <1>7, <1>8, <1>9 DEF Save

\* One request at a time, each finds in memory what is stored.
LEMMA OneAtATimeStep ==
  ASSUME Inv, OneAtATime, NEW h \in Handlers, Alone(h), Arrive(h) \/ Proceed(h)
  PROVE  OneAtATime'
<1>0. frames \in [Handlers -> Frame]
  BY DEF Inv
<1>1. \A k \in Handlers \ {h} : frames'[k] = Idle
  BY <1>0, OneMoves DEF Alone
<1>2. Current(frames[h])'
  <2>1. CASE Arrive(h)
    BY <1>0, <2>1, ArrivesUnread DEF Current
  <2>2. CASE Proceed(h)
    BY <2>2, CurrentLoads, CurrentSaves DEF Proceed, OneAtATime
  <2> QED
    BY <2>1, <2>2
<1>3. Current(Idle)'
  BY DEF Current, Idle
<1>4. ASSUME NEW k \in Handlers PROVE Current(frames[k])'
  BY <1>1, <1>2, <1>3
<1> QED
  BY <1>1, <1>4 DEF OneAtATime

LEMMA OneAtATimeInit == ASSUME Init PROVE OneAtATime
<1>1. Current(Idle)
  BY DEF Current, Idle
<1> QED
  BY <1>1 DEF Init, OneAtATime

-----------------------------------------------------------------------------
(* What is answered is documented. *)

Answering == Operations["answers"]

\* The statuses that the document lists for the operations of this part.
LEMMA ListedStatuses ==
  /\ Documented("createGpuRequest") = {201, 400, 401, 403}
  /\ Documented("approveRequest") = {200, 400, 401, 403, 404, 409}
  /\ Documented("completeGpuRequest") = {200, 400, 401, 403, 404}
  /\ Documented("createGpuResource") = {201, 400, 401, 403}
  /\ Documented("updateGpuResource") = {200, 400, 401, 403, 404}
  /\ Documented("deleteGpuResource") = {204, 400, 401, 403, 404}
  /\ Documented("getAllGpuResources") = {200, 401, 403}
  /\ Documented("getMyRequests") = {200, 401}
  /\ Documented("getPendingRequests") = {200, 401, 403}
  /\ Documented("getAllRequests") = {200, 401, 403}
  /\ Documented("getAvailableGpuResources") = {200, 401}
  /\ \A op \in {"getDashboardSummary", "getAllAuditLogs", "getUsageAnalytics"} :
       Documented(op) = {200, 401, 403}
<1>1. DOMAIN DocumentedAuth = {"signup", "login", "refresh", "logout"}
  BY DEF DocumentedAuth
<1>2. /\ DOMAIN DocumentedGpuResources = {"getAvailableGpuResources", "getAllGpuResources",
           "createGpuResource", "updateGpuResource", "deleteGpuResource"}
      /\ DocumentedGpuResources.getAvailableGpuResources = {200, 401}
      /\ DocumentedGpuResources.getAllGpuResources = {200, 401, 403}
      /\ DocumentedGpuResources.createGpuResource = {201, 400, 401, 403}
      /\ DocumentedGpuResources.updateGpuResource = {200, 400, 401, 403, 404}
      /\ DocumentedGpuResources.deleteGpuResource = {204, 400, 401, 403, 404}
  BY DEF DocumentedGpuResources
<1>3. /\ DOMAIN DocumentedGpuRequests = {"createGpuRequest", "getMyRequests", "getPendingRequests", "getAllRequests"}
      /\ DocumentedGpuRequests.createGpuRequest = {201, 400, 401, 403}
      /\ DocumentedGpuRequests.getMyRequests = {200, 401}
      /\ DocumentedGpuRequests.getPendingRequests = {200, 401, 403}
      /\ DocumentedGpuRequests.getAllRequests = {200, 401, 403}
  BY DEF DocumentedGpuRequests
<1>4. /\ DOMAIN DocumentedDecisions = {"approveRequest", "rejectRequest", "completeGpuRequest"}
      /\ DocumentedDecisions.approveRequest = {200, 400, 401, 403, 404, 409}
      /\ DocumentedDecisions.completeGpuRequest = {200, 400, 401, 403, 404}
  BY DEF DocumentedDecisions
<1>5. \A op \in DOMAIN DocumentedGpuResources :
        Documented(op) = DocumentedGpuResources[op]
  <2> TAKE op \in DOMAIN DocumentedGpuResources
  <2>1. \A other \in {DocumentedAuth, DocumentedGpuRequests, DocumentedDecisions, DocumentedAdmin} : op \notin DOMAIN other
    BY <1>1, <1>2, <1>3, <1>4 DEF DocumentedAdmin
  <2> QED
    BY <2>1 DEF Documented
<1>6. \A op \in DOMAIN DocumentedGpuRequests : Documented(op) = DocumentedGpuRequests[op]
  <2> TAKE op \in DOMAIN DocumentedGpuRequests
  <2>1. \A other \in {DocumentedAuth, DocumentedGpuResources, DocumentedDecisions, DocumentedAdmin} : op \notin DOMAIN other
    BY <1>1, <1>2, <1>3, <1>4 DEF DocumentedAdmin
  <2> QED
    BY <2>1 DEF Documented
<1>7. \A op \in DOMAIN DocumentedDecisions : Documented(op) = DocumentedDecisions[op]
  <2> TAKE op \in DOMAIN DocumentedDecisions
  <2>1. \A other \in {DocumentedAuth, DocumentedGpuResources, DocumentedGpuRequests, DocumentedAdmin} : op \notin DOMAIN other
    BY <1>1, <1>2, <1>3, <1>4 DEF DocumentedAdmin
  <2> QED
    BY <2>1 DEF Documented
<1>8. \A op \in {"getDashboardSummary", "getAllAuditLogs", "getUsageAnalytics"} :
        Documented(op) = {200, 401, 403}
  <2> TAKE op \in {"getDashboardSummary", "getAllAuditLogs", "getUsageAnalytics"}
  <2>1. \A other \in {DocumentedAuth, DocumentedGpuResources, DocumentedGpuRequests, DocumentedDecisions} :
          op \notin DOMAIN other
    BY <1>1, <1>2, <1>3, <1>4
  <2>2. op \in DOMAIN DocumentedAdmin /\ DocumentedAdmin[op] = {200, 401, 403}
    BY DEF DocumentedAdmin
  <2> QED
    BY <2>1, <2>2 DEF Documented
<1> QED
  BY <1>1, <1>2, <1>3, <1>4, <1>5, <1>6, <1>7, <1>8

\* Whom its routes let through.
LEMMA RestrictedRoutes ==
  /\ \A op \in Answering : RestrictTo(op) # Anyone
  /\ \A op \in {"getMyRequests", "getAvailableGpuResources"} : RestrictTo(op) = Roles
<1>1. DOMAIN AuthRoutes = {"signup", "login", "refresh", "logout"}
  BY DEF AuthRoutes
<1>2. /\ DOMAIN GpuResourceRoutes = {"getAvailableGpuResources", "getAllGpuResources",
           "createGpuResource", "updateGpuResource", "deleteGpuResource"}
      /\ \A op \in DOMAIN GpuResourceRoutes : GpuResourceRoutes[op] \in {Roles, {"ADMIN"}}
      /\ GpuResourceRoutes.getAvailableGpuResources = Roles
  BY DEF GpuResourceRoutes
<1>3. /\ DOMAIN GpuRequestRoutes = {"createGpuRequest", "getMyRequests", "getPendingRequests", "getAllRequests",
           "approveRequest", "rejectRequest", "completeGpuRequest"}
      /\ \A op \in DOMAIN GpuRequestRoutes :
           GpuRequestRoutes[op] \in {Roles, {"ADMIN"}, {"STUDENT"}, {"FACULTY"}, {"FACULTY", "ADMIN"}}
      /\ GpuRequestRoutes.getMyRequests = Roles
  BY DEF GpuRequestRoutes
<1>4. Answering \subseteq DOMAIN GpuResourceRoutes \union DOMAIN GpuRequestRoutes \union DOMAIN AdminRoutes
  <2>1. DOMAIN AdminRoutes = {"getDashboardSummary", "getAllAuditLogs", "createUser", "getUsageAnalytics"}
    BY DEF AdminRoutes
  <2> QED
    BY <1>2, <1>3, <2>1 DEF Answering, Operations, Decisions, Administration, Creation, Listings, Overviews
<1>5. \A op \in DOMAIN GpuResourceRoutes : RestrictTo(op) = GpuResourceRoutes[op]
  <2> TAKE op \in DOMAIN GpuResourceRoutes
  <2>1. \A other \in {AuthRoutes, GpuRequestRoutes, AdminRoutes} : op \notin DOMAIN other
    BY <1>1, <1>2, <1>3 DEF AdminRoutes
  <2> QED
    BY <2>1 DEF RestrictTo
<1>6. \A op \in DOMAIN GpuRequestRoutes : RestrictTo(op) = GpuRequestRoutes[op]
  <2> TAKE op \in DOMAIN GpuRequestRoutes
  <2>1. \A other \in {AuthRoutes, GpuResourceRoutes, AdminRoutes} : op \notin DOMAIN other
    BY <1>1, <1>2, <1>3 DEF AdminRoutes
  <2> QED
    BY <2>1 DEF RestrictTo
<1>7. \A allowed \in SUBSET Roles : allowed # Anyone
  BY ApiAssumption DEF Anyone
<1>8. \A allowed \in {Roles, {"ADMIN"}, {"STUDENT"}, {"FACULTY"}, {"FACULTY", "ADMIN"}} : allowed \in SUBSET Roles
  BY DEF Roles
<1>9. \A op \in DOMAIN AdminRoutes : RestrictTo(op) = {"ADMIN"}
  <2> TAKE op \in DOMAIN AdminRoutes
  <2>1. \A other \in {AuthRoutes, GpuResourceRoutes, GpuRequestRoutes} : op \notin DOMAIN other
    BY <1>1, <1>2, <1>3 DEF AdminRoutes
  <2>2. AdminRoutes[op] = {"ADMIN"}
    BY DEF AdminRoutes
  <2> QED
    BY <2>1, <2>2 DEF RestrictTo
<1>10. \A op \in Answering : RestrictTo(op) # Anyone
  <2> TAKE op \in Answering
  <2>1. CASE op \in DOMAIN GpuResourceRoutes
    BY <1>2, <1>5, <1>7, <1>8, <2>1
  <2>2. CASE op \in DOMAIN GpuRequestRoutes
    BY <1>3, <1>6, <1>7, <1>8, <2>2
  <2>3. CASE op \in DOMAIN AdminRoutes
    BY <1>7, <1>8, <1>9, <2>3
  <2> QED
    BY <1>4, <2>1, <2>2, <2>3
<1> QED
  BY <1>2, <1>3, <1>5, <1>6, <1>10

\* None of them is the mark for no operation.
LEMMA OperationNames == \A op \in Deciding \union {"createGpuRequest"} : op # None
<1>1. DOMAIN GpuRequestRoutes = {"createGpuRequest", "getMyRequests", "getPendingRequests", "getAllRequests",
           "approveRequest", "rejectRequest", "completeGpuRequest"}
  BY DEF GpuRequestRoutes
<1> QED
  BY <1>1, ConstantsAssumption DEF Deciding, Routes

\* Who is turned away by protect or restrictTo is answered as documented, ...
LEMMA AdmissionListed ==
  ASSUME NodeEnv # "development", NEW op \in Answering, NEW user \in Users \union {None}, NEW token \in Tokens,
         ~Limited(hits), Admission(op, user, token, hits) # Ok
  PROVE  Admission(op, user, token, hits) \in Documented(op)
<1>1. RestrictTo(op) # Anyone
  BY RestrictedRoutes
<1>2. /\ \A code : ErrorStatus(AppError(code)) = code
      /\ ErrorStatus(Thrown("JsonWebTokenError")) = 401
      /\ ErrorStatus(Thrown("TokenExpiredError")) = 401
  BY ErrorStatuses, ThrownStatuses
<1>3. Admission(op, user, token, hits) = 401
        \/ (Admission(op, user, token, hits) = 403 /\ user # None /\ RoleOf[user] \notin RestrictTo(op))
  <2>1. CASE token = "absent"
    BY <1>1, <1>2, <2>1 DEF Admission
  <2>2. CASE token = "malformed"
    BY <1>1, <1>2, <2>2 DEF Admission
  <2>3. CASE token = "expired"
    BY <1>1, <1>2, <2>3 DEF Admission
  <2>4. CASE token = "valid" /\ user = None
    BY <1>1, <1>2, <2>4 DEF Admission
  <2>5. CASE token = "valid" /\ user # None
    BY <1>1, <1>2, <2>5 DEF Admission
  <2> QED
    BY <2>1, <2>2, <2>3, <2>4, <2>5 DEF Tokens
<1>4. user # None => RoleOf[user] \in Roles
  BY ApiAssumption
<1>5. Admission(op, user, token, hits) = 401 \/ (Admission(op, user, token, hits) = 403 /\ op \notin {"getMyRequests", "getAvailableGpuResources"})
  BY <1>3, <1>4, RestrictedRoutes
<1>6. 401 \in Documented(op) /\ (op \notin {"getMyRequests", "getAvailableGpuResources"} => 403 \in Documented(op))
  BY ListedStatuses DEF Answering, Operations, Decisions, Administration, Creation, Listings, Overviews
<1> QED
  BY <1>5, <1>6

\* ... and so is a listing, unless its limit is negative.
LEMMA ListingFound ==
  ASSUME NEW query, query.page \in Int \union {None}, query.limit \in Nat \union {None}
  PROVE  ListStatus(query) = 200
<1>1. PICK p : p = IF query.page = None \/ query.page < 1 THEN 1 ELSE query.page
  OBVIOUS
<1>2. PICK l0 : l0 = IF query.limit = None \/ query.limit = 0 THEN 20 ELSE query.limit
  OBVIOUS
<1>3. PICK l : l = IF l0 > 100 THEN 100 ELSE l0
  OBVIOUS
<1>4. p \in Nat /\ p >= 1
  BY <1>1
<1>5. l0 \in Nat
  BY <1>2
<1>6. l \in Nat
  BY <1>3, <1>5
<1>7. (p - 1) * l \in Nat
  <2>1. PICK n \in Nat : n = p - 1
    BY <1>4
  <2>2. n * l \in Nat
    BY <1>6
  <2> QED
    BY <2>1, <2>2
<1>8. Pagination(query.page, query.limit, 20, 100).skip = (p - 1) * l
  BY <1>1, <1>2, <1>3 DEF Pagination
<1> QED
  BY <1>7, <1>8 DEF ListStatus

Listed(f) == f.pc = "answered" => f.status \in Documented(f.op) \union {TooMany}

\* A request that arrives and is answered at once gets a documented status.
LEMMA ArriveListed ==
  ASSUME NodeEnv # "development",
         \A query \in Queries : query.page \in Int \union {None} /\ query.limit \in Nat \union {None},
         NEW h \in Handlers, Arrive(h), frames \in [Handlers -> Frame],
         frames'[h].op \in Answering \union {None}
  PROVE  Listed(frames[h])'
<1>1. ASSUME NEW op, NEW status, Done(h, op, status)
      PROVE  /\ frames'[h].op = op
             /\ status \in Documented(op) \union {TooMany} => Listed(frames[h])'
  <2>1. frames'[h] = [Idle EXCEPT !.pc = "answered", !.op = op, !.status = status]
    BY <1>1 DEF Done
  <2>2. frames'[h].op = op /\ frames'[h].status = status
    BY <2>1 DEF Idle
  <2> QED
    BY <2>2 DEF Listed
<1>2. ASSUME NEW op, NEW by, NEW r, NEW g, NEW pc \in {"load", "log"}, Open(h, op, by, r, g, pc)
      PROVE  Listed(frames[h])'
  <2>1. frames'[h].pc = pc
    BY <1>2 DEF Open, Idle
  <2> QED
    BY <2>1 DEF Listed
<1>3. /\ \A code : ErrorStatus(AppError(code)) = code
      /\ ErrorStatus(Thrown("CastError")) = 400
      /\ ErrorStatus(Thrown("ValidationError")) = 400
  BY ErrorStatuses, ThrownStatuses
<1>4. CASE refuse(h)
  <2>1. PICK op \in Offered, by \in Users \union {None}, token \in Presented :
          Admission(op, by, token, hits) # Ok /\ Done(h, op, Admission(op, by, token, hits))
    BY <1>4 DEF refuse
  <2>2. op \in Answering /\ token \in Tokens
    BY <1>1, <2>1, ConstantsAssumption
  <2>3. CASE Limited(hits)
    BY <1>1, <2>1, <2>3 DEF Admission
  <2>4. CASE ~Limited(hits)
    BY <1>1, <2>1, <2>2, <2>4, AdmissionListed
  <2> QED
    BY <2>3, <2>4
<1>5. CASE createGpuResource(h)
  BY <1>1, <1>3, <1>5, ListedStatuses DEF createGpuResource
<1>6. CASE updateGpuResource(h)
  BY <1>1, <1>3, <1>6, ListedStatuses DEF updateGpuResource, ById
<1>7. CASE deleteGpuResource(h)
  BY <1>1, <1>3, <1>7, ListedStatuses DEF deleteGpuResource, ById
<1>8. CASE list(h)
  <2>1. PICK op \in Listings \union Overviews, query \in Queries :
          Done(h, op, IF op \in Overviews THEN 200 ELSE ListStatus(query))
    BY <1>8 DEF list
  <2>2. ListStatus(query) = 200 /\ 200 \in Documented(op)
    BY <2>1, ListingFound, ListedStatuses DEF Listings, Overviews
  <2> QED
    BY <1>1, <2>1, <2>2
<1>9. CASE createGpuRequest(h)
  BY <1>1, <1>2, <1>3, <1>9, ListedStatuses DEF createGpuRequest
<1>10. CASE approveRequest(h)
  BY <1>1, <1>2, <1>3, <1>10, ListedStatuses DEF approveRequest
<1>11. CASE decideRequest(h)
  <2>1. PICK op, by, r :
          /\ op \in {"rejectRequest", "completeGpuRequest"} /\ op \in Offered
          /\ Done(h, op, 400) \/ Open(h, op, by, r, None, "load")
    BY <1>3, <1>11 DEF decideRequest, Admitted, Arrives
  <2>2. CASE Done(h, op, 400)
    <3>1. op # "rejectRequest"
      <4>1. op \in Answering \union {None}
        BY <1>1, <2>2
      <4>2. "rejectRequest" \notin Answering
        BY DEF Answering, Operations, Decisions, Administration, Creation, Listings, Overviews
      <4> QED
        BY <2>1, <4>1, <4>2, OperationNames DEF Deciding
    <3> QED
      BY <1>1, <2>1, <2>2, <3>1, ListedStatuses
  <2> QED
    BY <1>2, <2>1, <2>2
<1> QED
  BY <1>4, <1>5, <1>6, <1>7, <1>8, <1>9, <1>10, <1>11 DEF Arrive, Resource, Request

\* One that is carried out is answered as documented when no statement fails,
\* for a GPU that is read is still there when it is saved.
LEMMA ProceedListed ==
  ASSUME Inv, NEW h \in Handlers, Current(frames[h]), Proceed(h), faults' = faults,
         frames[h].op \in Answering \union {None}
  PROVE  Listed(frames[h])'
<1>0. frames \in [Handlers -> Frame]
  BY DEF Inv
<1>1. PICK f \in Frame : f = frames[h] /\ Knows(f) /\ Current(f)
  BY <1>0 DEF Inv
<1>2. ASSUME NEW status, Answer(h, status)
      PROVE  status \in Documented(f.op) \union {TooMany} => Listed(frames[h])'
  BY <1>0, <1>1, <1>2, AnswersUnread DEF Listed
<1>3. ASSUME frames'[h].pc # "answered" PROVE Listed(frames[h])'
  BY <1>3 DEF Listed
<1>4. \A code : ErrorStatus(AppError(code)) = code
  BY ErrorStatuses
<1>5. \A pc \in Stages : Goto(h, pc) => frames'[h].pc # "answered"
  BY <1>0 DEF Goto, Frame, Stages
<1>6. f.pc \in Stages => f.op \in {"approveRequest", "completeGpuRequest", "createGpuRequest"}
  <2>1. "rejectRequest" \notin Answering
    BY DEF Answering, Operations, Decisions, Administration, Creation, Listings, Overviews
  <2>2. f.op \in Answering \union {None}
    BY <1>1
  <2>3. f.pc \in Stages => f.op \in Deciding \union {"createGpuRequest"}
    BY <1>1 DEF Knows
  <2> QED
    BY <2>1, <2>2, <2>3, OperationNames DEF Deciding
<1>7. CASE LoadBoth(h)
  <2>1. frames'[h].pc \in {"load", "check"}
    BY <1>0, <1>7 DEF LoadBoth, Frame
  <2> QED
    BY <1>3, <2>1
<1>8. CASE CheckApproval(h)
  <2>1. \A status \in {400, 404, 409} : status \in Documented(f.op)
    BY <1>1, <1>8, ListedStatuses DEF CheckApproval, Knows
  <2>2. (\E status \in {400, 404, 409} : Answer(h, status)) \/ Goto(h, "saveGpu")
    <3>1. CASE f.doc = None
      BY <1>1, <1>4, <1>8, <3>1 DEF CheckApproval
    <3>2. CASE f.doc # None /\ f.doc.status # "PENDING"
      BY <1>1, <1>4, <1>8, <3>2 DEF CheckApproval
    <3>3. CASE f.doc # None /\ f.doc.status = "PENDING"
      <4>1. IF ~Exists(f.gpu) THEN Answer(h, ErrorStatus(AppError(404)))
            ELSE IF HasConflict(f.r, f.doc, f.g) THEN Answer(h, ErrorStatus(AppError(409)))
            ELSE IF f.gpu.status # "Available" \/ ~Sufficient(f.gpu, f.doc.vram)
            THEN Answer(h, ErrorStatus(AppError(400)))
            ELSE Goto(h, "saveGpu")
        BY <1>1, <1>8, <3>3 DEF CheckApproval
      <4>2. /\ ErrorStatus(AppError(404)) = 404 /\ ErrorStatus(AppError(409)) = 409
            /\ ErrorStatus(AppError(400)) = 400
        BY <1>4
      <4> QED
        BY <4>1, <4>2
    <3> QED
      BY <3>1, <3>2, <3>3
  <2> QED
    BY <1>2, <1>3, <1>5, <2>1, <2>2 DEF Stages
<1>9. CASE LoadRequest(h)
  <2>1. f.op = "completeGpuRequest"
    BY <1>1, <1>6, <1>9 DEF LoadRequest, Knows, Stages, Deciding
  <2>2. \A status \in {400, 404} : status \in Documented(f.op)
    BY <2>1, ListedStatuses
  <2>3. (\E status \in {400, 404} : Answer(h, status)) \/ frames'[h].pc \in {"loadGpu", "saveRequest"}
    BY <1>0, <1>4, <1>9 DEF LoadRequest, Frame
  <2> QED
    BY <1>2, <1>3, <2>2, <2>3
<1>10. CASE LoadGpu(h)
  <2>1. frames'[h].pc \in {"saveGpu", "saveRequest"}
    BY <1>0, <1>10 DEF LoadGpu, Frame
  <2> QED
    BY <1>3, <2>1
<1>11. CASE SaveGpu(h)
  <2>1. Exists(gpus[f.g])
    BY <1>1, <1>11, NoDocs, ExistingIsDoc DEF SaveGpu, Knows, Current
  <2> QED
    BY <1>1, <1>3, <1>5, <1>11, <2>1 DEF SaveGpu, Stages
<1>12. CASE SaveRequest(h)
  BY <1>3, <1>5, <1>12 DEF SaveRequest, Stages
<1>13. CASE Announce(h)
  <2>1. f.op = "approveRequest"
    BY <1>1, <1>6, <1>13 DEF Announce, Knows, Stages
  <2> QED
    BY <1>1, <1>3, <1>5, <1>13, <2>1 DEF Announce, Stages
<1>14. CASE Log(h)
  <2>1. f.op \in {"approveRequest", "completeGpuRequest", "createGpuRequest"}
    BY <1>1, <1>6, <1>14 DEF Log, Stages
  <2> QED
    BY <1>1, <1>2, <1>14, <2>1, ListedStatuses DEF Log
<1>15. ~Fail(h)
  BY DEF Fail, Inv, Tables
<1> QED
  BY <1>7, <1>8, <1>9, <1>10, <1>11, <1>12, <1>13, <1>14, <1>15 DEF Proceed, Load, Save

-----------------------------------------------------------------------------
(* The instance's part that asks for every status. *)

AnswersInv ==
  part = "answers" =>
    /\ OneAtATime /\ faults = 0
    /\ \A h \in Handlers : frames[h].op \in Answering \union {None} /\ Listed(frames[h])

LEMMA AnswersInvStep ==
  ASSUME NodeEnv # "development",
         \A query \in Queries : query.page \in Int \union {None} /\ query.limit \in Nat \union {None},
         Inv, AnswersInv, [PartsNext]_<<vars, part>>
  PROVE  AnswersInv'
<1>1. CASE UNCHANGED <<vars, part>>
  BY <1>1 DEF vars, data, counts, AnswersInv, OneAtATime, Current, HasConflict, Listed
<1>2. CASE PartsNext /\ part = "answers"
  <2>1. part' = "answers" /\ faults' = 0 /\ \A h \in Handlers : frames'[h].op \in Answering \union {None}
    BY <1>2 DEF PartsNext, Within, Answering
  <2>2. ~Crash
    BY <1>2, <2>1 DEF Crash, AnswersInv
  <2>3. PICK h \in Usable : Arrive(h) \/ Proceed(h)
    BY <1>2, <2>2 DEF PartsNext
  <2>4. h \in Handlers /\ Alone(h)
    BY <1>2, <2>3 DEF Usable, Alone
  <2>5. OneAtATime'
    BY <1>2, <2>3, <2>4, OneAtATimeStep DEF AnswersInv
  <2>6. frames \in [Handlers -> Frame]
    BY DEF Inv
  <2>7. Listed(frames[h])'
    <3>1. CASE Arrive(h)
      BY <2>1, <2>4, <2>6, <3>1, ArriveListed
    <3>2. CASE Proceed(h)
      BY <1>2, <2>1, <2>4, <3>2, ProceedListed DEF AnswersInv, OneAtATime
    <3> QED
      BY <2>3, <3>1, <3>2
  <2>8. ASSUME NEW k \in Handlers PROVE Listed(frames[k])'
    BY <1>2, <2>3, <2>4, <2>6, <2>7, OneMoves DEF AnswersInv, Listed
  <2> QED
    BY <2>1, <2>5, <2>8 DEF AnswersInv
<1>3. CASE PartsNext /\ part # "answers"
  BY <1>3 DEF PartsNext, AnswersInv
<1> QED
  BY <1>1, <1>2, <1>3

\* Every answer but the rate limiter's has a status that docs/openapi.js lists
\* for its operation: of the operations of this part, asked one at a time, while
\* no statement fails and outside development; listings without a negative limit.
THEOREM EveryAnswerDocumentedCorrect ==
  ASSUME NodeEnv # "development",
         \A query \in Queries : query.page \in Int \union {None} /\ query.limit \in Nat \union {None}
  PROVE  PartsSpec => []EveryAnswerDocumented
<1>1. PartsInit => Inv /\ AnswersInv
  BY InvInit, OneAtATimeInit DEF PartsInit, AnswersInv, Init, Idle, Listed
<1>2. Inv /\ AnswersInv /\ [PartsNext]_<<vars, part>> => Inv' /\ AnswersInv'
  <2>1. Inv /\ [PartsNext]_<<vars, part>> => [Next]_vars
    BY PartsStep
  <2> QED
    BY <2>1, InvStep, AnswersInvStep
<1>3. AnswersInv => EveryAnswerDocumented
  BY DEF AnswersInv, EveryAnswerDocumented, AnswersDocumented, Listed
<1> QED
  BY <1>1, <1>2, <1>3, PTL DEF PartsSpec

-----------------------------------------------------------------------------
(* Sums.  What MapThenSumSet adds up by choosing one element after the other *)
(* does not depend on the choice: by the least counterexample, a set of      *)
(* subsets of a finite set being well-founded.                               *)

\* The function that MapThenSumSet defines to add up v over the subsets of S.
Element(s) == CHOOSE x \in s : TRUE
Summed(it, v, S) == it = [s \in SUBSET S |-> IF s = {} THEN 0 ELSE v[Element(s)] + it[s \ {Element(s)}]]

\* Of some subsets of a finite set one is smallest.
LEMMA SmallestSubset ==
  ASSUME NEW S, IsFiniteSet(S), NEW P, P \subseteq SUBSET S, P # {}
  PROVE  \E s \in P : \A t \in P : t \subseteq s => t = s
<1>1. \A s \in P : IsFiniteSet(s) /\ Cardinality(s) \in Nat
  BY FS_Subset, FS_CardinalityType
<1> DEFINE N == {Cardinality(s) : s \in P}
<1>2. N \subseteq Nat /\ N # {}
  BY <1>1
<1> HIDE DEF N
<1>3. PICK n \in N : \A m \in N : ~(<<m, n>> \in OpToRel(<, Nat))
  BY <1>2, WFMin, NatLessThanWellFounded, Zenon
<1> USE DEF N
<1>4. PICK s \in P : n = Cardinality(s)
  OBVIOUS
<1>5. ASSUME NEW t \in P, t \subseteq s PROVE t = s
  <2>1. Cardinality(t) <= Cardinality(s) /\ (Cardinality(s) = Cardinality(t) => s = t)
    BY <1>1, <1>5, FS_Subset
  <2>2. Cardinality(t) \in N /\ Cardinality(t) \in Nat /\ n \in Nat
    BY <1>1, <1>4
  <2>3. ~(<<Cardinality(t), n>> \in OpToRel(<, Nat))
    BY <1>3, <2>2
  <2>4. ~(Cardinality(t) < n)
    BY <2>2, <2>3 DEF OpToRel
  <2> QED
    BY <1>4, <2>1, <2>2, <2>4
<1> QED
  BY <1>5

\* One of the elements of a set that has some.
LEMMA ElementOf == \A s : s # {} => Element(s) \in s
BY DEF Element

\* A sum depends on the values of what is added up, and on nothing else.
LEMMA SumCongruent ==
  ASSUME NEW S, NEW T, NEW v, NEW w, NEW it, NEW jt, Summed(it, v, S), Summed(jt, w, T),
         NEW s, s \subseteq S, s \subseteq T, IsFiniteSet(s), \A x \in s : v[x] = w[x]
  PROVE  it[s] = jt[s]
<1> DEFINE P == {t \in SUBSET s : it[t] # jt[t]}
<1>1. ASSUME P # {} PROVE FALSE
  <2>1. P \subseteq SUBSET s
    OBVIOUS
  <2> HIDE DEF P
  <2>2. PICK t \in P : \A u \in P : u \subseteq t => u = t
    BY <1>1, <2>1, SmallestSubset
  <2> USE DEF P
  <2>3. t \in SUBSET S /\ t \in SUBSET T /\ t \subseteq s /\ it[t] # jt[t]
    OBVIOUS
  <2>4. /\ it[t] = IF t = {} THEN 0 ELSE v[Element(t)] + it[t \ {Element(t)}]
        /\ jt[t] = IF t = {} THEN 0 ELSE w[Element(t)] + jt[t \ {Element(t)}]
    BY <2>3 DEF Summed
  <2>5. t # {}
    BY <2>3, <2>4
  <2>6. Element(t) \in t
    BY <2>5, ElementOf
  <2>7. t \ {Element(t)} \notin P
    BY <2>2, <2>6
  <2>8. it[t \ {Element(t)}] = jt[t \ {Element(t)}]
    BY <2>3, <2>7
  <2>9. v[Element(t)] = w[Element(t)]
    BY <2>3, <2>6
  <2> QED
    BY <2>3, <2>4, <2>8, <2>9
<1> QED
  BY <1>1

\* There is such a function for every finite set.
LEMMA SumExists ==
  ASSUME NEW S, IsFiniteSet(S), NEW v
  PROVE  \E it : Summed(it, v, S)
<1> DEFINE P == {T \in SUBSET S : ~\E it : Summed(it, v, T)}
<1>1. ASSUME P # {} PROVE FALSE
  <2>1. P \subseteq SUBSET S
    OBVIOUS
  <2> HIDE DEF P
  <2>2. PICK T \in P : \A U \in P : U \subseteq T => U = T
    BY <1>1, <2>1, SmallestSubset
  <2> USE DEF P
  <2>3. ASSUME NEW U \in SUBSET T, U # T PROVE \E it : Summed(it, v, U)
    BY <2>2, <2>3
  <2> DEFINE Of(s) == CHOOSE n : \E it : Summed(it, v, s) /\ n = it[s]
             F(s) == IF s = {} THEN 0 ELSE v[Element(s)] + Of(s \ {Element(s)})
  <2>a. PICK ft : ft = [s \in SUBSET T |-> F(s)]
    OBVIOUS
  <2>b. \A s \in SUBSET T : ft[s] = F(s)
    BY <2>a
  <2>4. ASSUME NEW U \in SUBSET T, U # T, NEW s \in SUBSET U, NEW it, Summed(it, v, U)
        PROVE  it[s] = Of(s)
    <3>1. IsFiniteSet(s)
      BY FS_Subset
    <3>2. \E jt : Summed(jt, v, s)
      BY <2>3, <2>4
    <3>3. \A jt : Summed(jt, v, s) => jt[s] = it[s]
      BY <2>4, <3>1, SumCongruent
    <3> QED
      BY <3>2, <3>3
  <2>5. ASSUME NEW s \in SUBSET T, s # T PROVE ft[s] = Of(s)
    <3>1. PICK it : Summed(it, v, s)
      BY <2>3, <2>5
    <3>2. it[s] = Of(s)
      BY <2>4, <2>5, <3>1
    <3>3. it[s] = IF s = {} THEN 0 ELSE v[Element(s)] + it[s \ {Element(s)}]
      BY <3>1 DEF Summed
    <3>4. s # {} => it[s \ {Element(s)}] = Of(s \ {Element(s)})
      BY <2>4, <2>5, <3>1
    <3> QED
      BY <2>b, <3>2, <3>3, <3>4
  <2>6. ASSUME NEW s \in SUBSET T
        PROVE  ft[s] = IF s = {} THEN 0 ELSE v[Element(s)] + ft[s \ {Element(s)}]
    <3>1. CASE s = {}
      BY <2>b, <3>1
    <3>2. CASE s # {}
      <4>1. Element(s) \in s
        BY <3>2, ElementOf
      <4>2. s \ {Element(s)} \in SUBSET T /\ s \ {Element(s)} # T
        BY <4>1
      <4>3. ft[s \ {Element(s)}] = Of(s \ {Element(s)})
        BY <2>5, <4>2
      <4>4. ft[s] = v[Element(s)] + Of(s \ {Element(s)})
        BY <2>b, <3>2
      <4> HIDE DEF Of
      <4> QED
        BY <3>2, <4>3, <4>4
    <3> QED
      BY <3>1, <3>2
  <2> HIDE DEF Of, F
  <2>7. ft = [s \in SUBSET T |-> IF s = {} THEN 0 ELSE v[Element(s)] + ft[s \ {Element(s)}]]
    BY <2>a, <2>6
  <2>8. Summed(ft, v, T)
    BY <2>7 DEF Summed
  <2> QED
    BY <2>2, <2>8
<1> QED
  BY <1>1

\* What is added up may be taken out in any order.
LEMMA SumRemoves ==
  ASSUME NEW S, IsFiniteSet(S), NEW v, \A x \in S : v[x] \in Nat, NEW it, Summed(it, v, S)
  PROVE  \A s \in SUBSET S : it[s] \in Nat /\ \A x \in s : it[s] = v[x] + it[s \ {x}]
<1>0. ASSUME NEW s \in SUBSET S
      PROVE  /\ s = {} => it[s] = 0
             /\ s # {} => it[s] = v[Element(s)] + it[s \ {Element(s)}] /\ Element(s) \in s
  BY <1>0, ElementOf DEF Summed
<1>1. \A s \in SUBSET S : it[s] \in Nat
  <2> DEFINE P == {s \in SUBSET S : it[s] \notin Nat}
  <2>1. ASSUME P # {} PROVE FALSE
    <3>1. P \subseteq SUBSET S
      OBVIOUS
    <3> HIDE DEF P
    <3>2. PICK s \in P : \A u \in P : u \subseteq s => u = s
      BY <2>1, <3>1, SmallestSubset
    <3> USE DEF P
    <3>3. s # {} /\ Element(s) \in s /\ it[s] = v[Element(s)] + it[s \ {Element(s)}]
      <4>1. s \in SUBSET S /\ it[s] \notin Nat
        BY <3>2
      <4>2. s # {}
        BY <1>0, <4>1
      <4> QED
        BY <1>0, <4>1, <4>2
    <3>4. s \ {Element(s)} \notin P
      BY <3>2, <3>3
    <3>5. it[s \ {Element(s)}] \in Nat /\ v[Element(s)] \in Nat
      BY <3>2, <3>3, <3>4
    <3> QED
      BY <3>2, <3>3, <3>5
  <2> QED
    BY <2>1
<1>2. \A s \in SUBSET S : \A x \in s : it[s] = v[x] + it[s \ {x}]
  <2> DEFINE P == {s \in SUBSET S : \E x \in s : it[s] # v[x] + it[s \ {x}]}
  <2>1. ASSUME P # {} PROVE FALSE
    <3>1. P \subseteq SUBSET S
      OBVIOUS
    <3> HIDE DEF P
    <3>2. PICK s \in P : \A u \in P : u \subseteq s => u = s
      BY <2>1, <3>1, SmallestSubset
    <3> USE DEF P
    <3>3. PICK x \in s : it[s] # v[x] + it[s \ {x}]
      BY <3>2
    <3>4. PICK c \in s : c = Element(s) /\ it[s] = v[c] + it[s \ {c}]
      BY <1>0, <3>2, <3>3
    <3>5. c # x
      BY <3>3, <3>4
    <3>6. s \ {c} \notin P /\ s \ {x} \notin P
      BY <3>2
    <3>7. s \ {c} \in SUBSET S /\ s \ {x} \in SUBSET S /\ x \in s \ {c} /\ c \in s \ {x}
      BY <3>2, <3>5
    <3>8. /\ it[s \ {c}] = v[x] + it[(s \ {c}) \ {x}]
          /\ it[s \ {x}] = v[c] + it[(s \ {x}) \ {c}]
      BY <3>6, <3>7
    <3>9. PICK u \in SUBSET S : u = (s \ {c}) \ {x} /\ u = (s \ {x}) \ {c}
      BY <3>2
    <3>10. it[u] \in Nat /\ v[x] \in Nat /\ v[c] \in Nat
      BY <1>1, <3>2
    <3>11. it[s] = v[c] + (v[x] + it[u]) /\ it[s \ {x}] = v[c] + it[u]
      BY <3>4, <3>8, <3>9
    <3> QED
      BY <3>3, <3>10, <3>11
  <2> QED
    BY <2>1
<1> QED
  BY <1>1, <1>2

\* The sum of v over S, and its laws.
Total(v, S) == CHOOSE n : \E it : Summed(it, v, S) /\ n = it[S]

LEMMA TotalIs ==
  ASSUME NEW S, IsFiniteSet(S), NEW T \in SUBSET S, NEW v, NEW it, Summed(it, v, S)
  PROVE  Total(v, T) = it[T]
<1>1. IsFiniteSet(T)
  BY FS_Subset
<1>2. \E jt : Summed(jt, v, T)
  BY <1>1, SumExists
<1>3. \A jt : Summed(jt, v, T) => jt[T] = it[T]
  BY <1>1, SumCongruent
<1> QED
  BY <1>2, <1>3 DEF Total

LEMMA TotalNat ==
  ASSUME NEW S, IsFiniteSet(S), NEW v, \A x \in S : v[x] \in Nat
  PROVE  Total(v, S) \in Nat
<1>1. PICK it : Summed(it, v, S)
  BY SumExists
<1>2. it[S] \in Nat
  BY <1>1, SumRemoves
<1> QED
  BY <1>1, <1>2, TotalIs

LEMMA TotalAdds ==
  ASSUME NEW S, IsFiniteSet(S), NEW v, \A x \in S : v[x] \in Nat, NEW y \in S
  PROVE  Total(v, S) = v[y] + Total(v, S \ {y})
<1>1. PICK it : Summed(it, v, S)
  BY SumExists
<1>2. it[S] = v[y] + it[S \ {y}]
  BY <1>1, SumRemoves
<1> QED
  BY <1>1, <1>2, TotalIs

LEMMA TotalSame ==
  ASSUME NEW S, IsFiniteSet(S), NEW v, NEW w, \A x \in S : v[x] = w[x]
  PROVE  Total(v, S) = Total(w, S)
<1>1. PICK it : Summed(it, v, S)
  BY SumExists
<1>2. PICK jt : Summed(jt, w, S)
  BY SumExists
<1>3. it[S] = jt[S]
  BY <1>1, <1>2, SumCongruent
<1> QED
  BY <1>1, <1>2, <1>3, TotalIs

\* It is what MapThenSumSet computes.
LEMMA TotalOfDocs ==
  ASSUME NEW S, IsFiniteSet(S), NEW docs, NEW v, \A x \in S : v[x] = docs[x].vram
  PROVE  MapThenSumSet(LAMBDA x : docs[x].vram, S) = Total(v, S)
<1> DEFINE Sums(it) == it = [s \in SUBSET S |-> IF s = {} THEN 0
                                               ELSE docs[CHOOSE x \in s : TRUE].vram + it[s \ {CHOOSE x \in s : TRUE}]]
<1>1. ASSUME NEW it PROVE Sums(it) <=> Summed(it, v, S)
  <2>1. \A s \in SUBSET S : s # {} => v[Element(s)] = docs[CHOOSE x \in s : TRUE].vram
    BY ElementOf DEF Element
  <2>2. [s \in SUBSET S |-> IF s = {} THEN 0
                            ELSE docs[CHOOSE x \in s : TRUE].vram + it[s \ {CHOOSE x \in s : TRUE}]]
        = [s \in SUBSET S |-> IF s = {} THEN 0 ELSE v[Element(s)] + it[s \ {Element(s)}]]
    BY <2>1 DEF Element
  <2> QED
    BY <2>2 DEF Summed
<1>2. \E it : Sums(it)
  BY <1>1, SumExists
<1>3. \E it : Sums(it) /\ MapThenSumSet(LAMBDA x : docs[x].vram, S) = it[S]
  BY <1>2 DEF MapThenSumSet, MapThenFoldSet
<1> HIDE DEF Sums
<1>4. PICK it : Sums(it) /\ MapThenSumSet(LAMBDA x : docs[x].vram, S) = it[S]
  BY <1>3
<1>5. it[S] = Total(v, S)
  BY <1>1, <1>4, TotalIs
<1> QED
  BY <1>4, <1>5, Zenon

-----------------------------------------------------------------------------
(* What is held of a GPU is asked for. *)

HeldOf(g) == gpus[g].vram - gpus[g].availableVRAM
Vrams == [r \in Requests |-> IF requests[r] \in RequestDoc THEN requests[r].vram ELSE 0]
Backed(g) == Total(Vrams, Claims(g))

\* While an approval is half saved, what it asks for is held already; while a
\* completion is, nothing is held any more: of the GPUs whose VRAM no
\* administrator has written.
Owes(f) ==
  \A g \in Gpus \ resized : Exists(gpus[g]) =>
    /\ f.pc = "saveRequest" /\ f.op = "completeGpuRequest" /\ f.g = g => HeldOf(g) <= 0
    /\ HeldOf(g) <= IF f.pc = "saveRequest" /\ f.op = "approveRequest" /\ f.g = g
                    THEN Backed(g) + f.doc.vram ELSE Backed(g)

\* The claims on a GPU are finitely many requests, and ask for numbers.
LEMMA ClaimsAdd ==
  ASSUME Tables, NEW g \in Gpus
  PROVE  /\ IsFiniteSet(Claims(g)) /\ Claims(g) \subseteq Requests
         /\ \A r \in Requests : Vrams[r] \in Nat
         /\ \A r \in Claims(g) : Vrams[r] = requests[r].vram
         /\ Backed(g) \in Nat
<1>1. IsFiniteSet(Claims(g)) /\ Claims(g) \subseteq Requests
  <2>1. Claims(g) \in SUBSET Requests
    BY DEF Claims
  <2> QED
    BY <2>1, FS_Subset, ConstantsAssumption
<1>2. \A r \in Requests : Vrams[r] \in Nat
  BY DEF Vrams, RequestDoc
<1>3. \A r \in Claims(g) : Vrams[r] = requests[r].vram
  BY DEF Claims, Approved, Vrams, Tables
<1>4. Total(Vrams, Claims(g)) \in Nat
  BY <1>1, <1>2, TotalNat
<1> QED
  BY <1>1, <1>2, <1>3, <1>4 DEF Backed

\* A step that leaves requests and GPUs alone, and half-saves nothing.
LEMMA OwesKept ==
  ASSUME requests' = requests, gpus' = gpus, resized' = resized, NEW f, NEW e, Owes(f), f.pc # "saveRequest",
         e.pc = "saveRequest" => e.op = "rejectRequest" \/ e.g \notin Gpus \/ ~Exists(gpus[e.g])
  PROVE  Owes(e)'
<1>1. Vrams' = Vrams /\ \A g \in Gpus : Claims(g)' = Claims(g)
  BY DEF Vrams, Claims, Approved
<1>2. \A g \in Gpus : Backed(g)' = Backed(g) /\ HeldOf(g)' = HeldOf(g)
  BY <1>1 DEF Backed, HeldOf
<1> HIDE DEF Backed, HeldOf
<1>3. \A g \in Gpus \ resized : Exists(gpus[g]) => HeldOf(g) <= Backed(g)
  BY DEF Owes
<1>4. \A g \in Gpus : Exists(gpus[g])' => Exists(gpus[g])
  OBVIOUS
<1>5. \A g \in Gpus : Exists(gpus[g]) /\ e.pc = "saveRequest" => e.op = "rejectRequest" \/ e.g # g
  OBVIOUS
<1> QED
  BY <1>2, <1>3, <1>4, <1>5 DEF Owes

\* A request that is written claims what it claimed, or nothing before and after.
LEMMA ClaimsKept ==
  ASSUME Tables, NEW r \in Requests, NEW new \in RequestDoc, requests' = [requests EXCEPT ![r] = new],
         NEW g \in Gpus,
         ~(Approved(r) /\ requests[r].gpu = g), ~(new.status = "APPROVED" /\ new.gpu = g)
  PROVE  Backed(g)' = Backed(g)
<1>0. requests \in [Requests -> RequestDoc \union {None}]
  BY DEF Tables
<1>1. \A q \in Requests \ {r} : requests'[q] = requests[q]
  BY <1>0
<1>2. requests'[r] = new /\ new # None
  BY <1>0, NoDocs
<1>3. Claims(g)' = Claims(g)
  <2>1. r \notin Claims(g) /\ r \notin Claims(g)'
    BY <1>2 DEF Claims, Approved
  <2>2. \A q \in Requests \ {r} : q \in Claims(g)' <=> q \in Claims(g)
    BY <1>1 DEF Claims, Approved
  <2>3. Claims(g) \subseteq Requests /\ Claims(g)' \subseteq Requests
    BY DEF Claims
  <2> QED
    BY <2>1, <2>2, <2>3
<1>4. \A q \in Claims(g) : q \in Requests /\ q # r
  BY DEF Claims
<1>5. \A q \in Claims(g) : Vrams'[q] = Vrams[q]
  BY <1>1, <1>4 DEF Vrams
<1>6. IsFiniteSet(Claims(g))
  BY ClaimsAdd
<1>7. Total(Vrams', Claims(g)) = Total(Vrams, Claims(g))
  BY <1>5, <1>6, TotalSame
<1> QED
  BY <1>3, <1>7 DEF Backed

\* A request that is approved adds what it asks for.
LEMMA ClaimsGrow ==
  ASSUME Tables, NEW r \in Requests, NEW new \in RequestDoc, requests' = [requests EXCEPT ![r] = new],
         NEW g \in Gpus, ~Approved(r), new.status = "APPROVED", new.gpu = g
  PROVE  Backed(g)' = Backed(g) + new.vram
<1>0. requests \in [Requests -> RequestDoc \union {None}]
  BY DEF Tables
<1>1. \A q \in Requests \ {r} : requests'[q] = requests[q]
  BY <1>0
<1>2. requests'[r] = new /\ new # None
  BY <1>0, NoDocs
<1>3. r \notin Claims(g) /\ Claims(g)' = Claims(g) \union {r}
  <2>1. r \notin Claims(g) /\ r \in Claims(g)'
    BY <1>2 DEF Claims, Approved
  <2>2. \A q \in Requests \ {r} : q \in Claims(g)' <=> q \in Claims(g)
    BY <1>1 DEF Claims, Approved
  <2>3. Claims(g) \subseteq Requests /\ Claims(g)' \subseteq Requests
    BY DEF Claims
  <2> QED
    BY <2>1, <2>2, <2>3
<1>4. PICK S : S = Claims(g)
  OBVIOUS
<1>5. PICK v : v = Vrams'
  OBVIOUS
<1>6. \A q \in S : q \in Requests /\ q # r
  BY <1>3, <1>4 DEF Claims
<1>7. \A q \in S : v[q] = Vrams[q]
  BY <1>1, <1>5, <1>6 DEF Vrams
<1>8. /\ IsFiniteSet(S) /\ r \notin S
      /\ \A q \in Requests : Vrams[q] \in Nat
  BY <1>3, <1>4, ClaimsAdd
<1>9. v[r] = new.vram /\ new.vram \in Nat
  BY <1>2, <1>5 DEF Vrams, RequestDoc
<1>10. IsFiniteSet(S \union {r})
  BY <1>8, FS_AddElement
<1>11. \A q \in S \union {r} : v[q] \in Nat
  BY <1>6, <1>7, <1>8, <1>9
<1>12. Total(v, S \union {r}) = v[r] + Total(v, (S \union {r}) \ {r})
  BY <1>10, <1>11, TotalAdds
<1>13. (S \union {r}) \ {r} = S
  BY <1>8
<1>14. Total(v, S) = Total(Vrams, S)
  BY <1>7, <1>8, TotalSame
<1>15. Backed(g) = Total(Vrams, S) /\ Backed(g)' = Total(v, S \union {r})
  BY <1>3, <1>4, <1>5 DEF Backed
<1>16. Total(Vrams, S) \in Nat
  BY <1>4, <1>15, ClaimsAdd
<1>17. Total(v, S \union {r}) = new.vram + Total(Vrams, S)
  BY <1>9, <1>12, <1>13, <1>14
<1> QED
  BY <1>9, <1>15, <1>16, <1>17

\* The GPU is saved first.
LEMMA SaveGpuOwes ==
  ASSUME Inv, Inv', NEW h \in Handlers, Current(frames[h]), Owes(frames[h]), SaveGpu(h)
  PROVE  Owes(frames[h])'
<1>0. frames \in [Handlers -> Frame] /\ gpus \in [Gpus -> ResourceDoc \union {None, Gone}]
  BY DEF Inv, Tables
<1>1. PICK f \in Frame : f = frames[h] /\ Knows(f) /\ Current(f) /\ Owes(f)
  BY <1>0 DEF Inv
<1>2. /\ f.pc = "saveGpu" /\ requests' = requests /\ resized' = resized
      /\ f.g \in Gpus /\ f.op \in {"approveRequest", "completeGpuRequest"} /\ Held(f)
      /\ f.gpu \in ResourceDoc /\ (f.g \notin resized => f.gpu.availableVRAM \in 0 .. f.gpu.vram)
  BY <1>1 DEF SaveGpu, Knows, Stages, Held, Deciding
<1>3. gpus[f.g] = f.gpu /\ Exists(f.gpu)
  BY <1>1, <1>2, NoDocs, ExistingIsDoc DEF Current
<1>4. PICK n : n = NewGpu(f)
  OBVIOUS
<1>5. /\ n \in ResourceDoc /\ n.vram = f.gpu.vram
      /\ n.availableVRAM = IF f.op = "approveRequest" THEN Left(f.gpu, f.doc.vram) ELSE f.gpu.vram
  BY <1>2, <1>4, ResourceMade DEF Held
<1>6. PICK new : new = Saved(f.gpu, f.gpu, n)
  OBVIOUS
<1>7. new \in ResourceDoc /\ new.vram = f.gpu.vram /\ new.availableVRAM = n.availableVRAM
  BY <1>2, <1>5, <1>6, ResourceSaved
<1>8. gpus' = [gpus EXCEPT ![f.g] = new] /\ Goto(h, "saveRequest")
  BY <1>1, <1>3, <1>4, <1>6 DEF SaveGpu
<1>9. PICK e : e = [f EXCEPT !.pc = "saveRequest"]
  OBVIOUS
<1>10. frames'[h] = e /\ e.pc = "saveRequest" /\ e.op = f.op /\ e.g = f.g /\ e.doc = f.doc
  BY <1>0, <1>1, <1>8, <1>9 DEF Goto, Frame
<1>11. /\ f.doc.vram \in Nat /\ f.gpu.vram \in Nat
       /\ f.g \notin resized => f.gpu.availableVRAM \in Nat
  BY <1>2 DEF Held, RequestDoc, ResourceDoc
<1>12. ASSUME NEW g \in Gpus \ resized, Exists(gpus'[g])
       PROVE  /\ f.op = "completeGpuRequest" /\ f.g = g => HeldOf(g)' <= 0
              /\ HeldOf(g)' <= IF f.op = "approveRequest" /\ f.g = g
                               THEN Backed(g)' + f.doc.vram ELSE Backed(g)'
  <2>1. Vrams' = Vrams /\ Claims(g)' = Claims(g)
    BY <1>2 DEF Vrams, Claims, Approved
  <2>2. PICK b \in Nat : b = Backed(g) /\ b = Backed(g)'
    BY <2>1, ClaimsAdd DEF Inv, Backed
  <2>3. CASE g # f.g
    <3>1. gpus'[g] = gpus[g] /\ Exists(gpus[g])
      BY <1>0, <1>8, <1>12, <2>3
    <3>2. HeldOf(g) <= b
      BY <1>1, <1>2, <2>2, <3>1 DEF Owes
    <3> QED
      BY <2>2, <2>3, <3>1, <3>2 DEF HeldOf
  <2>4. CASE g = f.g
    <3>1. HeldOf(g)' = new.vram - new.availableVRAM
      BY <1>0, <1>8, <2>4 DEF HeldOf
    <3>2. CASE f.op = "completeGpuRequest"
      <4>1. HeldOf(g)' = 0
        BY <1>5, <1>7, <1>11, <3>1, <3>2
      <4> QED
        BY <2>2, <3>2, <4>1
    <3>3. CASE f.op = "approveRequest"
      <4>1. f.gpu.vram - f.gpu.availableVRAM <= b
        BY <1>1, <1>2, <1>3, <2>2, <2>4 DEF Owes, HeldOf
      <4>2. Left(f.gpu, f.doc.vram) >= f.gpu.availableVRAM - f.doc.vram /\ Left(f.gpu, f.doc.vram) \in Nat
        BY <1>11, <1>12, <2>4 DEF Left
      <4>3. HeldOf(g)' = f.gpu.vram - Left(f.gpu, f.doc.vram)
        BY <1>5, <1>7, <3>1, <3>3
      <4>4. HeldOf(g)' <= b + f.doc.vram
        BY <1>11, <1>12, <2>4, <4>1, <4>2, <4>3
      <4> QED
        BY <2>2, <2>4, <3>3, <4>4
    <3> QED
      BY <1>2, <3>2, <3>3
  <2> QED
    BY <2>3, <2>4
<1>13. Owes(e)'
  BY <1>2, <1>10, <1>12 DEF Owes
<1> QED
  BY <1>10, <1>13

\* Then the request: the books are even again, and nothing is promised twice.
LEMMA SaveRequestOwes ==
  ASSUME Inv, Inv', NEW h \in Handlers, Current(frames[h]), Owes(frames[h]), NoOverlap, SaveRequest(h)
  PROVE  Owes(frames[h])' /\ NoOverlap'
<1>0. /\ frames \in [Handlers -> Frame] /\ Tables
      /\ requests \in [Requests -> RequestDoc \union {None}]
      /\ gpus \in [Gpus -> ResourceDoc \union {None, Gone}]
  BY DEF Inv, Tables
<1>1. PICK f \in Frame : f = frames[h] /\ Knows(f) /\ Current(f) /\ Owes(f)
  BY <1>0 DEF Inv
<1>2. /\ f.pc = "saveRequest" /\ gpus' = gpus /\ resized' = resized
      /\ f.r \in Requests /\ f.by \in Users /\ f.op \in Deciding /\ Held(f)
      /\ f.op = "approveRequest" => f.g \in Gpus
  BY <1>1 DEF SaveRequest, Knows, Stages, Held
<1>3. PICK doc \in RequestDoc : doc = f.doc /\ doc = requests[f.r] /\ doc.status = DecidedFrom(f.op)
  BY <1>1, <1>2, NoDocs DEF Current, Held
<1>4. PICK n : n = NewRequest(f)
  OBVIOUS
<1>5. /\ n \in RequestDoc /\ n.status = NewStatus(f.op)
      /\ n.gpu = IF f.op = "approveRequest" THEN f.g ELSE doc.gpu
      /\ n.vram = doc.vram /\ n.start = doc.start /\ n.end = doc.end
  BY <1>2, <1>3, <1>4, RequestMade
<1>6. PICK new : new = Saved(doc, doc, n)
  OBVIOUS
<1>7. /\ new \in RequestDoc /\ new.status = NewStatus(f.op) /\ new.gpu = n.gpu /\ new.vram = doc.vram
      /\ new.start = doc.start /\ new.end = doc.end
  BY <1>3, <1>5, <1>6, RequestSaved
<1>8. requests' = [requests EXCEPT ![f.r] = new]
  BY <1>1, <1>3, <1>4, <1>6 DEF SaveRequest
<1>9. frames'[h].pc \in {"log", "announce"}
  BY <1>0, <1>1 DEF SaveRequest, Goto, Frame
<1>10. /\ f.op = "approveRequest" => doc.status = "PENDING" /\ new.status = "APPROVED"
       /\ f.op = "rejectRequest" => doc.status = "PENDING" /\ new.status = "REJECTED"
       /\ f.op = "completeGpuRequest" => new.status = "COMPLETED" /\ f.g = doc.gpu
  BY <1>1, <1>2, <1>3, <1>7 DEF DecidedFrom, NewStatus, Current
<1>11. doc # None /\ new # None
  BY <1>7, NoDocs
<1>12. ASSUME NEW g \in Gpus \ resized, Exists(gpus[g]) PROVE HeldOf(g) <= Backed(g)'
  <2>1. Backed(g) \in Nat
    BY <1>0, ClaimsAdd
  <2>2. HeldOf(g) \in Int
    <3>1. gpus[g] \in ResourceDoc
      BY <1>0, <1>12, ExistingIsDoc
    <3> QED
      BY <3>1 DEF HeldOf, ResourceDoc
  <2>3. CASE f.op = "approveRequest" /\ f.g = g
    <3>1. HeldOf(g) <= Backed(g) + doc.vram
      BY <1>1, <1>2, <1>3, <1>12, <2>3 DEF Owes
    <3>2. Backed(g)' = Backed(g) + doc.vram
      <4>1. ~Approved(f.r)
        BY <1>3, <1>10, <2>3 DEF Approved
      <4>2. new.gpu = g
        BY <1>5, <1>7, <2>3
      <4>3. Backed(g)' = Backed(g) + new.vram
        BY <1>0, <1>2, <1>7, <1>8, <1>10, <2>3, <4>1, <4>2, ClaimsGrow
      <4> QED
        BY <1>7, <4>3
    <3> QED
      BY <3>1, <3>2
  <2>4. CASE f.op = "completeGpuRequest" /\ f.g = g
    <3>1. HeldOf(g) <= 0
      BY <1>1, <1>2, <1>12, <2>4 DEF Owes
    <3>2. PICK S, v : S = Claims(g)' /\ v = Vrams'
      OBVIOUS
    <3>3. S \in SUBSET Requests /\ \A q \in Requests : v[q] \in Nat
      BY <3>2 DEF Claims, Vrams, RequestDoc
    <3>4. IsFiniteSet(S)
      BY <3>3, FS_Subset, ConstantsAssumption
    <3>5. Total(v, S) \in Nat
      BY <3>3, <3>4, TotalNat
    <3>6. Backed(g)' = Total(v, S)
      BY <3>2 DEF Backed
    <3> QED
      BY <2>2, <3>1, <3>5, <3>6
  <2>5. CASE ~(f.op = "approveRequest" /\ f.g = g) /\ ~(f.op = "completeGpuRequest" /\ f.g = g)
    <3>1. ~(Approved(f.r) /\ requests[f.r].gpu = g)
      BY <1>2, <1>3, <1>10, <2>5 DEF Approved, Deciding
    <3>2. ~(new.status = "APPROVED" /\ new.gpu = g)
      BY <1>2, <1>5, <1>7, <1>10, <2>5 DEF Deciding
    <3>3. Backed(g)' = Backed(g)
      BY <1>0, <1>2, <1>7, <1>8, <3>1, <3>2, ClaimsKept
    <3>4. HeldOf(g) <= Backed(g)
      BY <1>1, <1>12, <2>5 DEF Owes
    <3> QED
      BY <2>1, <2>2, <3>3, <3>4
  <2> QED
    BY <2>3, <2>4, <2>5
<1>13. Owes(frames[h])'
  <2>1. ASSUME NEW g \in Gpus \ resized, Exists(gpus'[g]) PROVE HeldOf(g)' <= Backed(g)'
    BY <1>2, <1>12, <2>1 DEF HeldOf
  <2> QED
    BY <1>2, <1>9, <2>1 DEF Owes
<1>14. NoOverlap'
  <2>1. \A q \in Requests \ {f.r} : requests'[q] = requests[q]
    BY <1>0, <1>8
  <2>2. requests'[f.r] = new
    BY <1>0, <1>2, <1>8
  <2>3. CASE f.op = "approveRequest"
    <3>1. ASSUME NEW q \in Requests \ {f.r}, requests[q] # None, requests[q].gpu = f.g, requests[q].status = "APPROVED"
          PROVE  ~Overlaps(requests[q], new) /\ ~Overlaps(new, requests[q])
      <4>1. ~Overlaps(requests[q], doc)
        BY <1>1, <1>2, <1>3, <2>3, <3>1 DEF Current, HasConflict
      <4>2. requests[q] \in RequestDoc
        BY <1>0, <3>1
      <4> QED
        BY <1>3, <1>7, <4>1, <4>2 DEF Overlaps, RequestDoc
    <3>2. new.gpu = f.g
      BY <1>5, <1>7, <2>3
    <3> QED
      BY <2>1, <2>2, <3>1, <3>2 DEF NoOverlap, Approved
  <2>4. CASE f.op # "approveRequest"
    <3>1. new.status # "APPROVED"
      BY <1>2, <1>10, <2>4 DEF Deciding
    <3> QED
      BY <2>1, <2>2, <3>1 DEF NoOverlap, Approved
  <2> QED
    BY <2>3, <2>4
<1> QED
  BY <1>13, <1>14

\* What arrives and what reads changes nothing that is held or asked for.
LEMMA LoadOwes ==
  ASSUME Inv, NEW h \in Handlers, Owes(frames[h]), Load(h)
  PROVE  Owes(frames[h])'
<1>0. frames \in [Handlers -> Frame]
  BY DEF Inv
<1>1. PICK f \in Frame : f = frames[h] /\ Knows(f) /\ Owes(f)
  BY <1>0 DEF Inv
<1>2. requests' = requests /\ gpus' = gpus /\ resized' = resized /\ f.pc # "saveRequest"
  BY <1>1 DEF Load, LoadBoth, CheckApproval, LoadRequest, LoadGpu, data
<1>3. PICK e : e = frames'[h]
  OBVIOUS
<1>4. CASE LoadBoth(h)
  <2>1. e.pc \in {"load", "check"}
    BY <1>0, <1>3, <1>4 DEF LoadBoth, Frame
  <2> QED
    BY <1>1, <1>2, <1>3, <2>1, OwesKept
<1>5. CASE CheckApproval(h)
  <2>1. (\E status : Answer(h, status)) \/ Goto(h, "saveGpu")
    <3>1. CASE f.doc = None
      BY <1>1, <1>5, <3>1 DEF CheckApproval
    <3>2. CASE f.doc # None /\ f.doc.status # "PENDING"
      BY <1>1, <1>5, <3>2 DEF CheckApproval
    <3>3. CASE f.doc # None /\ f.doc.status = "PENDING"
      BY <1>1, <1>5, <3>3 DEF CheckApproval
    <3> QED
      BY <3>1, <3>2, <3>3
  <2>2. e.pc \in {"answered", "saveGpu"}
    BY <1>0, <1>3, <2>1, AnswersUnread DEF Goto, Frame
  <2> QED
    BY <1>1, <1>2, <1>3, <2>2, OwesKept
<1>6. CASE LoadRequest(h)
  <2>1. CASE \E status : Answer(h, status)
    <3>1. e.pc = "answered"
      BY <1>0, <1>3, <2>1, AnswersUnread
    <3> QED
      BY <1>1, <1>2, <1>3, <3>1, OwesKept
  <2>2. CASE ~\E status : Answer(h, status)
    <3>1. PICK doc, g, pc :
            /\ doc = requests[f.r]
            /\ g = IF f.op = "completeGpuRequest" THEN doc.gpu ELSE None
            /\ pc = IF f.op = "completeGpuRequest" /\ doc.gpu # None THEN "loadGpu" ELSE "saveRequest"
      OBVIOUS
    <3>2. e.pc = pc /\ e.g = g /\ e.op = f.op
      <4>1. frames' = [frames EXCEPT ![h].doc = doc, ![h].g = g, ![h].pc = pc]
        BY <1>1, <1>6, <2>2, <3>1 DEF LoadRequest
      <4> QED
        BY <1>0, <1>1, <1>3, <4>1 DEF Frame
    <3>3. f.op \in {"rejectRequest", "completeGpuRequest"}
      BY <1>1, <1>6 DEF LoadRequest, Knows, Deciding
    <3>4. e.pc = "saveRequest" => e.op = "rejectRequest" \/ e.g \notin Gpus
      BY <3>1, <3>2, <3>3, ConstantsAssumption
    <3> QED
      BY <1>1, <1>2, <1>3, <3>4, OwesKept
  <2> QED
    BY <2>1, <2>2
<1>7. CASE LoadGpu(h)
  <2>1. PICK gpu : frames' = [frames EXCEPT ![h].gpu = gpu,
                                            ![h].pc = IF Exists(gpus[f.g]) THEN "saveGpu" ELSE "saveRequest"]
    BY <1>1, <1>7 DEF LoadGpu
  <2>2. e.g = f.g /\ (e.pc = "saveRequest" => ~Exists(gpus[f.g]))
    BY <1>0, <1>1, <1>3, <2>1 DEF Frame
  <2> QED
    BY <1>1, <1>2, <1>3, <2>2, OwesKept
<1> QED
  BY <1>4, <1>5, <1>6, <1>7 DEF Load

LEMMA TellOwes ==
  ASSUME Inv, NEW h \in Handlers, Owes(frames[h]), Announce(h) \/ Log(h)
  PROVE  Owes(frames[h])'
<1>0. frames \in [Handlers -> Frame]
  BY DEF Inv
<1>1. PICK f : f = frames[h] /\ Owes(f)
  OBVIOUS
<1>2. requests' = requests /\ gpus' = gpus /\ resized' = resized /\ f.pc # "saveRequest"
  BY <1>1 DEF Announce, Log
<1>3. PICK e : e = frames'[h]
  OBVIOUS
<1>4. (\E status : Answer(h, status)) \/ Goto(h, "log")
  BY DEF Announce, Log
<1>5. e.pc \in {"answered", "log"}
  BY <1>0, <1>3, <1>4, AnswersUnread DEF Goto, Frame
<1> QED
  BY <1>1, <1>2, <1>3, <1>5, OwesKept

\* So it is with a faculty member who begins, an administrator of GPUs, and a
\* student who asks.
LEMMA ArriveOwes ==
  ASSUME Inv, NEW h \in Handlers, Owes(frames[h]), NoOverlap, Vacant(h),
         updateGpuResource(h) \/ deleteGpuResource(h) \/ Request(h)
  PROVE  Owes(frames[h])' /\ NoOverlap'
<1>0. /\ frames \in [Handlers -> Frame] /\ Tables
      /\ requests \in [Requests -> RequestDoc \union {None}]
      /\ gpus \in [Gpus -> ResourceDoc \union {None, Gone}]
  BY DEF Inv, Tables
<1>1. PICK f : f = frames[h] /\ Owes(f)
  OBVIOUS
<1>2. f.pc # "saveRequest"
  BY <1>1 DEF Vacant, InFlight
<1>3. PICK e : e = frames'[h]
  OBVIOUS
<1>4. e.pc \in {"answered", "load", "log"}
  BY <1>0, <1>3, ArrivesUnread DEF Arrive, Resource
<1>5. CASE UNCHANGED <<requests, gpus, resized>>
  <2>1. Owes(e)'
    BY <1>1, <1>2, <1>4, <1>5, OwesKept
  <2> QED
    BY <1>3, <1>5, <2>1 DEF NoOverlap, Approved
<1>6. CASE updateGpuResource(h) \/ deleteGpuResource(h)
  <2>1. requests' = requests
    BY <1>6 DEF updateGpuResource, deleteGpuResource
  <2>2. ASSUME NEW g \in Gpus \ resized', Exists(gpus'[g])
        PROVE  g \notin resized /\ Exists(gpus[g]) /\ HeldOf(g)' = HeldOf(g)
    <3>1. CASE updateGpuResource(h)
      <4>1. PICK body \in Bodies, into \in SUBSET Gpus :
              /\ \A x \in into : Exists(gpus[x])
              /\ gpus' = [x \in Gpus |-> IF x \in into THEN Written(gpus[x], body) ELSE gpus[x]]
              /\ resized' = IF DOMAIN body \subseteq {"status"} THEN resized ELSE resized \union into
        <5>1. PICK x \in Gpus \union Malformed, body \in Bodies, into \in SUBSET Gpus :
                /\ into = {y \in Gpus : y = x /\ Exists(gpus[y]) /\ Validated(body)}
                /\ gpus' = [y \in Gpus |-> IF y \in into THEN Written(gpus[y], body) ELSE gpus[y]]
                /\ resized' = IF DOMAIN body \subseteq {"status"} THEN resized ELSE resized \union into
          BY <3>1 DEF updateGpuResource
        <5> QED
          BY <5>1
      <4>2. CASE g \in into
        <5>1. /\ gpus[g] \in ResourceDoc /\ gpus'[g] = Written(gpus[g], body)
              /\ DOMAIN body \subseteq {"status"} /\ g \notin resized
          BY <1>0, <2>2, <4>1, <4>2, ExistingIsDoc
        <5>2. gpus'[g].vram = gpus[g].vram /\ gpus'[g].availableVRAM = gpus[g].availableVRAM
          BY <5>1, PatchWritten, ConstantsAssumption
        <5> QED
          BY <4>1, <4>2, <5>1, <5>2 DEF HeldOf
      <4>3. CASE g \notin into
        <5>1. gpus'[g] = gpus[g] /\ g \notin resized
          BY <2>2, <4>1, <4>3
        <5> QED
          BY <2>2, <5>1 DEF HeldOf
      <4> QED
        BY <4>2, <4>3
    <3>2. CASE deleteGpuResource(h)
      <4>1. PICK x : /\ gpus' = [y \in Gpus |-> IF y = x /\ Exists(gpus[y]) THEN Gone ELSE gpus[y]]
                     /\ resized' = resized
        BY <3>2 DEF deleteGpuResource
      <4>2. gpus'[g] = gpus[g]
        BY <2>2, <4>1 DEF Exists
      <4> QED
        BY <2>2, <4>1, <4>2 DEF HeldOf
    <3> QED
      BY <1>6, <3>1, <3>2
  <2>3. \A g \in Gpus : Backed(g)' = Backed(g)
    BY <2>1 DEF Backed, Vrams, Claims, Approved
  <2>4. ASSUME NEW g \in Gpus \ resized', Exists(gpus'[g]) PROVE HeldOf(g)' <= Backed(g)'
    <3>1. HeldOf(g) <= Backed(g)
      BY <1>1, <1>2, <2>2, <2>4 DEF Owes
    <3> QED
      BY <2>2, <2>3, <2>4, <3>1
  <2>5. Owes(frames[h])'
    BY <1>3, <1>4, <2>4 DEF Owes
  <2> QED
    BY <2>1, <2>5 DEF NoOverlap, Approved
<1>7. CASE Request(h) /\ ~UNCHANGED <<requests, gpus, resized>>
  <2>1. PICK r, by, d, g, new :
          /\ r \in Requests /\ by \in Users /\ d \in Details
          /\ g \in Gpus \union {None} \union Malformed
          /\ requests[r] = None /\ requests' = [requests EXCEPT ![r] = new]
          /\ gpus' = gpus /\ resized' = resized
          /\ new = [user |-> by, gpu |-> g, vram |-> d.vram, start |-> d.start, end |-> d.end,
                    status |-> "PENDING", faculty |-> None]
          /\ g \notin Malformed
    BY <1>7 DEF Request, createGpuRequest, approveRequest, decideRequest, data
  <2>2. new \in RequestDoc
    <3>1. d \in [start : Nat, end : Nat, vram : Nat]
      BY <2>1, ConstantsAssumption
    <3> QED
      BY <2>1, <3>1 DEF RequestDoc, Statuses
  <2>3. new.status = "PENDING" /\ ~Approved(r)
    BY <2>1 DEF Approved
  <2>4. \A x \in Gpus : Backed(x)' = Backed(x)
    BY <1>0, <2>1, <2>2, <2>3, ClaimsKept
  <2>5. ASSUME NEW x \in Gpus \ resized', Exists(gpus'[x]) PROVE HeldOf(x)' <= Backed(x)'
    <3>1. HeldOf(x) <= Backed(x)
      BY <1>1, <1>2, <2>1, <2>5 DEF Owes
    <3>2. HeldOf(x)' = HeldOf(x)
      BY <2>1 DEF HeldOf
    <3> QED
      BY <2>4, <3>1, <3>2
  <2>6. Owes(frames[h])'
    BY <1>3, <1>4, <2>5 DEF Owes
  <2>7. NoOverlap'
    <3>1. requests'[r] = new /\ \A q \in Requests \ {r} : requests'[q] = requests[q]
      BY <1>0, <2>1
    <3> QED
      BY <2>3, <3>1 DEF NoOverlap, Approved
  <2> QED
    BY <2>6, <2>7
<1> QED
  BY <1>5, <1>6, <1>7

-----------------------------------------------------------------------------
(* The instance's part that decides one at a time. *)

SerialInv ==
  part = "serial" =>
    /\ OneAtATime /\ faults = 0 /\ NoOverlap
    /\ \A h \in Handlers : Alone(h) => Owes(frames[h])

LEMMA SerialInvStep ==
  ASSUME Inv, Inv', SerialInv, [PartsNext]_<<vars, part>>
  PROVE  SerialInv'
<1>1. CASE UNCHANGED <<vars, part>>
  <2>1. UNCHANGED <<requests, gpus, resized, frames, faults, part>>
    BY <1>1 DEF vars, data, counts
  <2> QED
    BY <2>1 DEF SerialInv, OneAtATime, Current, HasConflict, NoOverlap, Approved, Alone, Owes, HeldOf, Backed,
                Vrams, Claims
<1>2. CASE PartsNext /\ part = "serial" /\ WindowEnds
  <2>1. UNCHANGED <<requests, gpus, resized, frames, faults, part>>
    BY <1>2 DEF PartsNext, WindowEnds, data
  <2> QED
    BY <2>1 DEF SerialInv, OneAtATime, Current, HasConflict, NoOverlap, Approved, Alone, Owes, HeldOf, Backed,
                Vrams, Claims
<1>3. CASE PartsNext /\ part = "serial" /\ ~WindowEnds
  <2>1. part' = "serial" /\ faults' = 0
    BY <1>3 DEF PartsNext, Within
  <2>2. OneAtATime /\ faults = 0 /\ NoOverlap
    BY <1>3 DEF SerialInv
  <2>3. ~Crash /\ \A h \in Handlers : ~Fail(h)
    BY <2>1, <2>2 DEF Crash, Fail
  <2>4. PICK h \in Usable : \/ Vacant(h) /\ (updateGpuResource(h) \/ deleteGpuResource(h) \/ Request(h))
                            \/ Proceed(h)
    BY <1>3, <2>3 DEF PartsNext
  <2>5. h \in Handlers /\ Alone(h)
    BY <1>3, <2>4 DEF Usable, Alone
  <2>6. Arrive(h) \/ Proceed(h)
    BY <2>4 DEF Arrive, Resource
  <2>7. OneAtATime'
    BY <2>2, <2>5, <2>6, OneAtATimeStep
  <2>8. Owes(frames[h]) /\ Current(frames[h])
    BY <1>3, <2>2, <2>5 DEF SerialInv, OneAtATime
  <2>9. Owes(frames[h])' /\ NoOverlap'
    <3>1. CASE Vacant(h) /\ (updateGpuResource(h) \/ deleteGpuResource(h) \/ Request(h))
      BY <2>2, <2>5, <2>8, <3>1, ArriveOwes
    <3>2. CASE Load(h)
      <4>1. requests' = requests
        BY <3>2 DEF Load, LoadBoth, CheckApproval, LoadRequest, LoadGpu, data
      <4> QED
        BY <2>2, <2>5, <2>8, <3>2, <4>1, LoadOwes DEF NoOverlap, Approved
    <3>3. CASE SaveGpu(h)
      <4>1. requests' = requests
        BY <3>3 DEF SaveGpu
      <4> QED
        BY <2>2, <2>5, <2>8, <3>3, <4>1, SaveGpuOwes DEF NoOverlap, Approved
    <3>4. CASE SaveRequest(h)
      BY <2>2, <2>5, <2>8, <3>4, SaveRequestOwes
    <3>5. CASE Announce(h) \/ Log(h)
      <4>1. requests' = requests
        BY <3>5 DEF Announce, Log
      <4> QED
        BY <2>2, <2>5, <2>8, <3>5, <4>1, TellOwes DEF NoOverlap, Approved
    <3> QED
      BY <2>3, <2>4, <2>5, <3>1, <3>2, <3>3, <3>4, <3>5 DEF Proceed, Save
  <2>10. ASSUME NEW k \in Handlers, Alone(k)' PROVE Owes(frames[k])'
    <3>1. CASE k = h
      BY <2>9, <3>1
    <3>2. CASE k # h
      <4>1. frames'[h] = Idle
        BY <2>5, <2>10, <3>2 DEF Alone
      <4>2. frames'[k] = Idle
        BY <2>5, <2>6, <3>2, OneMoves DEF Alone, Inv
      <4>3. PICK e : e = frames'[h] /\ e = frames'[k]
        BY <4>1, <4>2
      <4>4. Owes(e)'
        BY <2>9, <4>3
      <4> QED
        BY <4>3, <4>4
    <3> QED
      BY <3>1, <3>2
  <2> QED
    BY <2>1, <2>7, <2>9, <2>10 DEF SerialInv
<1>4. CASE PartsNext /\ part # "serial"
  BY <1>4 DEF PartsNext, SerialInv
<1> QED
  BY <1>1, <1>2, <1>3, <1>4

LEMMA SerialInvInit == ASSUME PartsInit PROVE SerialInv
<1>1. NoOverlap
  BY DEF PartsInit, Init, NoOverlap, Approved
<1>2. Inv /\ OneAtATime /\ faults = 0
  BY InvInit, OneAtATimeInit DEF PartsInit, Init
<1>3. ASSUME NEW g \in Gpus, Exists(gpus[g]) PROVE HeldOf(g) <= Backed(g)
  <2>1. PICK vram \in Sizes : gpus[g] = NewResource(vram, "Available")
    BY <1>3 DEF PartsInit, Init, Exists
  <2>2. vram \in Nat
    BY ConstantsAssumption
  <2>3. HeldOf(g) = 0
    BY <2>1, <2>2 DEF HeldOf, NewResource
  <2>4. Backed(g) \in Nat
    BY <1>2, ClaimsAdd DEF Inv
  <2> QED
    BY <2>3, <2>4
<1>4. \A h \in Handlers : frames[h].pc = "idle"
  BY DEF PartsInit, Init, Idle
<1> QED
  BY <1>1, <1>2, <1>3, <1>4 DEF SerialInv, Owes

LEMMA SerialInvAddsUp == ASSUME Inv, SerialInv PROVE DecisionsAddUp
<1>1. ASSUME part = "serial", \A h \in Handlers : ~InFlight(h), NEW g \in Gpus \ resized, Exists(gpus[g])
      PROVE  gpus[g].vram - gpus[g].availableVRAM <= MapThenSumSet(LAMBDA r : requests[r].vram, Claims(g))
  <2>1. PICK h \in Handlers : Alone(h)
    <3>1. PICK h \in Handlers : TRUE
      BY ConstantsAssumption
    <3>2. CASE \A k \in Handlers : frames[k] = Idle
      BY <3>1, <3>2 DEF Alone
    <3>3. CASE \E k \in Handlers : frames[k] # Idle
      BY <1>1, <3>3 DEF SerialInv, OneAtATime, Alone
    <3> QED
      BY <3>2, <3>3
  <2>2. frames[h].pc # "saveRequest"
    BY <1>1 DEF InFlight
  <2>3. HeldOf(g) <= Backed(g)
    BY <1>1, <2>1, <2>2 DEF SerialInv, Owes
  <2>4. IsFiniteSet(Claims(g)) /\ \A r \in Claims(g) : Vrams[r] = requests[r].vram
    BY ClaimsAdd DEF Inv
  <2>5. MapThenSumSet(LAMBDA r : requests[r].vram, Claims(g)) = Total(Vrams, Claims(g))
    BY <2>4, TotalOfDocs, Zenon
  <2> QED
    BY <2>3, <2>5, Zenon DEF HeldOf, Backed
<1> QED
  BY <1>1, Zenon DEF DecisionsAddUp, HeldIsBacked, SerialInv

\* One decision at a time, and administrators of GPUs between them: no two
\* approved requests claim one GPU at overlapping times, and between requests
\* no more of it is held than they ask for (approveRequest, rejectRequest and
\* completeGpuRequest, as long as no statement fails), of a GPU whose VRAM no
\* administrator has written (updateGpuResource).
THEOREM DecisionsAddUpCorrect == PartsSpec => []DecisionsAddUp
<1>1. PartsInit => Inv /\ SerialInv
  BY InvInit, SerialInvInit DEF PartsInit
<1>2. Inv /\ SerialInv /\ [PartsNext]_<<vars, part>> => Inv' /\ SerialInv'
  <2>1. Inv /\ [PartsNext]_<<vars, part>> => [Next]_vars
    BY PartsStep
  <2> QED
    BY <2>1, InvStep, SerialInvStep
<1>3. Inv /\ SerialInv => DecisionsAddUp
  BY SerialInvAddsUp
<1> QED
  BY <1>1, <1>2, <1>3, PTL DEF PartsSpec
=============================================================================
