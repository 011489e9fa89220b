-------------------------- MODULE LegacyAllocation --------------------------
(***************************************************************************)
(* GPU requests and GPU resources of the legacy backend.  MongoDB gives no *)
(* transaction here ("Transactions removed to support standalone MongoDB   *)
(* instances"): a handler reads documents into memory, decides, and saves  *)
(* them one after the other, and other handlers run at every await.        *)
(*                                                                         *)
(* document.save() writes the paths that were changed since the document   *)
(* was read, whatever the stored document has become, and fails when it is *)
(* no longer there.                                                        *)
(***************************************************************************)
EXTENDS LegacyApi, FiniteSetsExt

CONSTANTS
  Requests, Gpus,     \* document ids
  Details,            \* what a student asks for: records [start, end, vram]
  Sizes,              \* VRAM an admin gives a GPU
  Bodies,             \* what an admin patches a GPU with: any fields of it
  Presented,          \* the tokens of requests that may be refused
  Patched,            \* statuses an admin gives a GPU besides those of a decision
  Offered,            \* the operations of the instance
  Handlers,           \* slots for requests in flight
  MaxStarts,          \* bound on the requests sent
  MaxFaults,          \* bound on failed statements and crashes
  Queries,            \* page and limit of the listings
  Malformed,          \* strings that are no ObjectId
  Unread,             \* a document not loaded yet
  Gone                \* a deleted document

VARIABLES
  requests,  \* collection gpurequests
  gpus,      \* collection gpuresources
  logs,      \* collection auditlogs: pairs <<action, request>>
  events,    \* what was emitted to the owner's room: pairs <<event, request>>
  frames,    \* the handlers in flight, with the documents in their memory
  hits,      \* what the rate limiter has counted in its window, of the one address
  ever,      \* history: every status a request has had in the collection
  resized,   \* history: GPUs whose VRAM, all of it or what is left, an admin has written
  started, faults

data == <<requests, gpus, logs, events, ever, resized>>
counts == <<hits, started, faults>>
vars == <<data, frames, counts>>

Statuses == {"PENDING", "APPROVED", "REJECTED", "COMPLETED"}
RequestDoc == [user : Users, gpu : Gpus \union {None}, vram : Nat, start : Nat, end : Nat,
               status : Statuses, faculty : Users \union {None}]
ResourceDoc == [vram : Nat, availableVRAM : Int, status : {"Available", "Allocated"} \union Patched]
IsPatch(body) ==  \* some of these fields
  /\ DOMAIN body \subseteq {"vram", "availableVRAM", "status"}
  /\ "vram" \in DOMAIN body => body.vram \in Nat
  /\ "availableVRAM" \in DOMAIN body => body.availableVRAM \in Int
  /\ "status" \in DOMAIN body => body.status \in {"Available", "Allocated"} \union Patched

Routes == DOMAIN GpuRequestRoutes \union DOMAIN GpuResourceRoutes \union DOMAIN AdminRoutes

ASSUME ConstantsAssumption ==
  /\ Details \subseteq [start : Nat, end : Nat, vram : Nat]
  /\ Sizes \subseteq Nat /\ Presented \subseteq Tokens
  /\ \A body \in Bodies : IsPatch(body)
  /\ IsFiniteSet(Requests) /\ Handlers # {}
  /\ Offered \subseteq Routes /\ None \notin Requests \union Gpus \union Routes
  /\ Malformed \intersect (Requests \union Gpus \union {None}) = {}
  /\ Unread # None /\ Unread # Gone /\ None # Gone
  /\ \A x \in {None, Unread, Gone} : x \notin RequestDoc /\ x \notin ResourceDoc

NewResource(vram, status) == [vram |-> vram, availableVRAM |-> vram, status |-> status]

Exists(doc) == doc \notin {None, Gone}

Idle == [pc |-> "idle", op |-> None, by |-> None, r |-> None, g |-> None,
         doc |-> Unread, gpu |-> Unread, status |-> Ok]

Init ==
  /\ requests = [r \in Requests |-> None]
  /\ gpus \in [Gpus -> {None} \union {NewResource(vram, "Available") : vram \in Sizes}]
  /\ logs = {} /\ events = {}
  /\ ever = [r \in Requests |-> {}] /\ resized = {}
  /\ frames = [h \in Handlers |-> Idle]
  /\ hits = 0 /\ started = 0 /\ faults = 0

-----------------------------------------------------------------------------
InFlight(h) == frames[h].pc \notin {"idle", "answered"}

Goto(h, pc) == frames' = [frames EXCEPT ![h].pc = pc]
Answer(h, status) ==
  frames' = [frames EXCEPT ![h] = [Idle EXCEPT !.pc = "answered", !.op = frames[h].op,
                                               !.r = frames[h].r, !.status = status]]
Refuse(h, status) == Answer(h, status) /\ UNCHANGED data

\* Slot h may take a request, one of MaxStarts in all ...
Vacant(h) == ~InFlight(h) /\ started < MaxStarts

\* ... and takes one, which the limiter counts.
Arrives(h, op) ==
  /\ op \in Offered
  /\ hits' = hits + 1 /\ started' = started + 1
  /\ UNCHANGED faults

\* ... and the middleware lets its handler run for by.
Admitted(h, op, by) == Arrives(h, op) /\ Admission(op, by, "valid", hits) = Ok

Open(h, op, by, r, g, pc) ==
  frames' = [frames EXCEPT ![h] = [Idle EXCEPT !.pc = pc, !.op = op, !.by = by, !.r = r, !.g = g]]
Done(h, op, status) ==
  frames' = [frames EXCEPT ![h] = [Idle EXCEPT !.pc = "answered", !.op = op, !.status = status]]

\* The middleware answers instead of the handler.
refuse(h) ==
  \E op \in Offered, by \in Users \union {None}, token \in Presented :
    /\ Arrives(h, op)
    /\ Admission(op, by, token, hits) # Ok
    /\ Done(h, op, Admission(op, by, token, hits))
    /\ UNCHANGED data

\* auditLogService.createLog swallows every error.
createLog(action, r) == logs' \in {logs, logs \union {<<action, r>>}}

-----------------------------------------------------------------------------
(* gpu-resource controller: one statement each. *)

createGpuResource(h) ==
  \E by \in Users, vram \in Sizes \union {0}, status \in {"Available"} \union Patched, g \in Gpus :
    /\ Admitted(h, "createGpuResource", by)
    /\ UNCHANGED <<requests, logs, events, ever, resized>>
    /\ IF vram = 0
       THEN Done(h, "createGpuResource", ErrorStatus(AppError(400))) /\ UNCHANGED gpus
       ELSE /\ gpus[g] = None
            /\ gpus' = [gpus EXCEPT ![g] = NewResource(vram, status)]
            /\ Done(h, "createGpuResource", 201)

\* findByIdAndUpdate and findByIdAndDelete: the status with the document g, or without it.
ById(h, op, g, found) ==
  Done(h, op, IF g \in Malformed THEN ErrorStatus(AppError(400))
              ELSE IF ~Exists(gpus[g]) THEN ErrorStatus(AppError(404))
              ELSE found)

\* runValidators: the body's fields are validated, before the document is looked for.
Validated(body) == "vram" \in DOMAIN body => body.vram >= 1

\* findByIdAndUpdate writes whatever fields the body has.
Written(doc, body) ==
  [path \in DOMAIN doc |-> IF path \in DOMAIN body THEN body[path] ELSE doc[path]]

updateGpuResource(h) ==
  \E by \in Users, g \in Gpus \union Malformed, body \in Bodies :
    LET into == {x \in Gpus : x = g /\ Exists(gpus[x]) /\ Validated(body)} IN
    /\ Admitted(h, "updateGpuResource", by)
    /\ IF g \in Gpus /\ ~Validated(body)
       THEN Done(h, "updateGpuResource", ErrorStatus(Thrown("ValidationError")))
       ELSE ById(h, "updateGpuResource", g, 200)
    /\ gpus' = [x \in Gpus |-> IF x \in into THEN Written(gpus[x], body) ELSE gpus[x]]
    /\ resized' = IF DOMAIN body \subseteq {"status"} THEN resized ELSE resized \union into
    /\ UNCHANGED <<requests, logs, events, ever>>

deleteGpuResource(h) ==
  \E by \in Users, g \in Gpus \union Malformed :
    /\ Admitted(h, "deleteGpuResource", by)
    /\ ById(h, "deleteGpuResource", g, 204)
    /\ gpus' = [x \in Gpus |-> IF x = g /\ Exists(gpus[x]) THEN Gone ELSE gpus[x]]
    /\ UNCHANGED <<requests, logs, events, ever, resized>>

Listings == {"getMyRequests", "getPendingRequests", "getAllRequests", "getAllGpuResources"}

\* Not paged, or, the last, by a service that swallows every error.
Overviews ==
  {"getAvailableGpuResources", "getDashboardSummary", "getUsageAnalytics", "getAllAuditLogs"}

list(h) ==
  \E by \in Users, op \in Listings \union Overviews, query \in Queries :
    /\ Admitted(h, op, by)
    /\ Done(h, op, IF op \in Overviews THEN 200 ELSE ListStatus(query))
    /\ UNCHANGED data

-----------------------------------------------------------------------------
(* gpu-request controller *)

Ordered(d) == d.end > d.start

createGpuRequest(h) ==
  \E by \in Users, d \in Details \union {None}, g \in Gpus \union {None} \union Malformed, r \in Requests :
    /\ Admitted(h, "createGpuRequest", by)
    /\ IF d = None \/ g \in Malformed \/ ~Ordered(d)
       THEN Done(h, "createGpuRequest", ErrorStatus(AppError(400))) /\ UNCHANGED data
       ELSE /\ requests[r] = None
            /\ requests' = [requests EXCEPT ![r] =
                              [user |-> by, gpu |-> g, vram |-> d.vram, start |-> d.start,
                               end |-> d.end, status |-> "PENDING", faculty |-> None]]
            /\ ever' = [ever EXCEPT ![r] = {"PENDING"}]
            /\ Open(h, "createGpuRequest", by, r, g, "log")
            /\ UNCHANGED <<gpus, logs, events, resized>>

\* The gpuId of the body is checked before anything is read; the id of the
\* path is cast by findById, which throws when it cannot be.
approveRequest(h) ==
  \E by \in Users, r \in Requests \union Malformed, g \in Gpus \union {None} \union Malformed :
    /\ Admitted(h, "approveRequest", by)
    /\ UNCHANGED data
    /\ IF g \in {None} \union Malformed
       THEN Done(h, "approveRequest", ErrorStatus(AppError(400)))
       ELSE IF r \in Malformed
       THEN Done(h, "approveRequest", ErrorStatus(Thrown("CastError")))
       ELSE Open(h, "approveRequest", by, r, g, "load")

\* rejectRequest and completeGpuRequest
decideRequest(h) ==
  \E by \in Users, op \in {"rejectRequest", "completeGpuRequest"},
     r \in Requests \union Malformed :
    /\ Admitted(h, op, by)
    /\ UNCHANGED data
    /\ IF r \in Malformed
       THEN Done(h, op, ErrorStatus(Thrown("CastError")))
       ELSE Open(h, op, by, r, None, "load")

\* approveRequest: the two halves of Promise.all, in either order.
LoadBoth(h) ==
  LET f == frames[h] IN
  /\ f.pc = "load" /\ f.op = "approveRequest"
  /\ \/ /\ f.doc = Unread
        /\ frames' = [frames EXCEPT ![h].doc = requests[f.r],
                                    ![h].pc = IF f.gpu = Unread THEN "load" ELSE "check"]
     \/ /\ f.gpu = Unread
        /\ frames' = [frames EXCEPT ![h].gpu = gpus[f.g],
                                    ![h].pc = IF f.doc = Unread THEN "load" ELSE "check"]
  /\ UNCHANGED <<data, counts>>

Overlaps(a, b) == a.start < b.end /\ a.end > b.start

HasConflict(r, doc, g) ==
  \E other \in Requests \ {r} :
    /\ requests[other] # None
    /\ requests[other].gpu = g
    /\ requests[other].status = "APPROVED"
    /\ Overlaps(requests[other], doc)

Sufficient(gpu, required) == required > 0 => gpu.availableVRAM >= required

CheckApproval(h) ==
  LET f == frames[h] IN
  /\ f.pc = "check"
  /\ CASE f.doc = None             -> Answer(h, ErrorStatus(AppError(404)))
       [] f.doc # None /\ f.doc.status # "PENDING" -> Answer(h, ErrorStatus(AppError(400)))
       [] f.doc # None /\ f.doc.status = "PENDING" ->
            IF ~Exists(f.gpu) THEN Answer(h, ErrorStatus(AppError(404)))
            ELSE IF HasConflict(f.r, f.doc, f.g) THEN Answer(h, ErrorStatus(AppError(409)))
            ELSE IF f.gpu.status # "Available" \/ ~Sufficient(f.gpu, f.doc.vram)
            THEN Answer(h, ErrorStatus(AppError(400)))
            ELSE Goto(h, "saveGpu")
  /\ UNCHANGED <<data, counts>>

\* The status a request must have to be rejected, to be completed.
Awaited(op) == IF op = "rejectRequest" THEN "PENDING" ELSE "APPROVED"

LoadRequest(h) ==
  LET f == frames[h]
      doc == requests[f.r]
  IN
  /\ f.pc = "load" /\ f.op # "approveRequest"
  /\ IF doc = None THEN Answer(h, ErrorStatus(AppError(404)))
     ELSE IF doc.status # Awaited(f.op) THEN Answer(h, ErrorStatus(AppError(400)))
     ELSE frames' = [frames EXCEPT
                       ![h].doc = doc,
                       ![h].g = IF f.op = "completeGpuRequest" THEN doc.gpu ELSE None,
                       ![h].pc = IF f.op = "completeGpuRequest" /\ doc.gpu # None
                                 THEN "loadGpu" ELSE "saveRequest"]
  /\ UNCHANGED <<data, counts>>

\* completeGpuRequest: a GPU that is gone is passed over.
LoadGpu(h) ==
  LET f == frames[h] IN
  /\ f.pc = "loadGpu"
  /\ frames' = [frames EXCEPT ![h].gpu = gpus[f.g],
                              ![h].pc = IF Exists(gpus[f.g]) THEN "saveGpu" ELSE "saveRequest"]
  /\ UNCHANGED <<data, counts>>

\* What the handler makes of the documents it has in memory.
Left(gpu, required) ==
  IF gpu.availableVRAM > required THEN gpu.availableVRAM - required ELSE 0

AllocatedGpu(gpu, required) ==
  [gpu EXCEPT !.availableVRAM = Left(gpu, required),
              !.status = IF Left(gpu, required) <= 0 THEN "Allocated" ELSE "Available"]
ReleasedGpu_KeepsVram(gpu) == [gpu EXCEPT !.status = "Available"]  \* mutant
ReleasedGpu(gpu) == [gpu EXCEPT !.availableVRAM = gpu.vram, !.status = "Available"]

NewGpu(f) == IF f.op = "approveRequest" THEN AllocatedGpu(f.gpu, f.doc.vram) ELSE ReleasedGpu(f.gpu)
NewStatus(op) ==
  CASE op = "approveRequest" -> "APPROVED"
    [] op = "rejectRequest"  -> "REJECTED"
    [] OTHER                 -> "COMPLETED"
NewRequest(f) ==
  [f.doc EXCEPT !.status = NewStatus(f.op), !.faculty = f.by,
                !.gpu = IF f.op = "approveRequest" THEN f.g ELSE @]

\* document.save(): only the paths that changed in memory are written.
Saved_Increments(stored, read, new) ==  \* mutant
  [path \in DOMAIN stored |-> IF path = "availableVRAM" THEN stored[path] + new[path] - read[path]
                              ELSE IF new[path] # read[path] THEN new[path] ELSE stored[path]]
Saved(stored, read, new) ==
  [path \in DOMAIN stored |-> IF new[path] # read[path] THEN new[path] ELSE stored[path]]

SaveGpu(h) ==
  LET f == frames[h] IN
  /\ f.pc = "saveGpu"
  /\ IF Exists(gpus[f.g])
     THEN gpus' = [gpus EXCEPT ![f.g] = Saved(@, f.gpu, NewGpu(f))] /\ Goto(h, "saveRequest")
     ELSE Answer(h, ErrorStatus(Thrown("DocumentNotFoundError"))) /\ UNCHANGED gpus
  /\ UNCHANGED <<requests, logs, events, ever, resized, counts>>

SaveRequest(h) ==
  LET f == frames[h] IN
  /\ f.pc = "saveRequest"
  /\ requests' = [requests EXCEPT ![f.r] = Saved(@, f.doc, NewRequest(f))]
  /\ ever' = [ever EXCEPT ![f.r] = @ \union {requests'[f.r].status}]
  /\ Goto(h, IF f.op = "completeGpuRequest" THEN "log" ELSE "announce")
  /\ UNCHANGED <<gpus, logs, events, resized, counts>>

\* emitRequestStatusUpdate, and the audit entry that is written next.
Announce(h) ==
  LET f == frames[h] IN
  /\ f.pc = "announce"
  /\ IF f.op = "approveRequest"
     THEN /\ events' = events \union {<<"request:approved", f.r>>}
          /\ createLog("REQUEST_APPROVED", f.r)
          /\ Goto(h, "log")
     ELSE /\ events' = events \union {<<"request:rejected", f.r>>}
          /\ createLog("REQUEST_REJECTED", f.r)
          /\ Answer(h, 200)
  /\ UNCHANGED <<requests, gpus, ever, resized, counts>>

\* The last audit entry, and the answer.
Log(h) ==
  LET f == frames[h] IN
  /\ f.pc = "log"
  /\ createLog(CASE f.op = "createGpuRequest" -> "REQUEST_CREATED"
                 [] f.op = "approveRequest"   -> "GPU_ALLOCATED"
                 [] OTHER                     -> "COMPLETE_GPU_REQUEST", f.r)
  /\ Answer(h, IF f.op = "createGpuRequest" THEN 201 ELSE 200)
  /\ UNCHANGED <<requests, gpus, events, ever, resized, counts>>

-----------------------------------------------------------------------------
(* Faults: a statement that fails, and the exit of the process; the limiter. *)

Fail(h) ==
  /\ InFlight(h) /\ frames[h].pc \notin {"check", "announce", "log"}
  /\ faults < MaxFaults /\ faults' = faults + 1
  /\ Refuse(h, ErrorStatus(Thrown("MongoServerError")))
  /\ UNCHANGED <<hits, started>>

\* The limiter counts in memory.
Crash ==
  /\ \E h \in Handlers : InFlight(h)
  /\ faults < MaxFaults /\ faults' = faults + 1
  /\ frames' = [h \in Handlers |-> Idle]
  /\ hits' = 0
  /\ UNCHANGED <<data, started>>

\* The limiter's window ends.
WindowEnds == hits > 0 /\ hits' = 0 /\ UNCHANGED <<data, frames, started, faults>>

Resource(h) == createGpuResource(h) \/ updateGpuResource(h) \/ deleteGpuResource(h) \/ list(h)
Request(h)  == createGpuRequest(h) \/ approveRequest(h) \/ decideRequest(h)
Arrive(h)   == Vacant(h) /\ (refuse(h) \/ Resource(h) \/ Request(h))
Load(h)     == LoadBoth(h) \/ CheckApproval(h) \/ LoadRequest(h) \/ LoadGpu(h)
Save(h)     == SaveGpu(h) \/ SaveRequest(h) \/ Announce(h) \/ Log(h)
Proceed(h)  == Load(h) \/ Save(h) \/ Fail(h)

Next == Crash \/ WindowEnds \/ \E h \in Handlers : Arrive(h) \/ Proceed(h)

Spec == Init /\ [][Next]_vars

-----------------------------------------------------------------------------
(* Properties *)

Approved(r) == requests[r] # None /\ requests[r].status = "APPROVED"

\* No two approved requests claim one GPU at overlapping times (approveRequest).
NoOverlap ==
  \A a, b \in Requests :
    a # b /\ Approved(a) /\ Approved(b) /\ requests[a].gpu = requests[b].gpu
      => ~Overlaps(requests[a], requests[b])

Claims(g) == {r \in Requests : Approved(r) /\ requests[r].gpu = g}

\* Between requests, no more VRAM of a GPU is held back than the approved
\* requests on it ask for: what a decision takes, a completion gives back.
\* An administrator who writes a GPU's VRAM is taken at his word: the PATCH
\* checks it against no request, and nothing is said of that GPU any more.
HeldIsBacked ==
  (\A h \in Handlers : ~InFlight(h)) =>
    \A g \in Gpus \ resized : Exists(gpus[g]) =>
      gpus[g].vram - gpus[g].availableVRAM <= MapThenSumSet(LAMBDA r : requests[r].vram, Claims(g))

\* The VRAM left stays between nothing and all of it, however approvals and
\* completions that read the same document interleave, unless an administrator
\* has written it.
VramInRange == \A g \in Gpus \ resized : Exists(gpus[g]) => gpus[g].availableVRAM \in 0 .. gpus[g].vram

\* Students are told, auditors can read and callers are answered only what the
\* collection has held: no event, entry or 200 before its decision is saved.
Means(name) ==
  CASE name = "REQUEST_CREATED" -> "PENDING"
    [] name \in {"request:approved", "REQUEST_APPROVED", "GPU_ALLOCATED", "approveRequest"} -> "APPROVED"
    [] name \in {"request:rejected", "REQUEST_REJECTED", "rejectRequest"} -> "REJECTED"
    [] name \in {"COMPLETE_GPU_REQUEST", "completeGpuRequest"} -> "COMPLETED"
Truthful ==
  /\ \A e \in events \union logs : Means(e[1]) \in ever[e[2]]
  /\ \A h \in Handlers :
       frames[h].pc = "answered" /\ frames[h].status = 200 /\ frames[h].r # None
         => Means(frames[h].op) \in ever[frames[h].r]

\* Every answer has a status the API document lists for its operation, but for
\* those of the limiter, which it lists nowhere.
AnswersDocumented ==
  \A h \in Handlers :
    frames[h].pc = "answered" => frames[h].status \in Documented(frames[h].op) \union {TooMany}
=============================================================================
