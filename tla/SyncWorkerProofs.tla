-------------------------- MODULE SyncWorkerProofs --------------------------
(***************************************************************************)
(* For every number of workers, connections and accounts: the types of     *)
(* SyncWorker, that a "completed" job has saved everything, how a job can  *)
(* be abandoned, and the action properties. SyncWorker implements SyncJobs *)
(* with one worker, and with any number of them that start queued jobs     *)
(* only.                                                                   *)
(***************************************************************************)
EXTENDS SyncWorker, TLAPS

-----------------------------------------------------------------------------
(* The order of the parts *)

\* Every part of a connection is a Part.
LEMMA PartsAreParts ==
    ASSUME NEW c \in Connections
    PROVE  PartsOf(c) \subseteq Part
BY PartsAssumption DEF PartsOf, Part, At, JobKinds, AccountKinds

\* After a part of c comes another part of c, or the end.
LEMMA FollowingType ==
    ASSUME NEW c \in Connections, NEW p \in PartsOf(c),
           NEW left \in SUBSET AccountsOf[c], NEW q \in Place, Follows(c, p, left, q)
    PROVE  q \in (PartsOf(c) \ {At("accounts", c)}) \cup {At("finished", c)}
BY PartsAssumption DEF PartsOf, At, JobKinds, AccountKinds, Follows, NextAccount

\* Moving on leaves behind only the part just worked on.
LEMMA FollowingBehind ==
    ASSUME NEW c \in Connections, NEW p \in PartsOf(c),
           NEW left \in SUBSET AccountsOf[c], NEW q \in Place, Follows(c, p, left, q),
           p.kind = "accounts" => left = AccountsOf[c]
    PROVE  Behind(c, q, left \ {q.of}) \subseteq Behind(c, p, left) \cup {p}
BY PartsAssumption
   DEF PartsOf, At, JobKinds, AccountKinds, Follows, NextAccount, Behind, Before

\* Nothing lies behind the account rows; everything lies behind the end.
LEMMA BehindEnds ==
    ASSUME NEW c \in Connections, NEW left \in SUBSET AccountsOf[c]
    PROVE  /\ Behind(c, At("accounts", c), left) = {}
           /\ Behind(c, At("finished", c), left) = PartsOf(c)
BY PartsAssumption
   DEF PartsOf, At, JobKinds, AccountKinds, Behind, Before

-----------------------------------------------------------------------------
(* Types *)

\* A call is tried at least once.
LEMMA OneAttempt == 1 \in 1..MaxAttempts
BY WorkerAssumption

\* The state of a worker between two jobs is well typed.
LEMMA IdleType ==
    ASSUME NEW pc \in PCs, NEW todo \in SUBSET Connections
    PROVE  Idle(pc, todo) \in RunType
BY OneAttempt DEF Idle, RunType

-----------------------------------------------------------------------------
(* The inductive invariant *)

\* CompletedIsComplete alone is not inductive: FinishJob trusts what the run
\* has counted on its way (RunsKeepCount).
IInv == TypeOK /\ RunsKeepCount /\ CompletedIsComplete

\* A step of worker w that takes it to state r, deletes no row and forgets
\* nothing keeps the invariant if r knows what it has to.
LEMMA StepTo ==
    ASSUME IInv, NEW w \in Workers, NEW r \in RunType,
           run' = [run EXCEPT ![w] = r],
           households' = households,
           jobStatus' \in [Connections -> Statuses],
           connStatus' \in [Connections -> ItemStatuses \cup {NoStatus}],
           stored' \in [Connections -> SUBSET Part],
           \A c \in Connections :
               /\ jobStatus[c] # "absent" => jobStatus'[c] # "absent"
               /\ Exists(c)' => Exists(c)
               /\ stored[c] \subseteq stored'[c]
               /\ jobStatus'[c] = "completed" => PartsOf(c) \subseteq stored'[c],
           RunKnows(r)'
    PROVE  IInv'
<1>1. TypeOK'
  BY DEF IInv, TypeOK
<1>2. RunsKeepCount'
  <2>. SUFFICES ASSUME NEW v \in Workers PROVE RunKnows(run[v])'
    BY DEF RunsKeepCount
  <2>1. CASE v = w
    BY <2>1 DEF IInv, TypeOK, RunKnows
  <2>2. CASE v # w
    <3>1. run'[v] = run[v] /\ run[v] \in RunType /\ RunKnows(run[v])
      BY <2>2 DEF IInv, TypeOK, RunsKeepCount
    <3>. QED
      BY <3>1 DEF RunKnows, RunType
  <2>. QED
    BY <2>1, <2>2
<1>3. CompletedIsComplete'
  BY DEF CompletedIsComplete
<1>. QED
  BY <1>1, <1>2, <1>3 DEF IInv

\* The same for a step that leaves the database alone.
LEMMA LocalStepTo ==
    ASSUME IInv, NEW w \in Workers, NEW r \in RunType,
           run' = [run EXCEPT ![w] = r], UNCHANGED dbVars, RunKnows(r)
    PROVE  IInv'
<1>1. UNCHANGED <<households, jobStatus, connStatus, stored>>
  BY DEF dbVars
<1>2. RunKnows(r)'
  BY <1>1 DEF RunKnows, Exists
<1>3. \A c \in Connections :
          /\ Exists(c)' => Exists(c)
          /\ jobStatus'[c] = "completed" => PartsOf(c) \subseteq stored'[c]
  BY <1>1 DEF IInv, CompletedIsComplete, Exists
<1>. QED
  BY <1>1, <1>2, <1>3, StepTo DEF IInv, TypeOK

\* Leaving the current part for the next: the run still knows what is behind
\* it, if that part has been saved or the failure is remembered.
LEMMA AdvanceTo ==
    ASSUME IInv, NEW w \in Workers, NEW failure \in BOOLEAN, Advance(w, failure),
           run[w].pc \in {"upsert_accounts", "fetch", "save"}
    PROVE  \E r \in RunType :
               /\ run' = [run EXCEPT ![w] = r]
               /\ r.todo = run[w].todo
               /\ r.conn = run[w].conn
               /\ r.pc \in {"fetch", "save", "finish"}
               /\ r.left \subseteq AccountsOf[r.conn]
               /\ r.pc \in {"fetch", "save"} =>
                      r.place \in PartsOf(r.conn) \ {At("accounts", r.conn)}
               /\ r.pc = "finish" => r.place = At("finished", r.conn)
               /\ r.failed = (run[w].failed \/ failure)
               /\ r.tx = FALSE
               /\ r.place \in Place
               /\ Follows(r.conn, run[w].place, run[w].left, r.place)
               /\ r.left = run[w].left \ {r.place.of}
               /\ Behind(r.conn, r.place, r.left)
                    \subseteq Behind(r.conn, run[w].place, run[w].left) \cup {run[w].place}
<1>. DEFINE s == run[w]
<1>1. s \in RunType /\ RunKnows(s)
  BY DEF IInv, TypeOK, RunsKeepCount
<1>2. /\ s.conn \in Connections
      /\ s.left \in SUBSET AccountsOf[s.conn]
      /\ s.place \in PartsOf(s.conn)
  BY <1>1 DEF RunKnows, InJob, Saving, Calling, PartsOf, JobKinds
<1>3. s.place.kind = "accounts" => s.left = AccountsOf[s.conn]
  BY <1>1, <1>2, PartsAssumption
     DEF RunKnows, InJob, Saving, Calling, PartsOf, JobKinds, AccountKinds, At
<1>4. PICK p \in Place :
          /\ Follows(s.conn, s.place, s.left, p)
          /\ run' = [run EXCEPT ![w] = [s EXCEPT !.pc = PcAt(p), !.place = p,
                         !.left = s.left \ {p.of}, !.attempt = 1,
                         !.failed = s.failed \/ failure, !.tx = FALSE]]
  BY DEF Advance
<1>5. p \in (PartsOf(s.conn) \ {At("accounts", s.conn)}) \cup {At("finished", s.conn)}
  BY <1>2, <1>4, FollowingType
<1>6. Behind(s.conn, p, s.left \ {p.of}) \subseteq Behind(s.conn, s.place, s.left) \cup {s.place}
  BY <1>2, <1>3, <1>4, FollowingBehind
<1>7. /\ PcAt(p) \in {"fetch", "save", "finish"}
      /\ PcAt(p) = "finish" <=> p = At("finished", s.conn)
  BY <1>2, <1>5, PartsAssumption DEF PcAt, PartsOf, At, JobKinds, AccountKinds
<1>8. PICK b \in BOOLEAN : b = (s.failed \/ failure)
  OBVIOUS
<1>9. PICK r \in RunType :
          r = [s EXCEPT !.pc = PcAt(p), !.place = p, !.left = s.left \ {p.of},
                        !.attempt = 1, !.failed = b, !.tx = FALSE]
  BY <1>1, <1>7, OneAttempt DEF RunType, PCs, InJob, Calling, Saving
<1>10. /\ r.pc = PcAt(p)
       /\ r.place = p
       /\ r.left = s.left \ {p.of}
       /\ r.failed = b
       /\ r.tx = FALSE
       /\ r.todo = s.todo
       /\ r.conn = s.conn
  BY <1>1, <1>9 DEF RunType
<1>. QED
  BY <1>2, <1>4, <1>5, <1>6, <1>7, <1>8, <1>9, <1>10

\* A worker without a job knows everything it has to.
LEMMA IdleKnows ==
    ASSUME NEW pc \in PCs \ InJob, NEW todo,
           \A c \in todo : jobStatus[c] # "absent"
    PROVE  RunKnows(Idle(pc, todo))
BY DEF RunKnows, Idle

\* The steps of a worker that change nothing but its own state.
LEMMA LocalSteps ==
    ASSUME IInv, NEW w \in Workers
    PROVE  /\ Poll(w) => IInv'
           /\ ListDone(w) => IInv'
           /\ ReadItemId(w) => IInv'
           /\ CallFails(w) => IInv'
           /\ Authenticate(w) => IInv'
           /\ \A st \in ItemStatuses : GetItem(w, st) => IInv'
           /\ GetAccounts(w) => IInv'
           /\ Fetch(w) => IInv'
           /\ GiveUpFetch(w) => IInv'
           /\ SaveFails(w) => IInv'
           /\ UpsertAccountsFails(w) => IInv'
           /\ LoseRow(w) => IInv'
           /\ Crash(w) => IInv'
           /\ Restart(w) => IInv'
<1>s. run[w] \in RunType /\ RunKnows(run[w])
  BY DEF IInv, TypeOK, RunsKeepCount
<1>i. Idle("dead", {}) \in RunType /\ RunKnows(Idle("dead", {}))
  BY IdleType, IdleKnows DEF PCs, InJob, Calling, Saving
<1>1. ASSUME Poll(w) PROVE IInv'
  <2>1. PICK r \in RunType : r = [run[w] EXCEPT !.pc = "picking", !.todo = Queued]
    BY <1>s DEF RunType, PCs, Queued
  <2>2. r.pc = "picking" /\ r.todo = Queued
    BY <1>s, <2>1 DEF RunType
  <2>3. RunKnows(r)
    BY <2>2 DEF RunKnows, Queued, InJob, Calling, Saving
  <2>. QED
    BY <1>1, <2>1, <2>3, LocalStepTo DEF Poll
<1>2. ASSUME ListDone(w) PROVE IInv'
  <2>1. PICK r \in RunType : r = [run[w] EXCEPT !.pc = "polling"]
    BY <1>s DEF RunType, PCs
  <2>2. r.pc = "polling" /\ r.todo = run[w].todo
    BY <1>s, <2>1 DEF RunType
  <2>3. RunKnows(r)
    BY <1>s, <2>2 DEF RunKnows, InJob, Calling, Saving
  <2>. QED
    BY <1>2, <2>1, <2>3, LocalStepTo DEF ListDone
<1>3. ASSUME ReadItemId(w) PROVE IInv'
  <2>1. PICK r \in RunType : r = [run[w] EXCEPT !.tx = TRUE]
    BY <1>s DEF RunType
  <2>2. RunKnows(r)
    BY <1>s, <2>1 DEF RunKnows, RunType
  <2>. QED
    BY <1>3, <2>1, <2>2, LocalStepTo DEF ReadItemId
<1>4. ASSUME CallFails(w) PROVE IInv'
  <2>1. PICK n \in 1..MaxAttempts : n = run[w].attempt + 1
    BY <1>s, <1>4, WorkerAssumption DEF RunType, CallFails
  <2>2. PICK r \in RunType : r = [run[w] EXCEPT !.attempt = n]
    BY <1>s DEF RunType
  <2>3. RunKnows(r)
    BY <1>s, <2>2 DEF RunKnows, RunType
  <2>. QED
    BY <1>4, <2>1, <2>2, <2>3, LocalStepTo DEF CallFails
<1>5. ASSUME Authenticate(w) PROVE IInv'
  <2>1. PICK r \in RunType : r = [run[w] EXCEPT !.pc = "item", !.attempt = 1]
    BY <1>s, OneAttempt DEF RunType, PCs, InJob, Calling
  <2>2. RunKnows(r)
    BY <1>s, <1>5, <2>1 DEF RunKnows, RunType, Authenticate, InJob, Calling
  <2>. QED
    BY <1>5, <2>1, <2>2, LocalStepTo DEF Authenticate
<1>6. ASSUME NEW st \in ItemStatuses, GetItem(w, st) PROVE IInv'
  <2>1. PICK r \in RunType :
            r = [run[w] EXCEPT !.pc = "accounts", !.attempt = 1, !.item = st]
    BY <1>s, OneAttempt DEF RunType, PCs, InJob, Calling
  <2>2. RunKnows(r)
    BY <1>s, <1>6, <2>1 DEF RunKnows, RunType, GetItem, InJob, Calling
  <2>. QED
    BY <1>6, <2>1, <2>2, LocalStepTo DEF GetItem
<1>7. ASSUME GetAccounts(w) PROVE IInv'
  <2>1. run[w].conn \in Connections /\ AccountsOf[run[w].conn] \in SUBSET Accounts
    BY <1>s, <1>7, PartsAssumption DEF GetAccounts, RunKnows, InJob, Calling
  <2>2. PICK r \in RunType : r = [run[w] EXCEPT !.pc = "upsert_accounts", !.attempt = 1,
                                                !.left = AccountsOf[run[w].conn]]
    BY <1>s, <2>1, OneAttempt DEF RunType, PCs, InJob, Saving
  <2>3. /\ r.pc = "upsert_accounts" /\ r.left = AccountsOf[r.conn]
        /\ r.conn = run[w].conn /\ r.todo = run[w].todo /\ r.place = run[w].place
    BY <1>s, <2>2 DEF RunType
  <2>4. r.place = At("accounts", r.conn)
    BY <1>s, <1>7, <2>3 DEF RunKnows, GetAccounts, InJob, Calling
  <2>5. Behind(r.conn, r.place, r.left) = {}
    BY <2>1, <2>3, <2>4, BehindEnds
  <2>6. RunKnows(r)
    BY <1>s, <1>7, <2>1, <2>3, <2>4, <2>5 DEF RunKnows, GetAccounts, InJob, Calling
  <2>. QED
    BY <1>7, <2>2, <2>6, LocalStepTo DEF GetAccounts
<1>8. ASSUME Fetch(w) PROVE IInv'
  <2>1. PICK r \in RunType : r = [run[w] EXCEPT !.pc = "save", !.attempt = 1]
    BY <1>s, OneAttempt DEF RunType, PCs, InJob, Saving
  <2>2. RunKnows(r)
    BY <1>s, <1>8, <2>1 DEF RunKnows, RunType, Fetch, InJob, Calling
  <2>. QED
    BY <1>8, <2>1, <2>2, LocalStepTo DEF Fetch
<1>9. ASSUME GiveUpFetch(w) \/ SaveFails(w) PROVE IInv'
  <2>1. /\ run[w].pc \in {"fetch", "save"}
        /\ Advance(w, TRUE)
        /\ UNCHANGED dbVars
    BY <1>9 DEF GiveUpFetch, SaveFails
  <2>2. PICK r \in RunType :
            /\ run' = [run EXCEPT ![w] = r]
            /\ r.todo = run[w].todo
            /\ r.conn = run[w].conn
            /\ r.pc \in {"fetch", "save", "finish"}
            /\ r.left \subseteq AccountsOf[r.conn]
            /\ r.pc \in {"fetch", "save"} =>
                   r.place \in PartsOf(r.conn) \ {At("accounts", r.conn)}
            /\ r.pc = "finish" => r.place = At("finished", r.conn)
            /\ r.failed = (run[w].failed \/ TRUE)
    BY <2>1, AdvanceTo
  <2>3. RunKnows(r)
    BY <1>s, <2>1, <2>2 DEF RunKnows, InJob, Calling, Saving
  <2>. QED
    BY <2>1, <2>2, <2>3, LocalStepTo
<1>10. ASSUME UpsertAccountsFails(w) \/ LoseRow(w) \/ Crash(w) PROVE IInv'
  BY <1>10, <1>i, LocalStepTo DEF UpsertAccountsFails, LoseRow, Crash
<1>11. ASSUME Restart(w) PROVE IInv'
  <2>1. PICK r \in RunType : r = [run[w] EXCEPT !.pc = "polling"]
    BY <1>s DEF RunType, PCs
  <2>2. r.pc = "polling" /\ r.todo = run[w].todo
    BY <1>s, <2>1 DEF RunType
  <2>3. RunKnows(r)
    BY <1>s, <2>2 DEF RunKnows, InJob, Calling, Saving
  <2>. QED
    BY <1>11, <2>1, <2>3, LocalStepTo DEF Restart
<1>. QED
  BY <1>1, <1>2, <1>3, <1>4, <1>5, <1>6, <1>7, <1>8, <1>9, <1>10, <1>11

\* Reading a job from the list writes "running".
LEMMA StartStep ==
    ASSUME IInv, NEW w \in Workers, NEW c \in Connections, StartJob(w, c)
    PROVE  IInv'
<1>1. run[w] \in RunType /\ RunKnows(run[w])
  BY DEF IInv, TypeOK, RunsKeepCount
<1>2. Idle("authenticate", run[w].todo \ {c}) \in RunType
  BY <1>1, IdleType DEF RunType, PCs, InJob, Calling
<1>3. PICK r \in RunType : r = [Idle("authenticate", run[w].todo \ {c}) EXCEPT
                                    !.conn = c, !.place = At("accounts", c)]
  BY <1>2 DEF RunType, Place, PlaceKinds, JobKinds, At
<1>4. /\ r.pc = "authenticate" /\ r.todo = run[w].todo \ {c} /\ r.conn = c
      /\ r.place = At("accounts", c) /\ r.left = {} /\ r.failed = FALSE
  BY <1>3 DEF Idle
<1>5. Behind(c, At("accounts", c), {}) = {}
  BY BehindEnds, PartsAssumption
<1>6. /\ run' = [run EXCEPT ![w] = r]
      /\ jobStatus' = [jobStatus EXCEPT ![c] = "running"]
      /\ UNCHANGED <<households, connStatus, stored>>
      /\ Exists(c)
  BY <1>3 DEF StartJob
<1>7. /\ jobStatus' \in [Connections -> Statuses]
      /\ \A d \in Connections :
             /\ jobStatus[d] # "absent" => jobStatus'[d] # "absent"
             /\ Exists(d)' => Exists(d)
             /\ jobStatus'[d] = "completed" => jobStatus[d] = "completed"
  BY <1>6 DEF IInv, TypeOK, Statuses, Exists, Verdicts
<1>8. RunKnows(r)'
  <2>1. \A d \in r.todo : jobStatus'[d] # "absent"
    BY <1>1, <1>4, <1>7 DEF RunKnows, RunType
  <2>2. jobStatus'[c] = "running"
    BY <1>6 DEF IInv, TypeOK
  <2>. QED
    BY <1>4, <1>5, <2>1, <2>2, PartsAssumption DEF RunKnows, InJob, Calling, Saving
<1>. QED
  BY <1>6, <1>7, <1>8, StepTo DEF IInv, TypeOK, CompletedIsComplete

\* The except clause of run_sync_job writes "failed".
LEMMA FailStep ==
    ASSUME IInv, NEW w \in Workers, run[w].pc \in InJob, FailJob(w)
    PROVE  IInv'
<1>1. run[w] \in RunType /\ RunKnows(run[w])
  BY DEF IInv, TypeOK, RunsKeepCount
<1>2. PICK c \in Connections : c = run[w].conn
  BY <1>1 DEF RunKnows
<1>3. /\ Exists(c)
      /\ jobStatus' = [jobStatus EXCEPT ![c] = "failed"]
      /\ connStatus' = [connStatus EXCEPT ![c] = ItemStatus(run[w])]
      /\ run' = [run EXCEPT ![w] = Idle("picking", run[w].todo)]
      /\ UNCHANGED <<households, stored>>
  BY <1>2 DEF FailJob
<1>4. ItemStatus(run[w]) \in ItemStatuses \cup {NoStatus}
  BY <1>1, <1>2 DEF ItemStatus, RunType, IInv, TypeOK
<1>5. Idle("picking", run[w].todo) \in RunType
  BY <1>1, IdleType DEF RunType, PCs
<1>6. /\ jobStatus' \in [Connections -> Statuses]
      /\ \A d \in Connections :
             /\ jobStatus[d] # "absent" => jobStatus'[d] # "absent"
             /\ Exists(d)' => Exists(d)
             /\ jobStatus'[d] = "completed" => jobStatus[d] = "completed"
  BY <1>3 DEF IInv, TypeOK, Statuses, Exists, Verdicts
<1>7. PICK r \in RunType : r = Idle("picking", run[w].todo)
  BY <1>5
<1>8. RunKnows(r)'
  BY <1>1, <1>6, <1>7 DEF RunKnows, Idle, RunType, InJob, Calling, Saving
<1>. QED
  BY <1>3, <1>4, <1>6, <1>7, <1>8, StepTo DEF IInv, TypeOK, CompletedIsComplete

\* The last write of a run: its count is trusted here.
LEMMA FinishStep ==
    ASSUME IInv, NEW w \in Workers, FinishJob(w)
    PROVE  IInv'
<1>1. run[w] \in RunType /\ RunKnows(run[w]) /\ run[w].pc = "finish"
  BY DEF IInv, TypeOK, RunsKeepCount, FinishJob
<1>2. PICK c \in Connections : c = run[w].conn
  BY <1>1 DEF RunKnows, InJob, Saving
<1>3. /\ Exists(c)
      /\ jobStatus' = [jobStatus EXCEPT ![c] =
                          IF run[w].failed THEN "partially_completed" ELSE "completed"]
      /\ run' = [run EXCEPT ![w] = Idle("picking", run[w].todo)]
      /\ UNCHANGED <<households, connStatus, stored>>
  BY <1>2 DEF FinishJob
<1>4. PICK r \in RunType : r = Idle("picking", run[w].todo)
  BY <1>1, IdleType DEF RunType, PCs
<1>5. /\ jobStatus' \in [Connections -> Statuses]
      /\ \A d \in Connections :
             /\ jobStatus[d] # "absent" => jobStatus'[d] # "absent"
             /\ Exists(d)' => Exists(d)
             /\ jobStatus'[d] = "completed" =>
                    jobStatus[d] = "completed" \/ (d = c /\ ~run[w].failed)
  BY <1>3 DEF IInv, TypeOK, Statuses, Exists, Verdicts
<1>6. ~run[w].failed => PartsOf(c) \subseteq stored[c]
  <2>1. /\ run[w].place = At("finished", c)
        /\ run[w].left \in SUBSET AccountsOf[c]
        /\ ~run[w].failed => Behind(c, run[w].place, run[w].left) \subseteq stored[c]
    BY <1>1, <1>2, <1>3 DEF RunKnows, InJob, Saving
  <2>. QED
    BY <2>1, BehindEnds
<1>7. RunKnows(r)'
  BY <1>1, <1>4, <1>5 DEF RunKnows, Idle, RunType, InJob, Calling, Saving
<1>. QED
  BY <1>3, <1>4, <1>5, <1>6, <1>7, StepTo DEF IInv, TypeOK, CompletedIsComplete

\* A committed part is the one that the run leaves behind.
LEMMA SaveStep ==
    ASSUME IInv, NEW w \in Workers, UpsertAccounts(w) \/ Save(w)
    PROVE  IInv'
<1>1. run[w] \in RunType /\ RunKnows(run[w]) /\ run[w].pc \in {"upsert_accounts", "save"}
  BY DEF IInv, TypeOK, RunsKeepCount, UpsertAccounts, Save
<1>2. PICK c \in Connections : c = run[w].conn
  BY <1>1 DEF RunKnows, InJob, Saving
<1>3. run[w].place \in Part
  BY <1>1, <1>2, PartsAreParts DEF RunKnows, InJob, Saving, PartsOf, JobKinds
<1>4. /\ Exists(c)
      /\ stored' = [stored EXCEPT ![c] = stored[c] \cup {run[w].place}]
      /\ Advance(w, FALSE)
      /\ UNCHANGED <<households, jobStatus>>
  BY <1>1, <1>2 DEF UpsertAccounts, Save, RunKnows, InJob, Saving
<1>5. connStatus' \in [Connections -> ItemStatuses \cup {NoStatus}]
  BY <1>1, <1>2 DEF UpsertAccounts, Save, ItemStatus, RunType, IInv, TypeOK
<1>6. PICK r \in RunType :
          /\ run' = [run EXCEPT ![w] = r]
          /\ r.todo = run[w].todo
          /\ r.conn = run[w].conn
          /\ r.pc \in {"fetch", "save", "finish"}
          /\ r.left \subseteq AccountsOf[r.conn]
          /\ r.pc \in {"fetch", "save"} => r.place \in PartsOf(r.conn) \ {At("accounts", r.conn)}
          /\ r.pc = "finish" => r.place = At("finished", r.conn)
          /\ r.failed = (run[w].failed \/ FALSE)
          /\ Behind(r.conn, r.place, r.left)
               \subseteq Behind(r.conn, run[w].place, run[w].left) \cup {run[w].place}
  BY <1>1, <1>4, AdvanceTo
<1>7. /\ stored' \in [Connections -> SUBSET Part]
      /\ stored'[c] = stored[c] \cup {run[w].place}
      /\ \A d \in Connections : stored[d] \subseteq stored'[d]
  BY <1>3, <1>4 DEF IInv, TypeOK
<1>8. ~run[w].failed => Behind(c, run[w].place, run[w].left) \subseteq stored[c]
  BY <1>1, <1>2, <1>4 DEF RunKnows, InJob, Saving
<1>9. RunKnows(r)'
  <2>1. ~r.failed => Behind(c, r.place, r.left) \subseteq stored'[c]
    BY <1>2, <1>6, <1>7, <1>8
  <2>2. jobStatus'[c] # "absent" /\ \A d \in r.todo : jobStatus'[d] # "absent"
    BY <1>1, <1>2, <1>4, <1>6 DEF RunKnows, InJob, Saving
  <2>. QED
    BY <1>2, <1>6, <2>1, <2>2 DEF RunKnows, InJob, Calling, Saving
<1>10. \A d \in Connections :
           /\ Exists(d)' => Exists(d)
           /\ jobStatus'[d] = "completed" => PartsOf(d) \subseteq stored'[d]
  BY <1>4, <1>7 DEF IInv, CompletedIsComplete, Exists
<1>. QED
  BY <1>4, <1>5, <1>6, <1>7, <1>9, <1>10, StepTo DEF IInv, TypeOK

\* A new connection is not in any worker's hands.
LEMMA CreateStep ==
    ASSUME IInv, NEW c \in Connections, NEW st \in ItemStatuses, CreateConnection(c, st)
    PROVE  IInv'
<1>1. TypeOK'
  BY DEF IInv, TypeOK, CreateConnection, Statuses
<1>2. \A d \in Connections :
          /\ jobStatus[d] # "absent" => jobStatus'[d] = jobStatus[d]
          /\ jobStatus'[d] = "completed" => jobStatus[d] = "completed"
  BY DEF IInv, TypeOK, CreateConnection
<1>3. RunsKeepCount'
  <2>. SUFFICES ASSUME NEW v \in Workers PROVE RunKnows(run[v])'
    BY DEF RunsKeepCount
  <2>1. run'[v] = run[v] /\ run[v] \in RunType /\ RunKnows(run[v]) /\ stored' = stored
    BY DEF IInv, TypeOK, RunsKeepCount, CreateConnection
  <2>. QED
    BY <1>2, <2>1 DEF RunKnows, RunType, Exists
<1>4. CompletedIsComplete'
  BY <1>2 DEF IInv, CompletedIsComplete, CreateConnection
<1>. QED
  BY <1>1, <1>3, <1>4 DEF IInv

\* Deleting a household makes what runs of its jobs know vacuous.
LEMMA DeleteStep ==
    ASSUME IInv, NEW h \in Households, DeleteHousehold(h)
    PROVE  IInv'
<1>1. TypeOK'
  BY DEF IInv, TypeOK, DeleteHousehold, Statuses
<1>2. \A d \in Connections :
          /\ jobStatus[d] # "absent" => jobStatus'[d] # "absent"
          /\ Exists(d)' => Exists(d) /\ stored'[d] = stored[d] /\ jobStatus'[d] = jobStatus[d]
  BY DEF IInv, TypeOK, DeleteHousehold, Exists, Verdicts
<1>3. RunsKeepCount'
  <2>. SUFFICES ASSUME NEW v \in Workers PROVE RunKnows(run[v])'
    BY DEF RunsKeepCount
  <2>1. run'[v] = run[v] /\ run[v] \in RunType /\ RunKnows(run[v])
    BY DEF IInv, TypeOK, RunsKeepCount, DeleteHousehold
  <2>. QED
    BY <1>2, <2>1 DEF RunKnows, RunType
<1>4. CompletedIsComplete'
  BY <1>2 DEF IInv, CompletedIsComplete, Exists, Verdicts
<1>. QED
  BY <1>1, <1>3, <1>4 DEF IInv

-----------------------------------------------------------------------------
(* The theorems *)

\* The invariant holds at the start.
LEMMA InvInit == Init => IInv
<1>. SUFFICES ASSUME Init PROVE IInv
  OBVIOUS
<1>1. Idle("polling", {}) \in RunType /\ RunKnows(Idle("polling", {}))
  BY IdleType, IdleKnows DEF PCs, InJob, Calling, Saving
<1>. QED
  BY <1>1 DEF Init, IInv, TypeOK, Statuses, RunsKeepCount, CompletedIsComplete

\* Every step keeps the invariant.
LEMMA InvNext == IInv /\ [Next]_vars => IInv'
<1>. SUFFICES ASSUME IInv, [Next]_vars PROVE IInv'
  OBVIOUS
<1>1. ASSUME NEW w \in Workers, WorkerStep(w) PROVE IInv'
  <2>1. CASE \E c \in Connections : StartJob(w, c)
    BY <2>1, StartStep
  <2>2. CASE GiveUpJob(w) \/ AccountsMalformed(w)
    BY <2>2, FailStep DEF GiveUpJob, AccountsMalformed, InJob, Calling, Saving
  <2>3. CASE UpsertAccounts(w) \/ Save(w)
    BY <2>3, SaveStep
  <2>4. CASE FinishJob(w)
    BY <2>4, FinishStep
  <2>. QED
    BY <1>1, <2>1, <2>2, <2>3, <2>4, LocalSteps DEF WorkerStep
<1>2. CASE UNCHANGED vars
  BY <1>2 DEF vars, IInv, TypeOK, RunsKeepCount, RunKnows, CompletedIsComplete, Exists
<1>. QED
  BY <1>1, <1>2, CreateStep, DeleteStep, LocalSteps DEF Next, Processes, Api

\* The invariant holds in every reachable state.
THEOREM Invariant == Spec => []IInv
BY InvInit, InvNext, PTL DEF Spec

\* Every variable keeps its type.
THEOREM TypeCorrect == Spec => []TypeOK
BY Invariant, PTL DEF IInv

\* However many workers share the queue, a job reads "completed" only if every
\* part of its connection has been saved.
THEOREM CompletedJobsAreComplete == Spec => []CompletedIsComplete
BY Invariant, PTL DEF IInv

\* A run that has not noted a failure has saved every part it has gone past.
THEOREM RunsCountCorrectly == Spec => []RunsKeepCount
BY Invariant, PTL DEF IInv

-----------------------------------------------------------------------------
(* What a worker holds on to *)

\* No step gives a worker a connection that it had not read from the queue, and
\* only reading the item id opens a transaction.
KeepsTo(w, r) ==
    /\ run' = [run EXCEPT ![w] = r]
    /\ r.conn \in {run[w].conn, NoConnection} \cup run[w].todo
    /\ r.todo \subseteq run[w].todo \cup Queued
    /\ r.tx => \/ /\ run[w].tx \/ ReadsItemId(run[w])
                  /\ r.place = run[w].place
                  /\ r.pc \in InJob
               \/ run[w].tx /\ run[w].pc \notin InJob

\* Between two jobs a worker holds its list and no transaction.
LEMMA IdleKeeps ==
    ASSUME IInv, NEW w \in Workers, NEW pc \in PCs, NEW todo \in SUBSET run[w].todo,
           run' = [run EXCEPT ![w] = Idle(pc, todo)]
    PROVE  \E r \in RunType : KeepsTo(w, r)
<1>1. run[w] \in RunType
  BY DEF IInv, TypeOK
<1>2. Idle(pc, todo) \in RunType
  BY <1>1, IdleType DEF RunType
<1>3. Idle(pc, todo).conn = NoConnection /\ Idle(pc, todo).todo = todo /\ Idle(pc, todo).tx = FALSE
  BY DEF Idle
<1>. QED
  BY <1>2, <1>3 DEF KeepsTo

\* Every step of a worker keeps to what it holds.
LEMMA StepKeeps ==
    ASSUME IInv, NEW w \in Workers, WorkerStep(w) \/ Crash(w) \/ Restart(w)
    PROVE  \E r \in RunType : KeepsTo(w, r)
<1>1. run[w] \in RunType /\ RunKnows(run[w])
  BY DEF IInv, TypeOK, RunsKeepCount
<1>2. CASE Poll(w)
  <2>1. PICK r \in RunType : r = [run[w] EXCEPT !.pc = "picking", !.todo = Queued]
    BY <1>1 DEF RunType, PCs, Queued
  <2>2. r.conn = run[w].conn /\ r.todo = Queued /\ r.tx = run[w].tx
    BY <1>1, <2>1 DEF RunType
  <2>3. run' = [run EXCEPT ![w] = r] /\ run[w].pc \notin InJob
    BY <1>2, <2>1 DEF Poll, InJob, Calling, Saving
  <2>. QED
    BY <2>2, <2>3 DEF KeepsTo
<1>3. CASE ListDone(w) \/ Restart(w)
  <2>1. PICK r \in RunType : r = [run[w] EXCEPT !.pc = "polling"]
    BY <1>1 DEF RunType, PCs
  <2>2. r.conn = run[w].conn /\ r.todo = run[w].todo /\ r.tx = run[w].tx
    BY <1>1, <2>1 DEF RunType
  <2>3. run' = [run EXCEPT ![w] = r] /\ run[w].pc \notin InJob
    BY <1>3, <2>1 DEF ListDone, Restart, InJob, Calling, Saving
  <2>. QED
    BY <2>2, <2>3 DEF KeepsTo
<1>4. CASE ReadItemId(w)
  <2>1. PICK r \in RunType : r = [run[w] EXCEPT !.tx = TRUE]
    BY <1>1 DEF RunType
  <2>2. r.conn = run[w].conn /\ r.todo = run[w].todo /\ r.place = run[w].place /\ r.pc = run[w].pc
    BY <1>1, <2>1 DEF RunType
  <2>3. run' = [run EXCEPT ![w] = r] /\ ReadsItemId(run[w]) /\ run[w].pc \in InJob
    BY <1>4, <2>1 DEF ReadItemId, ReadsItemId, InJob, Calling
  <2>. QED
    BY <2>2, <2>3 DEF KeepsTo
<1>5. CASE CallFails(w)
  <2>1. PICK n \in 1..MaxAttempts : n = run[w].attempt + 1
    BY <1>1, <1>5, WorkerAssumption DEF RunType, CallFails
  <2>2. PICK r \in RunType : r = [run[w] EXCEPT !.attempt = n]
    BY <1>1 DEF RunType
  <2>3. /\ r.conn = run[w].conn /\ r.todo = run[w].todo /\ r.place = run[w].place
        /\ r.pc = run[w].pc /\ r.tx = run[w].tx
    BY <1>1, <2>2 DEF RunType
  <2>4. run' = [run EXCEPT ![w] = r] /\ run[w].pc \in InJob
    BY <1>5, <2>1, <2>2 DEF CallFails, Awaiting, InJob
  <2>. QED
    BY <2>3, <2>4 DEF KeepsTo
<1>6. CASE Authenticate(w)
  <2>1. PICK r \in RunType : r = [run[w] EXCEPT !.pc = "item", !.attempt = 1]
    BY <1>1, OneAttempt DEF RunType, PCs, InJob, Calling
  <2>2. /\ r.conn = run[w].conn /\ r.todo = run[w].todo /\ r.place = run[w].place
        /\ r.pc \in InJob /\ r.tx = run[w].tx
    BY <1>1, <2>1 DEF RunType, InJob, Calling
  <2>3. run' = [run EXCEPT ![w] = r]
    BY <1>6, <2>1 DEF Authenticate
  <2>. QED
    BY <2>2, <2>3 DEF KeepsTo
<1>7. CASE \E st \in ItemStatuses : GetItem(w, st)
  <2>1. PICK st \in ItemStatuses : GetItem(w, st)
    BY <1>7
  <2>2. PICK r \in RunType : r = [run[w] EXCEPT !.pc = "accounts", !.attempt = 1, !.item = st]
    BY <1>1, OneAttempt DEF RunType, PCs, InJob, Calling
  <2>3. /\ r.conn = run[w].conn /\ r.todo = run[w].todo /\ r.place = run[w].place
        /\ r.pc \in InJob /\ r.tx = run[w].tx
    BY <1>1, <2>2 DEF RunType, InJob, Calling
  <2>4. run' = [run EXCEPT ![w] = r]
    BY <2>1, <2>2 DEF GetItem
  <2>. QED
    BY <2>3, <2>4 DEF KeepsTo
<1>8. CASE GetAccounts(w)
  <2>1. AccountsOf[run[w].conn] \in SUBSET Accounts
    BY <1>1, <1>8, PartsAssumption DEF GetAccounts, RunKnows, InJob, Calling
  <2>2. PICK r \in RunType : r = [run[w] EXCEPT !.pc = "upsert_accounts", !.attempt = 1,
                                                !.left = AccountsOf[run[w].conn]]
    BY <1>1, <2>1, OneAttempt DEF RunType, PCs, InJob, Saving
  <2>3. /\ r.conn = run[w].conn /\ r.todo = run[w].todo /\ r.place = run[w].place
        /\ r.pc \in InJob /\ r.tx = run[w].tx
    BY <1>1, <2>2 DEF RunType, InJob, Saving
  <2>4. run' = [run EXCEPT ![w] = r]
    BY <1>8, <2>2 DEF GetAccounts
  <2>. QED
    BY <2>3, <2>4 DEF KeepsTo
<1>9. CASE Fetch(w)
  <2>1. PICK r \in RunType : r = [run[w] EXCEPT !.pc = "save", !.attempt = 1]
    BY <1>1, OneAttempt DEF RunType, PCs, InJob, Saving
  <2>2. /\ r.conn = run[w].conn /\ r.todo = run[w].todo /\ r.place = run[w].place
        /\ r.pc \in InJob /\ r.tx = run[w].tx
    BY <1>1, <2>1 DEF RunType, InJob, Saving
  <2>3. run' = [run EXCEPT ![w] = r]
    BY <1>9, <2>1 DEF Fetch
  <2>. QED
    BY <2>2, <2>3 DEF KeepsTo
<1>10. CASE UpsertAccounts(w) \/ GiveUpFetch(w) \/ Save(w) \/ SaveFails(w)
  <2>1. /\ run[w].pc \in {"upsert_accounts", "fetch", "save"}
        /\ \E failure \in BOOLEAN : Advance(w, failure)
    BY <1>10 DEF UpsertAccounts, GiveUpFetch, Save, SaveFails
  <2>2. PICK r \in RunType :
            /\ run' = [run EXCEPT ![w] = r]
            /\ r.todo = run[w].todo
            /\ r.conn = run[w].conn
            /\ r.tx = FALSE
    BY <2>1, AdvanceTo
  <2>. QED
    BY <2>2 DEF KeepsTo
<1>11. CASE GiveUpJob(w) \/ AccountsMalformed(w) \/ FinishJob(w)
  <2>1. run' = [run EXCEPT ![w] = Idle("picking", run[w].todo)]
    BY <1>11 DEF GiveUpJob, AccountsMalformed, FailJob, FinishJob
  <2>. QED
    BY <2>1, IdleKeeps DEF PCs
<1>12. CASE UpsertAccountsFails(w) \/ LoseRow(w) \/ Crash(w)
  <2>1. run' = [run EXCEPT ![w] = Idle("dead", {})]
    BY <1>12 DEF UpsertAccountsFails, LoseRow, Crash
  <2>. QED
    BY <2>1, IdleKeeps DEF PCs
<1>13. CASE \E c \in Connections : StartJob(w, c)
  <2>1. PICK c \in Connections : StartJob(w, c)
    BY <1>13
  <2>2. Idle("authenticate", run[w].todo \ {c}) \in RunType
    BY <1>1, IdleType DEF RunType, PCs, InJob, Calling
  <2>3. PICK r \in RunType : r = [Idle("authenticate", run[w].todo \ {c}) EXCEPT
                                      !.conn = c, !.place = At("accounts", c)]
    BY <2>2 DEF RunType, Place, PlaceKinds, JobKinds, At
  <2>4. r.todo = run[w].todo \ {c} /\ r.conn = c /\ r.tx = FALSE
    BY <2>3 DEF Idle
  <2>5. run' = [run EXCEPT ![w] = r] /\ c \in run[w].todo
    BY <2>1, <2>3 DEF StartJob
  <2>. QED
    BY <2>4, <2>5 DEF KeepsTo
<1>. QED
  BY <1>2, <1>3, <1>4, <1>5, <1>6, <1>7, <1>8, <1>9, <1>10, <1>11, <1>12, <1>13 DEF WorkerStep

\* The API processes leave the workers' own state alone.
LEMMA ApiKeeps ==
    ASSUME Api
    PROVE  run' = run
BY DEF Api, CreateConnection, DeleteHousehold

\* A transaction that is open belongs to a call that is made once per job.
OpenOutsideLoop ==
    \A w \in Workers :
        run[w].tx => run[w].pc \in InJob /\ run[w].place.kind \notin {"transactions", "bills"}

\* The calls that do wait with a transaction open are those that read the item id
\* of the connection; the calls of the account loop never do.
THEOREM LoopWaitsWithoutTransaction ==
    Spec => [](\A w \in Workers :
                   Awaiting(run[w]) /\ run[w].place.kind \in {"transactions", "bills"}
                   => ~run[w].tx)
<1>1. Init => OpenOutsideLoop
  BY DEF Init, OpenOutsideLoop, Idle
<1>2. IInv /\ OpenOutsideLoop /\ [Next]_vars => OpenOutsideLoop'
  <2>. SUFFICES ASSUME IInv, OpenOutsideLoop, [Next]_vars, NEW v \in Workers, run'[v].tx
                PROVE  run'[v].pc \in InJob /\ run'[v].place.kind \notin {"transactions", "bills"}
    BY DEF OpenOutsideLoop
  <2>1. CASE run'[v] = run[v]
    BY <2>1 DEF OpenOutsideLoop
  <2>2. CASE run'[v] # run[v]
    <3>1. PICK w \in Workers : WorkerStep(w) \/ Crash(w) \/ Restart(w)
      BY <2>2, ApiKeeps DEF Next, Processes, vars
    <3>2. PICK r \in RunType : KeepsTo(w, r)
      BY <3>1, StepKeeps
    <3>3. v = w /\ run'[v] = r
      BY <2>2, <3>2 DEF KeepsTo, IInv, TypeOK
    <3>4. /\ run[v].tx \/ ReadsItemId(run[v])
          /\ r.place = run[v].place
          /\ r.pc \in InJob
      BY <3>2, <3>3 DEF KeepsTo, OpenOutsideLoop
    <3>5. ReadsItemId(run[v]) => run[v].place.kind \notin {"transactions", "bills"}
      <4>1. run[v].pc = "item" => run[v].place.kind = "accounts"
        <5>. SUFFICES ASSUME run[v].pc = "item" PROVE run[v].place.kind = "accounts"
          OBVIOUS
        <5>1. RunKnows(run[v])
          BY DEF IInv, RunsKeepCount
        <5>2. run[v].place = At("accounts", run[v].conn)
          BY <5>1 DEF RunKnows, InJob, Calling
        <5>. QED
          BY <5>2 DEF At
      <4>. QED
        BY <4>1 DEF ReadsItemId
    <3>. QED
      BY <3>3, <3>4, <3>5 DEF OpenOutsideLoop
  <2>. QED
    BY <2>1, <2>2
<1>3. OpenOutsideLoop => \A w \in Workers :
          Awaiting(run[w]) /\ run[w].place.kind \in {"transactions", "bills"} => ~run[w].tx
  BY DEF OpenOutsideLoop
<1>. QED
  BY <1>1, <1>2, <1>3, Invariant, PTL DEF Spec

\* Who changes a job's status or the status of its connection.
LEMMA WhoWrites ==
    ASSUME IInv, NEW w \in Workers, WorkerStep(w) \/ Crash(w) \/ Restart(w)
    PROVE  \/ UNCHANGED <<jobStatus, connStatus>>
           \/ \E c \in run[w].todo \cap Connections :
                  jobStatus' = [jobStatus EXCEPT ![c] = "running"] /\ UNCHANGED connStatus
           \/ /\ run[w].conn \in Connections
              /\ \A c \in Connections \ {run[w].conn} :
                     jobStatus'[c] = jobStatus[c] /\ connStatus'[c] = connStatus[c]
              /\ \/ UNCHANGED connStatus
                 \/ jobStatus'[run[w].conn] = "failed"
                 \/ At("accounts", run[w].conn) \in stored'[run[w].conn]
<1>1. TypeOK /\ RunKnows(run[w])
  BY DEF IInv, RunsKeepCount
<1>2. CASE \E c \in Connections : StartJob(w, c)
  BY <1>2 DEF StartJob
<1>3. CASE GiveUpJob(w) \/ AccountsMalformed(w)
  <2>1. run[w].conn \in Connections
    BY <1>1, <1>3 DEF GiveUpJob, AccountsMalformed, RunKnows, InJob, Calling, Saving
  <2>2. /\ jobStatus' = [jobStatus EXCEPT ![run[w].conn] = "failed"]
        /\ connStatus' = [connStatus EXCEPT ![run[w].conn] = ItemStatus(run[w])]
    BY <1>3 DEF GiveUpJob, AccountsMalformed, FailJob
  <2>. QED
    BY <1>1, <2>1, <2>2 DEF TypeOK
<1>4. CASE UpsertAccounts(w)
  <2>1. run[w].conn \in Connections
    BY <1>1, <1>4 DEF UpsertAccounts, RunKnows, InJob, Saving
  <2>2. /\ UNCHANGED jobStatus
        /\ connStatus' = [connStatus EXCEPT ![run[w].conn] = ItemStatus(run[w])]
        /\ stored' = [stored EXCEPT ![run[w].conn] = @ \cup {At("accounts", run[w].conn)}]
    BY <1>4 DEF UpsertAccounts
  <2>. QED
    BY <1>1, <2>1, <2>2 DEF TypeOK
<1>5. CASE FinishJob(w)
  <2>1. run[w].conn \in Connections
    BY <1>1, <1>5 DEF FinishJob, RunKnows, InJob, Saving
  <2>2. /\ UNCHANGED connStatus
        /\ jobStatus' = [jobStatus EXCEPT ![run[w].conn] =
                            IF run[w].failed THEN "partially_completed" ELSE "completed"]
    BY <1>5 DEF FinishJob
  <2>. QED
    BY <1>1, <2>1, <2>2 DEF TypeOK
<1>6. CASE Save(w)
  BY <1>6 DEF Save
<1>7. CASE \/ Poll(w) \/ ListDone(w) \/ ReadItemId(w) \/ CallFails(w) \/ Authenticate(w)
           \/ (\E st \in ItemStatuses : GetItem(w, st)) \/ GetAccounts(w) \/ Fetch(w)
           \/ UpsertAccountsFails(w) \/ GiveUpFetch(w) \/ SaveFails(w) \/ LoseRow(w)
           \/ Crash(w) \/ Restart(w)
  BY <1>7 DEF Poll, ListDone, ReadItemId, CallFails, Authenticate, GetItem, GetAccounts, Fetch,
              UpsertAccountsFails, GiveUpFetch, SaveFails, LoseRow, Crash, Restart, dbVars
<1>. QED
  BY <1>2, <1>3, <1>4, <1>5, <1>6, <1>7 DEF WorkerStep

\* What the household sees of the bank's status always comes with the rows, or
\* with the verdict that there are none.
THEOREM StatusComesWithRows == Spec => StatusPublishedWithAccounts
<1>1. IInv /\ [Next]_vars =>
          [\A c \in Connections :
              connStatus'[c] # connStatus[c] =>
                  \/ jobStatus[c] = "absent"
                  \/ jobStatus'[c] = "deleted"
                  \/ jobStatus'[c] = "failed"
                  \/ At("accounts", c) \in stored'[c]]_vars
  <2>. SUFFICES ASSUME IInv, Next, NEW c \in Connections, connStatus'[c] # connStatus[c]
                PROVE  \/ jobStatus[c] = "absent"
                       \/ jobStatus'[c] = "deleted"
                       \/ jobStatus'[c] = "failed"
                       \/ At("accounts", c) \in stored'[c]
    OBVIOUS
  <2>1. ASSUME NEW d \in Connections, NEW st \in ItemStatuses, CreateConnection(d, st)
        PROVE  jobStatus[c] = "absent"
    BY <2>1 DEF CreateConnection, IInv, TypeOK
  <2>2. ASSUME NEW h \in Households, DeleteHousehold(h)
        PROVE  jobStatus[c] = "absent" \/ jobStatus'[c] = "deleted"
    <3>1. HouseholdOf[c] = h
      BY <2>2 DEF DeleteHousehold
    <3>2. jobStatus[c] \in {"absent", "deleted"} \/ Exists(c)
      BY DEF IInv, TypeOK, Statuses, Exists, Verdicts
    <3>. QED
      BY <2>2, <3>1, <3>2 DEF DeleteHousehold
  <2>3. ASSUME NEW w \in Workers, WorkerStep(w) \/ Crash(w) \/ Restart(w)
        PROVE  jobStatus'[c] = "failed" \/ At("accounts", c) \in stored'[c]
    BY <2>3, WhoWrites
  <2>. QED
    BY <2>1, <2>2, <2>3 DEF Next, Processes, Api
<1>. QED
  BY <1>1, Invariant, PTL DEF Spec, StatusPublishedWithAccounts

\* A job that was left "running" by a worker that died is never taken up again.
THEOREM AbandonedJobsStay == Spec => AbandonedIsFinal
<1>1. IInv /\ [Next]_vars =>
          [\A c \in Connections :
              jobStatus[c] = "running" /\ ~Held(c) =>
                  jobStatus'[c] \in {"running", "deleted"} /\ ~Held(c)']_vars
  <2>. SUFFICES ASSUME IInv, Next, NEW c \in Connections, jobStatus[c] = "running", ~Held(c)
                PROVE  jobStatus'[c] \in {"running", "deleted"} /\ ~Held(c)'
    OBVIOUS
  <2>1. ASSUME Api PROVE jobStatus'[c] \in {"running", "deleted"} /\ ~Held(c)'
    <3>1. ~Held(c)'
      BY <2>1, ApiKeeps DEF Held
    <3>2. jobStatus'[c] \in {"running", "deleted"}
      BY <2>1 DEF Api, CreateConnection, DeleteHousehold, IInv, TypeOK
    <3>. QED
      BY <3>1, <3>2
  <2>2. ASSUME NEW w \in Workers, WorkerStep(w) \/ Crash(w) \/ Restart(w)
        PROVE  jobStatus'[c] \in {"running", "deleted"} /\ ~Held(c)'
    <3>1. PICK r \in RunType : KeepsTo(w, r)
      BY <2>2, StepKeeps
    <3>2. \A v \in Workers : run'[v] = IF v = w THEN r ELSE run[v]
      BY <3>1 DEF KeepsTo, IInv, TypeOK
    <3>3. r.conn # c /\ c \notin r.todo
      BY <3>1, WorkerAssumption DEF KeepsTo, Held, Queued
    <3>4. ~Held(c)'
      BY <3>2, <3>3 DEF Held
    <3>5. jobStatus'[c] = jobStatus[c]
      BY <2>2, WhoWrites DEF Held, IInv, TypeOK
    <3>. QED
      BY <3>4, <3>5
  <2>. QED
    BY <2>1, <2>2 DEF Next, Processes
<1>. QED
  BY <1>1, Invariant, PTL DEF Spec, AbandonedIsFinal

-----------------------------------------------------------------------------
(* How a job is abandoned *)

\* The job reads "running", and nobody runs it.
Abandoned(c) == jobStatus[c] = "running" /\ \A w \in Workers : run[w].conn # c

\* A worker between two jobs works on no connection.
Resting == \A w \in Workers : run[w].pc \notin InJob => run[w].conn = NoConnection

\* The only worker's step that leaves a running job is the SQL error: every other
\* end of a job writes a verdict, or finds no row to write it to.
LEMMA StepHolds ==
    ASSUME IInv, Resting, NEW w \in Workers, WorkerStep(w) \/ Crash(w) \/ Restart(w)
    PROVE  /\ run'[w].pc \notin InJob => run'[w].conn = NoConnection
           /\ \A v \in Workers : v # w => run'[v] = run[v]
           /\ \A c \in Connections : jobStatus'[c] = "running" =>
                  \/ run'[w].conn = c
                  \/ /\ jobStatus[c] = "running"
                     /\ run[w].conn = c => \/ UpsertAccountsFails(w)
                                           \/ Crash(w) /\ ~WorkerStep(w)
<1>1. TypeOK /\ run[w] \in RunType /\ RunKnows(run[w])
  BY DEF IInv, TypeOK, RunsKeepCount
<1>2. \A v \in Workers : v # w => run'[v] = run[v]
  <2>1. PICK r \in RunType : KeepsTo(w, r)
    BY StepKeeps
  <2>. QED
    BY <1>1, <2>1 DEF KeepsTo, TypeOK
<1>3. \A pc, todo : Idle(pc, todo).pc = pc /\ Idle(pc, todo).conn = NoConnection
  BY DEF Idle
<1>4. CASE Poll(w) \/ ListDone(w) \/ Restart(w)
  <2>1. UNCHANGED jobStatus
    BY <1>4 DEF Poll, ListDone, Restart, dbVars
  <2>2. run[w].pc \notin InJob
    BY <1>4 DEF Poll, ListDone, Restart, InJob, Calling, Saving
  <2>3. run'[w].conn = run[w].conn
    BY <1>1, <1>4 DEF Poll, ListDone, Restart, TypeOK, RunType
  <2>. QED
    BY <1>2, <2>1, <2>2, <2>3 DEF Resting
<1>5. CASE \E c \in Connections : StartJob(w, c)
  <2>1. PICK c \in Connections : StartJob(w, c)
    BY <1>5
  <2>2. run[w].conn = NoConnection
    BY <2>1 DEF StartJob, Resting, InJob, Calling, Saving
  <2>3. run'[w].pc = "authenticate" /\ run'[w].conn = c
    BY <1>1, <2>1 DEF StartJob, TypeOK, Idle
  <2>4. \A d \in Connections : d # c => jobStatus'[d] = jobStatus[d]
    BY <1>1, <2>1 DEF StartJob, TypeOK
  <2>. QED
    BY <1>2, <2>2, <2>3, <2>4, WorkerAssumption DEF InJob, Calling
<1>6. CASE \/ ReadItemId(w) \/ CallFails(w) \/ Authenticate(w)
           \/ (\E st \in ItemStatuses : GetItem(w, st)) \/ GetAccounts(w) \/ Fetch(w)
  <2>1. UNCHANGED jobStatus
    BY <1>6 DEF ReadItemId, CallFails, Authenticate, GetItem, GetAccounts, Fetch, dbVars
  <2>2. run'[w].conn = run[w].conn /\ run'[w].pc \in InJob
    BY <1>1, <1>6 DEF ReadItemId, CallFails, Authenticate, GetItem, GetAccounts, Fetch,
                      ReadsItemId, Awaiting, TypeOK, RunType, InJob, Calling, Saving
  <2>. QED
    BY <1>2, <2>1, <2>2
<1>7. CASE UpsertAccounts(w) \/ GiveUpFetch(w) \/ Save(w) \/ SaveFails(w)
  <2>1. /\ run[w].pc \in {"upsert_accounts", "fetch", "save"}
        /\ \E failure \in BOOLEAN : Advance(w, failure)
        /\ UNCHANGED jobStatus
    BY <1>7 DEF UpsertAccounts, GiveUpFetch, Save, SaveFails, dbVars
  <2>2. run'[w].conn = run[w].conn /\ run'[w].pc \in InJob
    BY <1>1, <2>1 DEF Advance, PcAt, TypeOK, RunType, InJob, Calling, Saving
  <2>. QED
    BY <1>2, <2>1, <2>2
<1>8. CASE GiveUpJob(w) \/ AccountsMalformed(w) \/ FinishJob(w)
  <2>1. run'[w] = Idle("picking", run[w].todo) /\ run[w].conn \in Connections
    BY <1>1, <1>8 DEF GiveUpJob, AccountsMalformed, FailJob, FinishJob, TypeOK, RunKnows,
                      InJob, Calling, Saving
  <2>2. \A c \in Connections : c # run[w].conn => jobStatus'[c] = jobStatus[c]
    BY <1>1, <1>8 DEF GiveUpJob, AccountsMalformed, FailJob, FinishJob, TypeOK
  <2>3. jobStatus'[run[w].conn] \in Verdicts
    BY <1>1, <1>8, <2>1 DEF GiveUpJob, AccountsMalformed, FailJob, FinishJob, TypeOK, Verdicts
  <2>. QED
    BY <1>2, <1>3, <2>1, <2>2, <2>3 DEF InJob, Calling, Saving, Verdicts
<1>9. CASE UpsertAccountsFails(w) \/ (Crash(w) /\ ~WorkerStep(w))
  <2>1. run'[w] = Idle("dead", {}) /\ UNCHANGED jobStatus
    BY <1>1, <1>9 DEF UpsertAccountsFails, Crash, TypeOK, dbVars
  <2>. QED
    BY <1>2, <1>3, <1>9, <2>1 DEF InJob, Calling, Saving
<1>10. CASE LoseRow(w)
  <2>1. run'[w] = Idle("dead", {}) /\ UNCHANGED jobStatus
    BY <1>1, <1>10 DEF LoseRow, TypeOK, dbVars
  <2>2. \A c \in Connections : run[w].conn = c => jobStatus[c] # "running"
    BY <1>10, WorkerAssumption DEF LoseRow, Resting, Exists, InJob, Calling, Saving
  <2>. QED
    BY <1>2, <1>3, <2>1, <2>2 DEF InJob, Calling, Saving
<1>. QED
  BY <1>4, <1>5, <1>6, <1>7, <1>8, <1>9, <1>10 DEF WorkerStep

\* The API starts no job and stops none.
LEMMA ApiHolds ==
    ASSUME IInv, Api
    PROVE  /\ run' = run
           /\ \A c \in Connections : jobStatus'[c] = "running" => jobStatus[c] = "running"
<1>1. CASE \E c \in Connections, st \in ItemStatuses : CreateConnection(c, st)
  BY <1>1 DEF CreateConnection, IInv, TypeOK
<1>2. CASE \E h \in Households : DeleteHousehold(h)
  BY <1>2 DEF DeleteHousehold
<1>. QED
  BY <1>1, <1>2 DEF Api

\* Workers stay free of a connection between two jobs.
LEMMA RestingStep ==
    ASSUME IInv, Resting, [Next]_vars
    PROVE  Resting'
<1>1. ASSUME NEW w \in Workers, WorkerStep(w) \/ Crash(w) \/ Restart(w) PROVE Resting'
  BY <1>1, StepHolds DEF Resting
<1>2. CASE Api
  BY <1>2, ApiHolds DEF Resting
<1>3. CASE UNCHANGED vars
  BY <1>3 DEF vars, Resting
<1>. QED
  BY <1>1, <1>2, <1>3 DEF Next, Processes

\* A job that is not abandoned becomes so in one way: its worker dies while the
\* row is there, of a SQL error or because it is killed.
LEMMA AbandonStep ==
    ASSUME IInv, Resting, [Next]_vars, NEW c \in Connections, Abandoned(c)', ~Abandoned(c)
    PROVE  \E w \in Workers : /\ run[w].conn = c
                              /\ UpsertAccountsFails(w) \/ (Crash(w) /\ ~LoseRow(w))
<1>1. ASSUME NEW w \in Workers, WorkerStep(w) \/ Crash(w) \/ Restart(w)
      PROVE  \E v \in Workers : /\ run[v].conn = c
                                /\ UpsertAccountsFails(v) \/ (Crash(v) /\ ~LoseRow(v))
  <2>1. jobStatus[c] = "running"
    BY <1>1, StepHolds DEF Abandoned
  <2>2. \A v \in Workers : v # w => run[v].conn # c
    BY <1>1, StepHolds DEF Abandoned
  <2>3. run[w].conn = c
    BY <2>1, <2>2 DEF Abandoned
  <2>4. UpsertAccountsFails(w) \/ (Crash(w) /\ ~WorkerStep(w))
    BY <1>1, <2>3, StepHolds DEF Abandoned
  <2>. QED
    BY <2>3, <2>4 DEF WorkerStep
<1>2. ~Api
  BY ApiHolds DEF Abandoned
<1>3. ~UNCHANGED vars
  BY DEF vars, Abandoned
<1>. QED
  BY <1>1, <1>2, <1>3 DEF Next, Processes

\* For any number of workers, a job is left "running" with nobody on it only when
\* its worker is killed or fails on the upsert of the accounts: never at the end
\* of a job, on a failed call, or because the household is deleted meanwhile.
THEOREM OnlyDeathAbandons ==
    Spec => [][\A c \in Connections :
                   Abandoned(c)' =>
                       \/ Abandoned(c)
                       \/ \E w \in Workers :
                              /\ run[w].conn = c
                              /\ UpsertAccountsFails(w) \/ (Crash(w) /\ ~LoseRow(w))]_vars
<1>1. Init => Resting
  BY DEF Init, Resting, Idle
<1>2. IInv /\ Resting /\ [Next]_vars => Resting'
  BY RestingStep
<1>3. IInv /\ Resting /\ [Next]_vars =>
          [\A c \in Connections :
               Abandoned(c)' =>
                   \/ Abandoned(c)
                   \/ \E w \in Workers :
                          /\ run[w].conn = c
                          /\ UpsertAccountsFails(w) \/ (Crash(w) /\ ~LoseRow(w))]_vars
  BY AbandonStep
<1>. QED
  BY <1>1, <1>2, <1>3, Invariant, PTL DEF Spec

\* The docstring's promise is true while nobody kills a worker and the upsert of
\* the accounts raises no SQL error: that error is the one way to break it that
\* the worker itself has.
THEOREM RunsToCompletionWithoutSqlErrors ==
    QuietSpec /\ [][\A w \in Workers : ~UpsertAccountsFails(w)]_vars => []RunsToCompletion
<1>1. Init => IInv /\ Resting /\ RunsToCompletion
  BY InvInit DEF Init, Resting, RunsToCompletion, Idle
<1>2. IInv /\ Resting /\ RunsToCompletion
          /\ [Processes]_vars /\ [\A w \in Workers : ~UpsertAccountsFails(w)]_vars
      => IInv' /\ Resting' /\ RunsToCompletion'
  <2>. SUFFICES ASSUME IInv, Resting, RunsToCompletion, [Processes]_vars,
                       [\A w \in Workers : ~UpsertAccountsFails(w)]_vars
                PROVE  IInv' /\ Resting' /\ RunsToCompletion'
    OBVIOUS
  <2>1. [Next]_vars
    BY DEF Next
  <2>2. IInv' /\ Resting'
    BY <2>1, InvNext, RestingStep
  <2>3. CASE UNCHANGED vars
    BY <2>2, <2>3 DEF vars, RunsToCompletion
  <2>4. CASE Api
    BY <2>2, <2>4, ApiHolds DEF RunsToCompletion
  <2>5. ASSUME NEW w \in Workers, WorkerStep(w), ~UNCHANGED vars PROVE RunsToCompletion'
    <3>1. ~UpsertAccountsFails(w)
      BY <2>5
    <3>. QED
      BY <2>5, <3>1, StepHolds DEF RunsToCompletion
  <2>. QED
    BY <2>2, <2>3, <2>4, <2>5 DEF Processes
<1>. QED
  BY <1>1, <1>2, PTL DEF QuietSpec

-----------------------------------------------------------------------------
(* Workers that take queued jobs only implement SyncJobs *)

\* A job that is started is still queued, as a claim of its row would see to.
Claimed == \A w \in Workers, c \in Connections : StartJob(w, c) => jobStatus[c] = "queued"

\* What a worker may rely on then: what is stored of its job is what it has left
\* behind, but for what failed ...
RunSerial(r) ==
    r.pc \in InJob =>
        /\ jobStatus[r.conn] \in {"running", "deleted"}
        /\ r.place.kind \in AccountKinds => r.place.of \notin r.left
        /\ r.place = At("accounts", r.conn) =>
               ~r.failed /\ (Exists(r.conn) => stored[r.conn] = {})
        /\ Exists(r.conn) /\ r.place # At("accounts", r.conn) =>
               /\ At("accounts", r.conn) \in stored[r.conn]
               /\ stored[r.conn] \subseteq Behind(r.conn, r.place, r.left)
               /\ r.failed => stored[r.conn] # Behind(r.conn, r.place, r.left)

\* ... and the job is its own.
Apart ==
    \A v, w \in Workers :
        v # w /\ run[v].pc \in InJob /\ run[w].pc \in InJob => run[v].conn # run[w].conn

Untouched(c) ==
    /\ Exists(c) => connStatus[c] \in ItemStatuses
    /\ jobStatus[c] \in {"absent", "queued"} => stored[c] = {}

Serial ==
    /\ \A c \in Connections : Untouched(c)
    /\ \A w \in Workers : RunSerial(run[w])
    /\ Apart

\* Moving on leaves behind the part just worked on and all before it, and the
\* part itself was not behind.
LEMMA LeavingBehind ==
    ASSUME NEW c \in Connections, NEW p \in PartsOf(c),
           NEW left \in SUBSET AccountsOf[c], NEW q \in Place, Follows(c, p, left, q),
           p.kind = "accounts" => left = AccountsOf[c],
           p.kind \in AccountKinds => p.of \notin left
    PROVE  /\ Behind(c, q, left \ {q.of}) = Behind(c, p, left) \cup {p}
           /\ p \notin Behind(c, p, left)
           /\ q.kind \in AccountKinds => q.of \notin left \ {q.of}
<1>1. Behind(c, q, left \ {q.of}) \subseteq Behind(c, p, left) \cup {p}
  BY FollowingBehind
<1>2. p \notin Behind(c, p, left)
  BY PartsAssumption DEF PartsOf, At, JobKinds, AccountKinds, Behind, Before
<1>3. Behind(c, p, left) \cup {p} \subseteq Behind(c, q, left \ {q.of})
  BY PartsAssumption
     DEF PartsOf, At, JobKinds, AccountKinds, Follows, NextAccount, Behind, Before
<1>. QED
  BY <1>1, <1>2, <1>3

\* SyncJobs and SyncWorker speak of the same parts.
LEMMA SameParts ==
    /\ \A k, o : Jobs!At(k, o) = At(k, o)
    /\ \A c : Jobs!PartsOf(c) = PartsOf(c)
    /\ \A c : Jobs!Exists(c) <=> Exists(c)
BY DEF Jobs!At, At, Jobs!PartsOf, PartsOf, Jobs!JobKinds, JobKinds, Jobs!Exists, Exists,
       Jobs!Verdicts, Verdicts

\* A step that takes a worker to state r and changes the rows of connection c only,
\* which nobody else works on.
LEMMA SerialTo ==
    ASSUME IInv, Serial, NEW w \in Workers, NEW r \in RunType, NEW c \in Connections,
           run' = [run EXCEPT ![w] = r], RunSerial(r)', \A d \in Connections : Untouched(d)',
           r.pc \in InJob => r.conn = c,
           \A v \in Workers \ {w} : run[v].pc \in InJob => run[v].conn # c,
           \A d \in Connections \ {c} : jobStatus'[d] = jobStatus[d] /\ stored'[d] = stored[d]
    PROVE  Serial'
<1>1. run'[w] = r /\ \A v \in Workers \ {w} : run'[v] = run[v]
  BY DEF IInv, TypeOK
<1>2. ASSUME NEW v \in Workers \ {w} PROVE RunSerial(run[v])'
  <2>1. run[v].pc \in InJob => run[v].conn \in Connections \ {c}
    BY DEF IInv, RunsKeepCount, RunKnows
  <2>. QED
    BY <1>1, <2>1 DEF Serial, RunSerial, Exists
<1>3. Apart'
  BY <1>1 DEF Serial, Apart
<1>. QED
  BY <1>1, <1>2, <1>3 DEF Serial, RunSerial

\* The worker that is in c's job is the only one.
LEMMA OnlyOne ==
    ASSUME Serial, NEW w \in Workers, run[w].pc \in InJob
    PROVE  \A v \in Workers \ {w} : run[v].pc \in InJob => run[v].conn # run[w].conn
BY DEF Serial, Apart

\* The same for a step that leaves the database alone.
LEMMA LocalSerialTo ==
    ASSUME IInv, Serial, NEW w \in Workers, NEW r \in RunType,
           run' = [run EXCEPT ![w] = r], UNCHANGED dbVars, RunSerial(r),
           r.pc \in InJob => run[w].pc \in InJob /\ r.conn = run[w].conn
    PROVE  Serial' /\ UNCHANGED Jobs!vars
<1>1. UNCHANGED <<households, jobStatus, connStatus, stored>>
  BY DEF dbVars
<1>2. RunSerial(r)' /\ \A c \in Connections : Untouched(c)'
  BY <1>1 DEF RunSerial, Serial, Untouched, Exists
<1>3. run'[w] = r /\ \A v \in Workers \ {w} : run'[v] = run[v]
  BY DEF IInv, TypeOK
<1>4. \A v \in Workers : RunSerial(run[v])'
  BY <1>1, <1>2, <1>3 DEF Serial, RunSerial, Exists
<1>5. Apart'
  BY <1>3 DEF Serial, Apart
<1>. QED
  BY <1>1, <1>2, <1>4, <1>5 DEF Serial, Jobs!vars

\* A worker without a job relies on nothing.
LEMMA IdleSerial ==
    ASSUME NEW pc \in PCs \ InJob, NEW todo
    PROVE  RunSerial(Idle(pc, todo)) /\ Idle(pc, todo).pc \notin InJob
BY DEF RunSerial, Idle

\* The worker goes on to the next part.
LEMMA AdvanceSerial ==
    ASSUME IInv, NEW w \in Workers, NEW failure \in BOOLEAN, Advance(w, failure),
           run[w].pc \in {"upsert_accounts", "fetch", "save"}, RunSerial(run[w])
    PROVE  \E r \in RunType :
               /\ run' = [run EXCEPT ![w] = r]
               /\ r.todo = run[w].todo
               /\ r.conn = run[w].conn
               /\ r.pc \in InJob
               /\ r.place # At("accounts", r.conn)
               /\ r.place.kind \in AccountKinds => r.place.of \notin r.left
               /\ r.failed = (run[w].failed \/ failure)
               /\ Behind(r.conn, r.place, r.left)
                      = Behind(r.conn, run[w].place, run[w].left) \cup {run[w].place}
               /\ run[w].place \notin Behind(r.conn, run[w].place, run[w].left)
<1>. DEFINE s == run[w]
<1>1. PICK r \in RunType :
          /\ run' = [run EXCEPT ![w] = r]
          /\ r.todo = s.todo
          /\ r.conn = s.conn
          /\ r.pc \in {"fetch", "save", "finish"}
          /\ r.pc \in {"fetch", "save"} =>
                 r.place \in PartsOf(r.conn) \ {At("accounts", r.conn)}
          /\ r.pc = "finish" => r.place = At("finished", r.conn)
          /\ r.failed = (s.failed \/ failure)
          /\ r.place \in Place
          /\ Follows(r.conn, s.place, s.left, r.place)
          /\ r.left = s.left \ {r.place.of}
  BY AdvanceTo
<1>2. s \in RunType /\ RunKnows(s)
  BY DEF IInv, TypeOK, RunsKeepCount
<1>3. /\ s.conn \in Connections
      /\ s.left \in SUBSET AccountsOf[s.conn]
      /\ s.place \in PartsOf(s.conn)
  BY <1>2 DEF RunKnows, InJob, Saving, Calling, PartsOf, JobKinds
<1>4. s.place.kind = "accounts" => s.left = AccountsOf[s.conn]
  BY <1>2, <1>3, PartsAssumption
     DEF RunKnows, InJob, Saving, Calling, PartsOf, JobKinds, AccountKinds, At
<1>5. s.place.kind \in AccountKinds => s.place.of \notin s.left
  BY DEF RunSerial, InJob, Saving, Calling
<1>6. /\ Behind(s.conn, r.place, s.left \ {r.place.of}) = Behind(s.conn, s.place, s.left) \cup {s.place}
      /\ s.place \notin Behind(s.conn, s.place, s.left)
      /\ r.place.kind \in AccountKinds => r.place.of \notin s.left \ {r.place.of}
  BY <1>1, <1>3, <1>4, <1>5, LeavingBehind
<1>7. r.place # At("accounts", r.conn) /\ r.pc \in InJob
  BY <1>1 DEF At, InJob, Calling, Saving
<1>. QED
  BY <1>1, <1>6, <1>7

\* Steps that change nothing but the worker's own state are invisible.
LEMMA LocalSerial ==
    ASSUME IInv, Serial, NEW w \in Workers,
           \/ Poll(w) \/ ListDone(w) \/ ReadItemId(w) \/ CallFails(w) \/ Authenticate(w)
           \/ (\E st \in ItemStatuses : GetItem(w, st)) \/ GetAccounts(w) \/ Fetch(w)
           \/ UpsertAccountsFails(w) \/ LoseRow(w) \/ Crash(w) \/ Restart(w)
    PROVE  Serial' /\ UNCHANGED Jobs!vars
<1>1. run[w] \in RunType /\ RunKnows(run[w]) /\ RunSerial(run[w])
  BY DEF IInv, TypeOK, RunsKeepCount, Serial
<1>2. CASE Poll(w)
  <2>1. PICK r \in RunType : r = [run[w] EXCEPT !.pc = "picking", !.todo = Queued]
    BY <1>1 DEF RunType, PCs, Queued
  <2>2. r.pc = "picking" /\ r.todo = Queued
    BY <1>1, <2>1 DEF RunType
  <2>3. RunSerial(r)
    BY <2>2 DEF RunSerial, InJob, Calling, Saving
  <2>. QED
    BY <1>2, <2>1, <2>2, <2>3, LocalSerialTo DEF Poll, InJob, Calling, Saving
<1>3. CASE ListDone(w) \/ Restart(w)
  <2>1. PICK r \in RunType : r = [run[w] EXCEPT !.pc = "polling"]
    BY <1>1 DEF RunType, PCs
  <2>2. r.pc = "polling" /\ r.todo = run[w].todo
    BY <1>1, <2>1 DEF RunType
  <2>3. RunSerial(r)
    BY <2>2 DEF RunSerial, InJob, Calling, Saving
  <2>. QED
    BY <1>3, <2>1, <2>2, <2>3, LocalSerialTo DEF ListDone, Restart, InJob, Calling, Saving
<1>4. CASE UpsertAccountsFails(w) \/ LoseRow(w) \/ Crash(w)
  <2>1. /\ Idle("dead", {}) \in RunType /\ RunSerial(Idle("dead", {}))
        /\ Idle("dead", {}).pc \notin InJob
    BY IdleType, IdleSerial DEF PCs, InJob, Calling, Saving
  <2>. QED
    BY <1>4, <2>1, LocalSerialTo DEF UpsertAccountsFails, LoseRow, Crash
<1>5. CASE \/ ReadItemId(w) \/ CallFails(w) \/ Authenticate(w)
           \/ (\E st \in ItemStatuses : GetItem(w, st)) \/ GetAccounts(w) \/ Fetch(w)
  <2>1. PICK r \in RunType :
            /\ run' = [run EXCEPT ![w] = r]
            /\ r.todo = run[w].todo /\ r.conn = run[w].conn
            /\ r.place = run[w].place /\ r.failed = run[w].failed
            /\ run[w].pc \in InJob
            /\ r.left = run[w].left \/ run[w].place = At("accounts", run[w].conn)
    <3>1. CASE ReadItemId(w)
      <4>1. PICK r \in RunType : r = [run[w] EXCEPT !.tx = TRUE]
        BY <1>1 DEF RunType
      <4>. QED
        BY <1>1, <3>1, <4>1 DEF RunType, ReadItemId, ReadsItemId, InJob, Calling
    <3>2. CASE CallFails(w)
      <4>1. PICK n \in 1..MaxAttempts : n = run[w].attempt + 1
        BY <1>1, <3>2, WorkerAssumption DEF RunType, CallFails
      <4>2. PICK r \in RunType : r = [run[w] EXCEPT !.attempt = n]
        BY <1>1 DEF RunType
      <4>. QED
        BY <1>1, <3>2, <4>1, <4>2 DEF RunType, CallFails, Awaiting, InJob
    <3>3. CASE Authenticate(w)
      <4>1. PICK r \in RunType : r = [run[w] EXCEPT !.pc = "item", !.attempt = 1]
        BY <1>1, OneAttempt DEF RunType, PCs, InJob, Calling
      <4>. QED
        BY <1>1, <3>3, <4>1 DEF RunType, Authenticate, InJob, Calling
    <3>4. CASE \E st \in ItemStatuses : GetItem(w, st)
      <4>1. PICK st \in ItemStatuses : GetItem(w, st)
        BY <3>4
      <4>2. PICK r \in RunType : r = [run[w] EXCEPT !.pc = "accounts", !.attempt = 1, !.item = st]
        BY <1>1, OneAttempt DEF RunType, PCs, InJob, Calling
      <4>. QED
        BY <1>1, <4>1, <4>2 DEF RunType, GetItem, InJob, Calling
    <3>5. CASE GetAccounts(w)
      <4>1. AccountsOf[run[w].conn] \in SUBSET Accounts
        BY <1>1, <3>5, PartsAssumption DEF GetAccounts, RunKnows, InJob, Calling
      <4>2. PICK r \in RunType : r = [run[w] EXCEPT !.pc = "upsert_accounts", !.attempt = 1,
                                                    !.left = AccountsOf[run[w].conn]]
        BY <1>1, <4>1, OneAttempt DEF RunType, PCs, InJob, Saving
      <4>3. run[w].place = At("accounts", run[w].conn) /\ run[w].pc \in InJob
        BY <1>1, <3>5 DEF GetAccounts, RunKnows, InJob, Calling
      <4>. QED
        BY <1>1, <3>5, <4>2, <4>3 DEF RunType, GetAccounts
    <3>6. CASE Fetch(w)
      <4>1. PICK r \in RunType : r = [run[w] EXCEPT !.pc = "save", !.attempt = 1]
        BY <1>1, OneAttempt DEF RunType, PCs, InJob, Saving
      <4>. QED
        BY <1>1, <3>6, <4>1 DEF RunType, Fetch, InJob, Calling
    <3>. QED
      BY <1>5, <3>1, <3>2, <3>3, <3>4, <3>5, <3>6
  <2>2. At("accounts", r.conn).kind \notin AccountKinds
    BY DEF At, AccountKinds
  <2>3. RunSerial(r)
    BY <1>1, <2>1, <2>2 DEF RunSerial
  <2>4. UNCHANGED dbVars
    BY <1>5 DEF ReadItemId, CallFails, Authenticate, GetItem, GetAccounts, Fetch
  <2>. QED
    BY <2>1, <2>3, <2>4, LocalSerialTo
<1>. QED
  BY <1>2, <1>3, <1>4, <1>5

\* What every job of c is promised is kept for the others when only c's row changes.
LEMMA OthersUntouched ==
    ASSUME Serial, TypeOK, NEW c \in Connections, Untouched(c)',
           \A d \in Connections \ {c} :
               /\ jobStatus'[d] = jobStatus[d]
               /\ connStatus'[d] = connStatus[d]
               /\ stored'[d] = stored[d]
    PROVE  \A d \in Connections : Untouched(d)'
BY DEF Serial, Untouched, Exists

\* StartJob is SyncJobs' Begin: nobody is in a job that is queued.
LEMMA StartSerial ==
    ASSUME IInv, Serial, NEW w \in Workers, NEW c \in Connections, StartJob(w, c),
           jobStatus[c] = "queued"
    PROVE  Serial' /\ Jobs!Next
<1>1. run[w] \in RunType /\ RunSerial(run[w]) /\ TypeOK
  BY DEF IInv, TypeOK, Serial
<1>2. /\ c \in run[w].todo
      /\ Exists(c)
      /\ jobStatus' = [jobStatus EXCEPT ![c] = "running"]
      /\ UNCHANGED <<households, connStatus, stored>>
  BY DEF StartJob
<1>3. \A v \in Workers : run[v].pc \in InJob => run[v].conn # c
  BY DEF Serial, RunSerial
<1>4. Idle("authenticate", run[w].todo \ {c}) \in RunType
  BY <1>1, IdleType DEF RunType, PCs, InJob, Calling
<1>5. PICK r \in RunType : r = [Idle("authenticate", run[w].todo \ {c}) EXCEPT
                                    !.conn = c, !.place = At("accounts", c)]
  BY <1>4 DEF RunType, Place, PlaceKinds, JobKinds, At
<1>6. /\ r.todo = run[w].todo \ {c} /\ r.conn = c
      /\ r.place = At("accounts", c) /\ r.failed = FALSE
  BY <1>5 DEF Idle
<1>7. run' = [run EXCEPT ![w] = r]
  BY <1>5 DEF StartJob
<1>8. /\ jobStatus'[c] = "running"
      /\ \A d \in Connections \ {c} : jobStatus'[d] = jobStatus[d]
      /\ stored'[c] = {} /\ connStatus'[c] \in ItemStatuses
  BY <1>1, <1>2 DEF TypeOK, Serial, Untouched
<1>9. r.place.kind \notin AccountKinds
  BY <1>6 DEF At, AccountKinds
<1>10. RunSerial(r)'
  BY <1>6, <1>8, <1>9 DEF RunSerial
<1>11. \A d \in Connections : Untouched(d)'
  <2>1. Untouched(c)'
    BY <1>8 DEF Untouched
  <2>. QED
    BY <1>1, <1>2, <1>8, <2>1, OthersUntouched
<1>12. Jobs!Begin(c)
  BY <1>2 DEF Jobs!Begin, Jobs!SetStatus
<1>13. \A d \in Connections \ {c} : jobStatus'[d] = jobStatus[d] /\ stored'[d] = stored[d]
  BY <1>2, <1>8
<1>14. \A v \in Workers \ {w} : run[v].pc \in InJob => run[v].conn # c
  BY <1>3
<1>15. r.pc \in InJob => r.conn = c
  BY <1>6
<1>16. Serial'
  BY <1>7, <1>10, <1>11, <1>13, <1>14, <1>15, SerialTo
<1>. QED
  BY <1>12, <1>16 DEF Jobs!Next

\* FailJob is SyncJobs' Fail: nothing of the job has been saved.
LEMMA FailSerial ==
    ASSUME IInv, Serial, NEW w \in Workers, GiveUpJob(w) \/ AccountsMalformed(w)
    PROVE  Serial' /\ Jobs!Next
<1>1. run[w] \in RunType /\ RunKnows(run[w]) /\ RunSerial(run[w]) /\ TypeOK
  BY DEF IInv, TypeOK, RunsKeepCount, Serial
<1>2. PICK c \in Connections : c = run[w].conn
  BY <1>1 DEF RunKnows, GiveUpJob, AccountsMalformed, InJob, Calling, Saving
<1>3. /\ Exists(c)
      /\ jobStatus' = [jobStatus EXCEPT ![c] = "failed"]
      /\ connStatus' = [connStatus EXCEPT ![c] = ItemStatus(run[w])]
      /\ run' = [run EXCEPT ![w] = Idle("picking", run[w].todo)]
      /\ UNCHANGED <<households, stored>>
  BY <1>2 DEF GiveUpJob, AccountsMalformed, FailJob
<1>4. run[w].pc \in InJob /\ run[w].place = At("accounts", c)
  BY <1>1, <1>2 DEF RunKnows, GiveUpJob, AccountsMalformed, InJob, Calling, Saving
<1>5. jobStatus[c] = "running" /\ stored[c] = {}
  BY <1>1, <1>2, <1>3, <1>4 DEF RunSerial, Exists, Verdicts
<1>6. ItemStatus(run[w]) \in ItemStatuses
  BY <1>1, <1>2, <1>3, WorkerAssumption DEF ItemStatus, RunType, Serial, Untouched
<1>7. PICK r \in RunType : r = Idle("picking", run[w].todo)
  BY <1>1, IdleType DEF RunType, PCs
<1>8. /\ jobStatus'[c] = "failed" /\ connStatus'[c] \in ItemStatuses
      /\ \A d \in Connections \ {c} :
             jobStatus'[d] = jobStatus[d] /\ connStatus'[d] = connStatus[d]
  BY <1>1, <1>3, <1>6 DEF TypeOK
<1>9. RunSerial(r)' /\ r.pc \notin InJob
  BY <1>7 DEF RunSerial, Idle, InJob, Calling, Saving
<1>10. \A d \in Connections : Untouched(d)'
  <2>1. Untouched(c)'
    BY <1>8 DEF Untouched
  <2>. QED
    BY <1>1, <1>3, <1>8, <2>1, OthersUntouched
<1>11. Jobs!Fail(c)
  BY <1>3, <1>5, <1>6 DEF Jobs!Fail, Jobs!SetStatus
<1>12. \A d \in Connections \ {c} : jobStatus'[d] = jobStatus[d] /\ stored'[d] = stored[d]
  BY <1>3, <1>8
<1>13. \A v \in Workers \ {w} : run[v].pc \in InJob => run[v].conn # c
  BY <1>2, <1>4, OnlyOne
<1>14. run' = [run EXCEPT ![w] = r]
  BY <1>3, <1>7
<1>15. Serial'
  BY <1>9, <1>10, <1>12, <1>13, <1>14, SerialTo
<1>. QED
  BY <1>11, <1>15 DEF Jobs!Next

\* A failed part is remembered and invisible.
LEMMA LosePartSerial ==
    ASSUME IInv, Serial, NEW w \in Workers, GiveUpFetch(w) \/ SaveFails(w)
    PROVE  Serial' /\ UNCHANGED Jobs!vars
<1>1. run[w] \in RunType /\ RunKnows(run[w]) /\ RunSerial(run[w])
  BY DEF IInv, TypeOK, RunsKeepCount, Serial
<1>2. run[w].pc \in {"fetch", "save"} /\ Advance(w, TRUE) /\ UNCHANGED dbVars
  BY DEF GiveUpFetch, SaveFails
<1>3. PICK r \in RunType :
          /\ run' = [run EXCEPT ![w] = r]
          /\ r.todo = run[w].todo
          /\ r.conn = run[w].conn
          /\ r.pc \in InJob
          /\ r.place # At("accounts", r.conn)
          /\ r.place.kind \in AccountKinds => r.place.of \notin r.left
          /\ Behind(r.conn, r.place, r.left)
                 = Behind(r.conn, run[w].place, run[w].left) \cup {run[w].place}
          /\ run[w].place \notin Behind(r.conn, run[w].place, run[w].left)
  BY <1>1, <1>2, AdvanceSerial
<1>4. run[w].pc \in InJob /\ run[w].place # At("accounts", run[w].conn)
  BY <1>1, <1>2 DEF RunKnows, InJob, Calling, Saving
<1>5. RunSerial(r)
  BY <1>1, <1>3, <1>4 DEF RunSerial
<1>. QED
  BY <1>2, <1>3, <1>4, <1>5, LocalSerialTo

\* UpsertAccounts is StoreAccounts, Save is StorePart.
LEMMA StoreSerial ==
    ASSUME IInv, Serial, NEW w \in Workers, UpsertAccounts(w) \/ Save(w)
    PROVE  Serial' /\ Jobs!Next
<1>1. run[w] \in RunType /\ RunKnows(run[w]) /\ RunSerial(run[w]) /\ TypeOK
  BY DEF IInv, TypeOK, RunsKeepCount, Serial
<1>2. run[w].pc \in {"upsert_accounts", "save"} /\ run[w].pc \in InJob
  BY DEF UpsertAccounts, Save, InJob, Saving
<1>3. PICK c \in Connections : c = run[w].conn
  BY <1>1, <1>2 DEF RunKnows
<1>4. /\ Exists(c)
      /\ stored' = [stored EXCEPT ![c] = stored[c] \cup {run[w].place}]
      /\ Advance(w, FALSE)
      /\ UNCHANGED <<households, jobStatus>>
      /\ \/ /\ run[w].place = At("accounts", c)
            /\ connStatus' = [connStatus EXCEPT ![c] = ItemStatus(run[w])]
         \/ /\ run[w].place \in PartsOf(c) \ {At("accounts", c)}
            /\ UNCHANGED connStatus
  BY <1>1, <1>2, <1>3 DEF UpsertAccounts, Save, RunKnows
<1>5. jobStatus[c] = "running" /\ jobStatus'[c] = "running"
  BY <1>1, <1>2, <1>3, <1>4 DEF RunSerial, Exists, Verdicts
<1>6. ItemStatus(run[w]) \in ItemStatuses
  BY <1>1, <1>3, <1>4, WorkerAssumption DEF ItemStatus, RunType, Serial, Untouched
<1>7. PICK r \in RunType :
          /\ run' = [run EXCEPT ![w] = r]
          /\ r.todo = run[w].todo
          /\ r.conn = run[w].conn
          /\ r.pc \in InJob
          /\ r.place # At("accounts", r.conn)
          /\ r.place.kind \in AccountKinds => r.place.of \notin r.left
          /\ r.failed = (run[w].failed \/ FALSE)
          /\ Behind(r.conn, r.place, r.left)
                 = Behind(r.conn, run[w].place, run[w].left) \cup {run[w].place}
          /\ run[w].place \notin Behind(r.conn, run[w].place, run[w].left)
  BY <1>1, <1>2, <1>4, AdvanceSerial
<1>8. /\ stored'[c] = stored[c] \cup {run[w].place}
      /\ \A d \in Connections \ {c} : stored'[d] = stored[d]
      /\ \A d \in Connections \ {c} : connStatus'[d] = connStatus[d]
      /\ connStatus'[c] \in ItemStatuses
  BY <1>1, <1>4, <1>6 DEF TypeOK, Serial, Untouched
<1>9. run[w].place = At("accounts", c) =>
          /\ stored[c] = {} /\ ~run[w].failed
          /\ Behind(c, run[w].place, run[w].left) = {}
  <2>1. run[w].left \in SUBSET AccountsOf[c]
    BY <1>1, <1>2, <1>3 DEF RunKnows
  <2>. QED
    BY <1>1, <1>2, <1>3, <1>4, <2>1, BehindEnds DEF RunSerial
<1>10. run[w].place # At("accounts", c) =>
          /\ At("accounts", c) \in stored[c]
          /\ stored[c] \subseteq Behind(c, run[w].place, run[w].left)
          /\ run[w].failed => stored[c] # Behind(c, run[w].place, run[w].left)
  BY <1>1, <1>2, <1>3, <1>4 DEF RunSerial
<1>11. /\ At("accounts", c) \in stored'[c]
       /\ stored'[c] \subseteq Behind(c, r.place, r.left)
       /\ r.failed => stored'[c] # Behind(c, r.place, r.left)
  <2>. DEFINE p == run[w].place
              B == Behind(c, p, run[w].left)
  <2>1. /\ stored'[c] = stored[c] \cup {p}
        /\ Behind(c, r.place, r.left) = B \cup {p} /\ p \notin B
        /\ r.failed => run[w].failed
    BY <1>3, <1>7, <1>8
  <2>2. stored[c] \subseteq B /\ (r.failed => stored[c] # B)
    BY <1>9, <1>10, <2>1
  <2>3. At("accounts", c) \in stored[c] \cup {p}
    BY <1>10
  <2>. QED
    BY <2>1, <2>2, <2>3
<1>12. RunSerial(r)'
  BY <1>3, <1>5, <1>7, <1>11 DEF RunSerial
<1>13. \A d \in Connections : Untouched(d)'
  <2>1. Untouched(c)'
    BY <1>5, <1>8 DEF Untouched
  <2>. QED
    BY <1>1, <1>4, <1>8, <2>1, OthersUntouched
<1>14. Jobs!StoreAccounts(c) \/ Jobs!StorePart(c)
  <2>1. CASE run[w].place = At("accounts", c)
    <3>1. stored' = [stored EXCEPT ![c] = {Jobs!At("accounts", c)}]
      BY <1>4, <1>9, <2>1, SameParts
    <3>2. \E st \in ItemStatuses : connStatus' = [connStatus EXCEPT ![c] = st]
      BY <1>4, <1>6, <2>1
    <3>. QED
      BY <1>4, <1>5, <1>9, <2>1, <3>1, <3>2 DEF Jobs!StoreAccounts
  <2>2. CASE run[w].place # At("accounts", c)
    <3>1. run[w].place \in PartsOf(c) \ stored[c]
      BY <1>3, <1>4, <1>7, <1>10, <2>2
    <3>2. Jobs!At("accounts", c) \in stored[c] /\ run[w].place \in Jobs!PartsOf(c) \ stored[c]
      BY <1>10, <2>2, <3>1, SameParts
    <3>3. UNCHANGED <<households, jobStatus, connStatus>>
      BY <1>4, <2>2
    <3>. QED
      BY <1>4, <1>5, <3>2, <3>3 DEF Jobs!StorePart
  <2>. QED
    BY <2>1, <2>2
<1>15. \A d \in Connections \ {c} : jobStatus'[d] = jobStatus[d] /\ stored'[d] = stored[d]
  BY <1>4, <1>8
<1>16. \A v \in Workers \ {w} : run[v].pc \in InJob => run[v].conn # c
  BY <1>2, <1>3, OnlyOne
<1>17. run' = [run EXCEPT ![w] = r] /\ r.conn = c
  BY <1>3, <1>7
<1>18. Serial'
  BY <1>12, <1>13, <1>15, <1>16, <1>17, SerialTo
<1>. QED
  BY <1>14, <1>18 DEF Jobs!Next

\* FinishJob is Complete: any_account_failed says whether something is missing.
LEMMA FinishSerial ==
    ASSUME IInv, Serial, NEW w \in Workers, FinishJob(w)
    PROVE  Serial' /\ Jobs!Next
<1>1. /\ run[w] \in RunType /\ RunKnows(run[w]) /\ RunSerial(run[w]) /\ TypeOK
      /\ run[w].pc = "finish" /\ run[w].pc \in InJob
  BY DEF IInv, TypeOK, RunsKeepCount, Serial, FinishJob, InJob, Saving
<1>2. PICK c \in Connections : c = run[w].conn
  BY <1>1 DEF RunKnows
<1>3. /\ Exists(c)
      /\ jobStatus' = [jobStatus EXCEPT ![c] =
                          IF run[w].failed THEN "partially_completed" ELSE "completed"]
      /\ run' = [run EXCEPT ![w] = Idle("picking", run[w].todo)]
      /\ UNCHANGED <<households, connStatus, stored>>
  BY <1>2 DEF FinishJob
<1>4. /\ run[w].place = At("finished", c) /\ run[w].place # At("accounts", c)
      /\ Behind(c, run[w].place, run[w].left) = PartsOf(c)
  <2>1. run[w].place = At("finished", c) /\ run[w].left \in SUBSET AccountsOf[c]
    BY <1>1, <1>2 DEF RunKnows
  <2>. QED
    BY <2>1, BehindEnds DEF At
<1>5. jobStatus[c] = "running"
  BY <1>1, <1>2, <1>3 DEF RunSerial, Exists, Verdicts
<1>6. /\ stored[c] # {}
      /\ run[w].failed <=> stored[c] # PartsOf(c)
  <2>1. /\ At("accounts", c) \in stored[c]
        /\ stored[c] \subseteq PartsOf(c)
        /\ run[w].failed => stored[c] # PartsOf(c)
    BY <1>1, <1>2, <1>3, <1>4 DEF RunSerial
  <2>2. ~run[w].failed => PartsOf(c) \subseteq stored[c]
    BY <1>1, <1>2, <1>3, <1>4 DEF RunKnows
  <2>. QED
    BY <2>1, <2>2
<1>7. PICK r \in RunType : r = Idle("picking", run[w].todo)
  BY <1>1, IdleType DEF RunType, PCs
<1>8. /\ jobStatus'[c] \in Verdicts
      /\ \A d \in Connections \ {c} : jobStatus'[d] = jobStatus[d]
  BY <1>1, <1>3 DEF TypeOK, Verdicts
<1>9. RunSerial(r)' /\ r.pc \notin InJob
  BY <1>7 DEF RunSerial, Idle, InJob, Calling, Saving
<1>10. \A d \in Connections : Untouched(d)'
  <2>1. Untouched(c)'
    BY <1>3, <1>8 DEF Untouched, Serial, Exists, Verdicts
  <2>. QED
    BY <1>1, <1>3, <1>8, <2>1, OthersUntouched
<1>11. Jobs!Complete(c)
  BY <1>3, <1>5, <1>6, SameParts DEF Jobs!Complete, Jobs!SetStatus
<1>12. \A d \in Connections \ {c} : jobStatus'[d] = jobStatus[d] /\ stored'[d] = stored[d]
  BY <1>3, <1>8
<1>13. \A v \in Workers \ {w} : run[v].pc \in InJob => run[v].conn # c
  BY <1>1, <1>2, OnlyOne
<1>14. run' = [run EXCEPT ![w] = r]
  BY <1>3, <1>7
<1>15. Serial'
  BY <1>9, <1>10, <1>12, <1>13, <1>14, SerialTo
<1>. QED
  BY <1>11, <1>15 DEF Jobs!Next

\* What the API does is the same in both.
LEMMA ApiSerial ==
    ASSUME IInv, Serial, Api
    PROVE  Serial' /\ Jobs!Next
<1>1. CASE \E c \in Connections, st \in ItemStatuses : CreateConnection(c, st)
  <2>1. PICK c \in Connections, st \in ItemStatuses : CreateConnection(c, st)
    BY <1>1
  <2>2. Jobs!Create(c)
    BY <2>1 DEF CreateConnection, Jobs!Create, Jobs!SetStatus
  <2>3. /\ jobStatus[c] = "absent" /\ jobStatus'[c] = "queued" /\ connStatus'[c] = st
        /\ \A d \in Connections \ {c} :
               jobStatus'[d] = jobStatus[d] /\ connStatus'[d] = connStatus[d]
        /\ UNCHANGED <<stored, run>>
    BY <2>1 DEF CreateConnection, IInv, TypeOK
  <2>4. \A d \in Connections : Untouched(d)'
    BY <2>3 DEF Serial, Untouched, Exists
  <2>5. ASSUME NEW w \in Workers PROVE RunSerial(run[w])'
    <3>1. run[w] \in RunType /\ RunSerial(run[w]) /\ RunKnows(run[w]) /\ run'[w] = run[w]
      BY <2>3 DEF IInv, TypeOK, Serial, RunsKeepCount
    <3>2. run[w].pc \in InJob => run[w].conn \in Connections \ {c}
      BY <2>3, <3>1 DEF RunKnows
    <3>. QED
      BY <2>3, <3>1, <3>2 DEF RunSerial, Exists, RunType
  <2>. QED
    BY <2>2, <2>3, <2>4, <2>5 DEF Serial, Apart, Jobs!Next
<1>2. CASE \E h \in Households : DeleteHousehold(h)
  <2>1. PICK h \in Households : DeleteHousehold(h)
    BY <1>2
  <2>2. Jobs!Delete(h)
    BY <2>1, SameParts DEF DeleteHousehold, Jobs!Delete
  <2>3. run' = run /\ \A c \in Connections :
            \/ /\ jobStatus'[c] = jobStatus[c] /\ connStatus'[c] = connStatus[c]
               /\ stored'[c] = stored[c]
            \/ jobStatus'[c] \in {"absent", "deleted"} /\ stored'[c] = {}
    <3>1. \A c \in Connections : jobStatus[c] \in {"absent", "deleted"} \/ Exists(c)
      BY DEF IInv, TypeOK, Statuses, Exists, Verdicts
    <3>. QED
      BY <2>1, <3>1 DEF DeleteHousehold, IInv, TypeOK
  <2>4. \A c \in Connections : jobStatus[c] # "absent" => jobStatus'[c] # "absent"
    BY <2>1 DEF DeleteHousehold, IInv, TypeOK
  <2>5. \A d \in Connections : Untouched(d)'
    BY <2>3 DEF Serial, Untouched, Exists, Verdicts
  <2>6. ASSUME NEW w \in Workers PROVE RunSerial(run[w])'
    <3>1. run[w] \in RunType /\ RunSerial(run[w]) /\ RunKnows(run[w]) /\ run'[w] = run[w]
      BY <2>3 DEF IInv, TypeOK, Serial, RunsKeepCount
    <3>. QED
      BY <2>3, <2>4, <3>1 DEF RunSerial, RunKnows, Exists, Verdicts
  <2>. QED
    BY <2>2, <2>3, <2>5, <2>6 DEF Serial, Apart, Jobs!Next
<1>. QED
  BY <1>1, <1>2 DEF Api

\* Every step of a worker is a step of its job, or invisible.
LEMMA SerialNext ==
    ASSUME IInv, Serial, Claimed, [Next]_vars
    PROVE  Serial' /\ [Jobs!Next]_(Jobs!vars)
<1>1. ASSUME NEW w \in Workers, WorkerStep(w) \/ Crash(w) \/ Restart(w)
      PROVE  Serial' /\ (Jobs!Next \/ UNCHANGED Jobs!vars)
  BY <1>1, StartSerial, FailSerial, LosePartSerial, StoreSerial, FinishSerial, LocalSerial
     DEF WorkerStep, Claimed
<1>2. CASE UNCHANGED vars
  BY <1>2 DEF vars, Serial, RunSerial, Apart, Untouched, Exists, Jobs!vars
<1>. QED
  BY <1>1, <1>2, ApiSerial DEF Next, Processes

LEMMA SerialInit == Init => Serial /\ Jobs!Init
<1>1. RunSerial(Idle("polling", {})) \/ ~Init
  BY IdleSerial DEF PCs, InJob, Calling, Saving
<1>2. Init => Apart
  BY DEF Init, Apart, Idle, InJob, Calling, Saving
<1>. QED
  BY <1>1, <1>2 DEF Init, Serial, Untouched, Exists, Verdicts, Jobs!Init

\* All that several worker processes lack is a claim: if no job is started that
\* another worker has taken since the list was read, then however many there are and
\* whatever they go through, jobs behave as promised: each runs at most once, and
\* its verdict says what has been saved.
THEOREM ClaimedJobsImplement == Spec /\ [][Claimed]_vars => ImplementsSyncJobs
<1>1. IInv /\ Serial /\ [Next]_vars /\ [Claimed]_vars => Serial' /\ [Jobs!Next]_(Jobs!vars)
  <2>. SUFFICES ASSUME IInv, Serial, [Next]_vars, [Claimed]_vars
                PROVE  Serial' /\ [Jobs!Next]_(Jobs!vars)
    OBVIOUS
  <2>1. CASE Claimed
    BY <2>1, SerialNext
  <2>2. CASE UNCHANGED vars
    BY <2>2 DEF vars, Serial, RunSerial, Apart, Untouched, Exists, Jobs!vars
  <2>. QED
    BY <2>1, <2>2
<1>. QED
  BY <1>1, SerialInit, Invariant, PTL DEF Spec, ImplementsSyncJobs, Jobs!Spec

-----------------------------------------------------------------------------
(* One worker needs no claim *)

OneWorker == \A v, w \in Workers : v = w

\* What it read as queued is queued until it starts it, or deleted.
ListQueued == \A w \in Workers : \A c \in run[w].todo : jobStatus[c] \in {"queued", "deleted"}

LEMMA ListIsClaimed == ListQueued => Claimed
BY DEF ListQueued, Claimed, StartJob, Exists, Verdicts

\* Only the job the worker is in gets another status, and that one is not on its list.
LEMMA ListStep ==
    ASSUME OneWorker, IInv, Serial, ListQueued, [Next]_vars
    PROVE  ListQueued'
<1>1. /\ run \in [Workers -> RunType] /\ TypeOK
      /\ \A w \in Workers : RunKnows(run[w]) /\ RunSerial(run[w])
  BY DEF IInv, TypeOK, RunsKeepCount, Serial
<1>2. ASSUME NEW w \in Workers, WorkerStep(w) \/ Crash(w) \/ Restart(w) PROVE ListQueued'
  <2>. SUFFICES \A c \in run'[w].todo : jobStatus'[c] \in {"queued", "deleted"}
    BY DEF OneWorker, ListQueued
  <2>1. \A c \in run[w].todo : c \in Connections /\ jobStatus[c] \in {"queued", "deleted"}
    BY <1>1 DEF ListQueued, RunType
  <2>2. CASE Poll(w)
    BY <1>1, <2>2 DEF Poll, Queued, dbVars
  <2>3. ASSUME NEW c \in Connections, StartJob(w, c)
        PROVE  \A d \in run'[w].todo : jobStatus'[d] \in {"queued", "deleted"}
    <3>1. run'[w].todo = run[w].todo \ {c}
      BY <1>1, <2>3 DEF StartJob, Idle
    <3>. QED
      BY <1>1, <2>1, <2>3, <3>1 DEF StartJob, TypeOK
  <2>4. CASE GiveUpJob(w) \/ AccountsMalformed(w) \/ FinishJob(w)
    <3>1. run'[w].todo = run[w].todo
      BY <1>1, <2>4 DEF GiveUpJob, AccountsMalformed, FailJob, FinishJob, Idle
    <3>2. run[w].pc \in InJob /\ Exists(run[w].conn)
      BY <2>4 DEF GiveUpJob, AccountsMalformed, FailJob, FinishJob, InJob, Calling, Saving
    <3>3. run[w].conn \notin run[w].todo
      BY <1>1, <2>1, <3>2 DEF RunSerial, Exists, Verdicts
    <3>4. \A d \in Connections \ {run[w].conn} : jobStatus'[d] = jobStatus[d]
      BY <1>1, <2>4 DEF GiveUpJob, AccountsMalformed, FailJob, FinishJob, TypeOK
    <3>. QED
      BY <2>1, <3>1, <3>3, <3>4
  <2>5. CASE \/ ListDone(w) \/ Restart(w) \/ ReadItemId(w) \/ CallFails(w) \/ Authenticate(w)
             \/ (\E st \in ItemStatuses : GetItem(w, st)) \/ GetAccounts(w) \/ Fetch(w)
    <3>1. run'[w].todo = run[w].todo /\ jobStatus' = jobStatus
      BY <1>1, <2>5 DEF ListDone, Restart, ReadItemId, CallFails, Authenticate, GetItem,
                        GetAccounts, Fetch, RunType, dbVars
    <3>. QED
      BY <2>1, <3>1
  <2>6. CASE UpsertAccounts(w) \/ GiveUpFetch(w) \/ Save(w) \/ SaveFails(w)
    <3>1. PICK failure \in BOOLEAN : Advance(w, failure)
      BY <2>6 DEF UpsertAccounts, GiveUpFetch, Save, SaveFails
    <3>2. jobStatus' = jobStatus
      BY <2>6 DEF UpsertAccounts, GiveUpFetch, Save, SaveFails, dbVars
    <3>3. run'[w].todo = run[w].todo
      <4>1. PICK p \in Place :
              run' = [run EXCEPT ![w] = [run[w] EXCEPT !.pc = PcAt(p), !.place = p,
                                            !.left = @ \ {p.of}, !.attempt = 1,
                                            !.failed = @ \/ failure, !.tx = FALSE]]
        BY <3>1 DEF Advance
      <4>. QED
        BY <1>1, <4>1 DEF RunType
    <3>. QED
      BY <2>1, <3>2, <3>3
  <2>7. CASE UpsertAccountsFails(w) \/ LoseRow(w) \/ Crash(w)
    BY <1>1, <2>7 DEF UpsertAccountsFails, LoseRow, Crash, Idle
  <2>. QED
    BY <1>2, <2>2, <2>3, <2>4, <2>5, <2>6, <2>7 DEF WorkerStep
<1>3. CASE Api
  <2>1. UNCHANGED run /\ \A c \in Connections :
            jobStatus[c] \in {"queued", "deleted"} => jobStatus'[c] \in {"queued", "deleted"}
    BY <1>1, <1>3 DEF Api, CreateConnection, DeleteHousehold, TypeOK
  <2>. QED
    BY <1>1, <2>1 DEF ListQueued, RunType
<1>4. CASE UNCHANGED vars
  BY <1>4 DEF vars, ListQueued
<1>. QED
  BY <1>2, <1>3, <1>4 DEF Next, Processes

\* With one worker process, whatever it goes through, jobs behave as promised.
THEOREM OneWorkerImplements ==
    ASSUME OneWorker
    PROVE  Spec => ImplementsSyncJobs
<1>1. Init => ListQueued
  BY DEF Init, ListQueued, Idle
<1>2. IInv /\ Serial /\ ListQueued /\ [Next]_vars =>
          Serial' /\ ListQueued' /\ [Jobs!Next]_(Jobs!vars)
  BY SerialNext, ListIsClaimed, ListStep
<1>. QED
  BY <1>1, <1>2, SerialInit, Invariant, PTL DEF Spec, ImplementsSyncJobs, Jobs!Spec

=============================================================================
