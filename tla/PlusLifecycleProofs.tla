------------------------- MODULE PlusLifecycleProofs -------------------------
(* What TLAPS proves of PlusLifecycle, for every number of plugins, event  *)
(* tasks and incarnations.                                                 *)
EXTENDS PlusLifecycle, TLAPS

(***************************************************************************)
(* The invariant.  Rooms: what a plugin process has in its pool fits.      *)
(* Alive: a process that lives is that of the pointer of its plugin, or    *)
(* the one enable_plus has just made and still holds, or was left behind   *)
(* by a constructor that failed.  Making: where enable_plus stands says    *)
(* what proc and the pointer are.  Calm: as long as the guard has raised   *)
(* no alarm it disables nothing, so the uuid and the pointer of a plugin   *)
(* change only by what the main thread does.  Looking: a pointer that the  *)
(* guard has tested and not yet followed can only have been reset by the   *)
(* main thread, which then stands before the uuid of the same plugin.      *)
(* GuardStarts: the guard comes after the start.  Addressees: an event     *)
(* task that has found its plugin enabled has a plugin.                    *)
(***************************************************************************)
Holding == {"publish", "probe", "unpublish", "return"}

Rooms == \A i \in Lives : run[i].queued + run[i].running <= MaxMail

Orphan(i) == why = "create_failed" /\ pc["main"] = "create" /\ i = made

HeldBy(i) == \/ process[owner[i]] = i
             \/ proc = i /\ cur["main"] = owner[i] /\ pc["main"] \in Holding
             \/ Orphan(i) /\ cur["main"] = owner[i]

Alive == \A i \in Lives : Live(i) => owner[i] \in Plus /\ HeldBy(i)

Making ==
  /\ \A i \in Lives : i > made => run[i].stage = "none"
  /\ pc["main"] = "create" => made # 0 /\ (Up => run[made].stage = "none")
  /\ \A p \in Plus : process[p] # 0 =>
       /\ process[p] <= made /\ owner[process[p]] = p
       /\ run[process[p]].stage # "none"
  /\ IF pc["main"] \in Holding
     THEN proc = made /\ proc # 0 /\ owner[proc] = cur["main"] /\ run[proc].stage # "none"
     ELSE proc = 0
  /\ pc["main"] \in {"create", "publish"} => process[cur["main"]] = 0
  /\ pc["main"] \in {"probe", "unpublish", "return"} => process[cur["main"]] \in {0, proc}

Watching == {"none", "scan", "exist", "use", "handle"}

Calm ==
  ~alarm =>
    /\ pc["guard"] \in Watching
    /\ \A p \in Plus : process[p] # 0 /\ ~Withdrawing(p) => uuid[p] = process[p]
    /\ \A p \in Plus : process[p] = 0 /\ cur["main"] # p => uuid[p] = 0
    /\ pc["main"] \in {"create", "publish", "probe", "return"} => uuid[cur["main"]] = made
    /\ pc["main"] \in {"probe", "unpublish", "return"} => process[cur["main"]] = proc
    /\ pc["main"] = "unpublish" => uuid[cur["main"]] = 0
    /\ pc["main"] \in {"send", "await", "wait", "reset"} => process[cur["main"]] # 0
    /\ pc["main"] = "clear" => process[cur["main"]] = 0
    /\ why # "null_pointer"

Rivals == pc["main"] = "clear" /\ cur["main"] = cur["guard"]

Looking ==
  /\ pc["guard"] = "use" /\ process[cur["guard"]] # seen => Rivals
  /\ why = "dangling" => Rivals

GuardStarts == ~started => pc["guard"] = "none"

Addressees == \A d \in Deliverers : sender[d].at = "enabled" => sender[d].plus \in Plus

IInv == /\ TypeOK /\ Rooms /\ Alive /\ Making /\ Calm /\ Looking
        /\ GuardStarts /\ Addressees

-----------------------------------------------------------------------------
(***************************************************************************)
(* What the steps do to the processes.                                     *)
(***************************************************************************)
RunTypes == run \in [Lives -> Process]

LEMMA FreshProcess ==
  \A st \in Stage : AtStage(st) \in Process /\ AtStage(st).stage = st
                    /\ AtStage(st).queued + AtStage(st).running <= MaxMail
BY BoundAssumption DEF AtStage, Process

\* Processes die, or one of them goes on; none is made.
Tame(r) ==
  /\ r \in [Lives -> Process]
  /\ \A i \in Lives : /\ r[i].queued + r[i].running <= MaxMail
                      /\ r[i].stage \notin {"none", "dead"} => Live(i)
                      /\ r[i].stage = "none" <=> run[i].stage = "none"

LEMMA SameIsTame == RunTypes /\ Rooms => Tame(run)
BY DEF RunTypes, Rooms, Tame, Live, Lives

LEMMA KillsTame ==
  ASSUME RunTypes, Rooms, NEW i \in LifeOr0, Kills(i)
  PROVE  Tame(run') /\ ~Live(i)'
<1>1. CASE Live(i)
  <2>1. /\ i \in Lives /\ run' = [run EXCEPT ![i] = AtStage("dead")]
        /\ AtStage("dead") \in Process /\ AtStage("dead").stage = "dead"
        /\ AtStage("dead").queued + AtStage("dead").running <= MaxMail
    BY <1>1, FreshProcess DEF Kills, Live, Lives, LifeOr0, Stage
  <2>2. run[i].stage \notin {"none", "dead"}
    BY <1>1 DEF Live
  <2> QED
    BY <2>1, <2>2 DEF RunTypes, Rooms, Tame, Live, Lives
<1>2. CASE ~Live(i)
  BY <1>2, SameIsTame DEF Kills, Live
<1> QED
  BY <1>1, <1>2

LEMMA MainEndsTame ==
  ASSUME RunTypes, Rooms, NEW cause, MainEnds(cause)
  PROVE  Tame(run') /\ why' = cause
<1>1. /\ AtStage("dead") \in Process /\ AtStage("dead").stage = "dead"
      /\ AtStage("dead").queued + AtStage("dead").running <= MaxMail
  BY FreshProcess DEF Stage
<1>2. run' \in [Lives -> Process]
  BY <1>1 DEF MainEnds, RunTypes
<1>3. \A i \in Lives : IF Live(i) THEN run'[i] = AtStage("dead") ELSE run'[i] = run[i]
  BY DEF MainEnds
<1> QED
  BY <1>1, <1>2, <1>3 DEF RunTypes, Rooms, Tame, Live, Lives, MainEnds

LEMMA DeliversTame ==
  ASSUME RunTypes, Rooms, NEW i \in LifeOr0, NEW e \in {"event", "exit"}, Delivers(i, e)
  PROVE  Tame(run')
<1>1. CASE Reaches(i)
  <2>1. /\ i \in Lives /\ Live(i) /\ run' = [run EXCEPT ![i].mailbox = Append(@, e)]
    BY <1>1 DEF Delivers, Reaches, Live, Lives, LifeOr0
  <2>2. run[i] \in Process
    BY <2>1 DEF RunTypes
  <2>3. Append(run[i].mailbox, e) \in Seq({"event", "exit"})
    BY <2>2 DEF Process
  <2>4. run' \in [Lives -> Process]
    BY <2>1, <2>2, <2>3 DEF RunTypes, Process
  <2>5. \A j \in Lives : /\ run'[j].queued = run[j].queued /\ run'[j].running = run[j].running
                         /\ run'[j].stage = run[j].stage
    BY <2>1 DEF RunTypes, Process
  <2> QED
    BY <2>4, <2>5 DEF Tame, Rooms, Live, Lives
<1>2. CASE ~Reaches(i)
  BY <1>2, SameIsTame DEF Delivers
<1> QED
  BY <1>1, <1>2

LEMMA PlusTame ==
  ASSUME RunTypes, Rooms, NEW i \in Lives, PlusStep(i)
  PROVE  Tame(run')
<1>0. /\ run[i] \in Process /\ i # 0
      /\ run[i].queued \in 0..MaxMail /\ run[i].running \in 0..MaxMail
      /\ run[i].queued + run[i].running <= MaxMail
  BY BoundAssumption DEF RunTypes, Process, Lives, Rooms
<1>1. ASSUME NEW st \in Stage \ {"none"}, Live(i), run' = [run EXCEPT ![i].stage = st]
      PROVE  Tame(run')
  <2>1. run' \in [Lives -> Process]
    BY <1>0, <1>1 DEF RunTypes, Process
  <2>2. \A j \in Lives : /\ run'[j].queued = run[j].queued /\ run'[j].running = run[j].running
                         /\ j # i => run'[j].stage = run[j].stage
    BY <1>1 DEF RunTypes, Process
  <2>3. run'[i].stage # "none"
    BY <1>1 DEF RunTypes, Process
  <2> QED
    BY <1>1, <2>1, <2>2, <2>3 DEF Tame, Rooms, Live, Lives
<1>2. CASE PlusStart(i)
  BY <1>0, <1>1, <1>2 DEF PlusStart, Live, Stage
<1>3. CASE PlusEnable(i)
  BY <1>0, <1>1, <1>3 DEF PlusEnable, Live, Stage
<1>4. CASE PlusOpenSlot(i)
  <2>1. run' = [run EXCEPT ![i].slot = TRUE]
    BY <1>4 DEF PlusOpenSlot
  <2>2. run' \in [Lives -> Process]
    BY <1>0, <2>1 DEF RunTypes, Process
  <2>3. \A j \in Lives : /\ run'[j].queued = run[j].queued /\ run'[j].running = run[j].running
                         /\ run'[j].stage = run[j].stage
    BY <2>1 DEF RunTypes, Process
  <2> QED
    BY <2>2, <2>3 DEF Tame, Rooms, Live, Lives
<1>5. CASE PlusAnswers(i)
  <2>1. run' = [run EXCEPT ![i].answers = TRUE]
    BY <1>5 DEF PlusAnswers
  <2>2. run' \in [Lives -> Process]
    BY <1>0, <2>1 DEF RunTypes, Process
  <2>3. \A j \in Lives : /\ run'[j].queued = run[j].queued /\ run'[j].running = run[j].running
                         /\ run'[j].stage = run[j].stage
    BY <2>1 DEF RunTypes, Process
  <2> QED
    BY <2>2, <2>3 DEF Tame, Rooms, Live, Lives
<1>6. CASE PlusDispatch(i)
  <2>1. /\ run' = [run EXCEPT ![i].mailbox = Tail(@), ![i].queued = @ + 1]
        /\ run[i].mailbox # <<>> /\ run[i].queued + run[i].running < MaxMail
    BY <1>6 DEF PlusDispatch, Receives
  <2>2. Tail(run[i].mailbox) \in Seq({"event", "exit"}) /\ run[i].queued + 1 \in 0..MaxMail
    BY <1>0, <2>1, BoundAssumption DEF Process
  <2>3. run' \in [Lives -> Process]
    BY <1>0, <2>1, <2>2 DEF RunTypes, Process
  <2>4. \A j \in Lives : /\ run'[j].running = run[j].running /\ run'[j].stage = run[j].stage
                         /\ j # i => run'[j].queued = run[j].queued
    BY <2>1 DEF RunTypes, Process
  <2>5. run'[i].queued = run[i].queued + 1
    BY <2>1 DEF RunTypes, Process
  <2> QED
    BY <1>0, <2>1, <2>3, <2>4, <2>5, BoundAssumption DEF Tame, Rooms, Live, Lives
<1>7. CASE PlusCallback(i)
  <2>1. /\ run' = [run EXCEPT ![i].queued = @ - 1, ![i].running = @ + 1]
        /\ run[i].queued > 0
    BY <1>7 DEF PlusCallback
  <2>2. run[i].queued - 1 \in 0..MaxMail /\ run[i].running + 1 \in 0..MaxMail
    BY <1>0, <2>1, BoundAssumption
  <2>3. run' \in [Lives -> Process]
    BY <1>0, <2>1, <2>2 DEF RunTypes, Process
  <2>4. \A j \in Lives : /\ run'[j].stage = run[j].stage
                         /\ j # i => /\ run'[j].queued = run[j].queued
                                     /\ run'[j].running = run[j].running
    BY <2>1 DEF RunTypes, Process
  <2>5. run'[i].queued = run[i].queued - 1 /\ run'[i].running = run[i].running + 1
    BY <2>1 DEF RunTypes, Process
  <2>6. run'[i].queued + run'[i].running <= MaxMail
    BY <1>0, <2>5, BoundAssumption
  <2> QED
    BY <2>3, <2>4, <2>6 DEF Tame, Rooms, Live, Lives
<1>8. CASE PlusCallbackEnds(i)
  <2>1. run' = [run EXCEPT ![i].running = @ - 1] /\ run[i].running > 0
    BY <1>8 DEF PlusCallbackEnds
  <2>2. run[i].running - 1 \in 0..MaxMail
    BY <1>0, <2>1, BoundAssumption
  <2>3. run' \in [Lives -> Process]
    BY <1>0, <2>1, <2>2 DEF RunTypes, Process
  <2>4. \A j \in Lives : /\ run'[j].stage = run[j].stage /\ run'[j].queued = run[j].queued
                         /\ j # i => run'[j].running = run[j].running
    BY <2>1 DEF RunTypes, Process
  <2>5. run'[i].running = run[i].running - 1
    BY <2>1 DEF RunTypes, Process
  <2>6. run'[i].queued + run'[i].running <= MaxMail
    BY <1>0, <2>4, <2>5, BoundAssumption
  <2> QED
    BY <2>3, <2>4, <2>6 DEF Tame, Rooms, Live, Lives
<1>9. CASE PlusStop(i)
  <2>1. /\ run' = [run EXCEPT ![i].stage = "stopping", ![i].mailbox = Tail(@)]
        /\ run[i].mailbox # <<>> /\ Live(i)
    BY <1>0, <1>9 DEF PlusStop, Receives, Live
  <2>2. Tail(run[i].mailbox) \in Seq({"event", "exit"}) /\ "stopping" \in Stage
    BY <1>0, <2>1 DEF Process, Stage
  <2>3. run' \in [Lives -> Process]
    BY <1>0, <2>1, <2>2 DEF RunTypes, Process
  <2>4. \A j \in Lives : /\ run'[j].queued = run[j].queued /\ run'[j].running = run[j].running
                         /\ j # i => run'[j].stage = run[j].stage
    BY <2>1 DEF RunTypes, Process
  <2>5. run'[i].stage = "stopping"
    BY <2>1 DEF RunTypes, Process
  <2> QED
    BY <2>1, <2>3, <2>4, <2>5 DEF Tame, Rooms, Live, Lives
<1>10. CASE PlusStopped(i)
  <2>1. i \in LifeOr0 /\ Kills(i)
    BY <1>10 DEF PlusStopped, Lives, LifeOr0
  <2> QED
    BY <2>1, KillsTame
<1> QED
  BY <1>2, <1>3, <1>4, <1>5, <1>6, <1>7, <1>8, <1>9, <1>10 DEF PlusStep

-----------------------------------------------------------------------------
(***************************************************************************)
(* The types, in parts.                                                    *)
(***************************************************************************)
PlainTypes ==
  /\ why \in Causes
  /\ started \in BOOLEAN /\ leaving \in BOOLEAN /\ alarm \in BOOLEAN
  /\ todo \in [Threads -> SUBSET Plus] /\ seen \in LifeOr0
  /\ calls \subseteq Lives
  /\ sender \in [Deliverers -> [at : {"idle", "enabled", "addressed"},
                                plus : Plus \cup {NoPlus}, to : LifeOr0]]
  /\ crashed \subseteq Lives /\ slow \subseteq Lives

Away == {"none", "ready", "next", "scan", "wait_all"}

CoreTypes ==
  /\ pc \in [Threads -> MainPC \cup GuardPC]
  /\ pc["main"] \in MainPC /\ pc["guard"] \in GuardPC
  /\ cur \in [Threads -> Plus \cup {NoPlus}]
  /\ uuid \in [Plus -> LifeOr0] /\ process \in [Plus -> LifeOr0]
  /\ proc \in LifeOr0 /\ made \in LifeOr0
  /\ owner \in [Lives -> Plus \cup {NoPlus}]
  /\ \A t \in Threads : cur[t] = NoPlus <=> pc[t] \in Away

LEMMA TypeParts == TypeOK <=> PlainTypes /\ CoreTypes /\ RunTypes
BY DEF TypeOK, PlainTypes, CoreTypes, RunTypes, Away

core == <<alarm, pc, cur, uuid, process, proc, made, owner>>
CoreInv == CoreTypes /\ Alive /\ Making /\ Calm

LEMMA TameKeeps ==
  ASSUME IInv, Tame(run'), UNCHANGED core,
         why' = why \/ (Up /\ why' # "up" /\ (why' # "null_pointer" \/ alarm))
  PROVE  CoreInv'
<1> USE DEF IInv, core
<1>1. CoreTypes'
  BY TypeParts DEF CoreTypes
<1>2. Alive'
  BY DEF Alive, Tame, Live, HeldBy, Orphan, Up
<1>3. Making'
  <2>1. proc # 0 => proc \in Lives
    BY DEF TypeOK, Lives, LifeOr0
  <2>2. made # 0 => made \in Lives
    BY DEF TypeOK, Lives, LifeOr0
  <2>3. \A p \in Plus : process[p] # 0 => process[p] \in Lives
    BY DEF TypeOK, Lives, LifeOr0
  <2> QED
    BY <2>1, <2>2, <2>3 DEF Making, Tame, Up
<1>4. Calm'
  BY DEF Calm, Withdrawing
<1> QED
  BY <1>1, <1>2, <1>3, <1>4 DEF CoreInv

LEMMA ZeroLife == 0 \in LifeOr0 /\ Lives \subseteq LifeOr0 /\ 0 \notin Lives /\ LifeOr0 = Lives \cup {0}
BY BoundAssumption DEF LifeOr0, Lives

LEMMA GotoFacts ==
  ASSUME CoreTypes, NEW t \in Threads, NEW l \in MainPC \cup GuardPC, Goto(t, l)
  PROVE  /\ pc' \in [Threads -> MainPC \cup GuardPC] /\ pc'[t] = l
         /\ \A u \in Threads : u # t => pc'[u] = pc[u]
BY DEF CoreTypes, Goto

-----------------------------------------------------------------------------
(***************************************************************************)
(* enable_plus.                                                            *)
(***************************************************************************)
LEMMA EnableUuidKeeps ==
  ASSUME IInv, NEW p \in Plus, EnableUuid(p)
  PROVE  CoreInv'
<1> USE DEF IInv
<1>1. /\ Up /\ pc["main"] = "ready" /\ process[p] = 0
      /\ made' = made + 1 /\ made' \in LifeOr0
      /\ uuid' = [uuid EXCEPT ![p] = made + 1]
      /\ cur' = [cur EXCEPT !["main"] = p]
      /\ pc' = [pc EXCEPT !["main"] = "create"]
      /\ UNCHANGED <<why, alarm, process, proc, owner, run>>
  BY BoundAssumption DEF EnableUuid, At, Goto, plusVars, TypeOK, LifeOr0
<1>2. /\ pc'["main"] = "create" /\ pc'["guard"] = pc["guard"]
      /\ cur'["main"] = p /\ cur'["guard"] = cur["guard"]
      /\ \A q \in Plus : uuid'[q] = IF q = p THEN made + 1 ELSE uuid[q]
  BY <1>1 DEF TypeOK, Threads
<1>3. made \in Int /\ made + 1 \in Lives
  BY <1>1, BoundAssumption DEF TypeOK, Lives, LifeOr0
<1>4. CoreTypes'
  <2>1. uuid' \in [Plus -> LifeOr0]
    BY <1>1 DEF TypeOK
  <2>2. cur' \in [Threads -> Plus \cup {NoPlus}] /\ pc' \in [Threads -> MainPC \cup GuardPC]
    BY <1>1 DEF TypeOK, MainPC
  <2>3. \A t \in Threads : cur'[t] = NoPlus <=> pc'[t] \in Away
    BY <1>2, PlusAssumption, TypeParts DEF CoreTypes, Away, Threads
  <2> QED
    BY <1>1, <1>2, <2>1, <2>2, <2>3, TypeParts DEF CoreTypes, MainPC
<1>5. Alive'
  BY <1>1, <1>2 DEF Alive, Live, HeldBy, Orphan, Up, Holding
<1>6. Making'
  <2>1. \A i \in Lives : i > made' => run'[i].stage = "none"
    BY <1>1, <1>3 DEF Making, Lives
  <2>2. run'[made'].stage = "none" /\ made' # 0
    BY <1>1, <1>3 DEF Making, Lives
  <2>3. proc' = 0
    BY <1>1 DEF Making, Holding
  <2>4. \A q \in Plus : process[q] \in LifeOr0 /\ (process[q] <= made => process[q] <= made + 1)
    BY <1>3, BoundAssumption DEF TypeOK, LifeOr0
  <2> QED
    BY <1>1, <1>2, <2>1, <2>2, <2>3, <2>4 DEF Making, Holding
<1>7. Calm'
  <2>1. p # NoPlus /\ cur["main"] = NoPlus
    BY <1>1, PlusAssumption DEF TypeOK, Threads
  <2>2. \A q \in Plus : ~alarm /\ process[q] # 0 => q # p /\ ~Withdrawing(q)
    BY <1>1, <2>1 DEF Watching, Calm, Withdrawing, Threads
  <2>3. \A q \in Plus : q # NoPlus
    BY PlusAssumption
  <2> QED
    BY <1>1, <1>2, <2>1, <2>2, <2>3 DEF Calm
<1> QED
  BY <1>4, <1>5, <1>6, <1>7 DEF CoreInv

LEMMA EnableCreateKeeps ==
  ASSUME IInv, EnableCreate
  PROVE  CoreInv' /\ RunTypes' /\ Rooms'
<1> USE DEF IInv
<1> DEFINE p == cur["main"]
           st == IF p \in Dll THEN "starting" ELSE "serving"
<1>1. /\ Up /\ pc["main"] = "create" /\ proc' = made
      /\ run' = [run EXCEPT ![made] = AtStage(st)]
      /\ owner' = [owner EXCEPT ![made] = p]
      /\ pc' = [pc EXCEPT !["main"] = "publish"]
      /\ UNCHANGED <<why, alarm, cur, uuid, process, made>>
  BY DEF EnableCreate, Created, At, Goto
<1>2. /\ made \in Lives /\ made # 0 /\ run[made].stage = "none" /\ p \in Plus
      /\ process[p] = 0 /\ proc = 0
  BY <1>1 DEF Making, TypeOK, Lives, LifeOr0, Threads, Holding
<1>3. /\ AtStage(st) \in Process /\ AtStage(st).stage = st /\ st \notin {"none", "dead"}
      /\ AtStage(st).queued + AtStage(st).running <= MaxMail
  BY FreshProcess DEF Stage
<1> HIDE DEF st, p
<1>4. run' \in [Lives -> Process] /\ owner' \in [Lives -> Plus \cup {NoPlus}]
  BY <1>1, <1>2, <1>3 DEF TypeOK
<1>5. /\ run'[made] = AtStage(st) /\ owner'[made] = p
      /\ \A i \in Lives : i # made => run'[i] = run[i] /\ owner'[i] = owner[i]
  BY <1>1, <1>2 DEF TypeOK
<1>6. RunTypes' /\ Rooms'
  BY <1>3, <1>4, <1>5 DEF RunTypes, Rooms
<1>7. pc'["main"] = "publish" /\ pc'["guard"] = pc["guard"]
  BY <1>1 DEF TypeOK, Threads
<1>8. CoreTypes'
  <2>1. pc' \in [Threads -> MainPC \cup GuardPC] /\ pc'["main"] \in MainPC
    BY <1>1 DEF TypeOK, MainPC
  <2>2. \A t \in Threads : cur'[t] = NoPlus <=> pc'[t] \in Away
    BY <1>1, <1>7, TypeParts DEF CoreTypes, Away, Threads
  <2> QED
    BY <1>1, <1>2, <1>4, <1>7, <2>1, <2>2, TypeParts DEF CoreTypes, Lives, LifeOr0
<1>9. Alive'
  <2> SUFFICES ASSUME NEW i \in Lives, Live(i)' PROVE owner'[i] \in Plus /\ HeldBy(i)'
    BY DEF Alive
  <2>1. CASE i = made
    BY <1>1, <1>2, <1>5, <1>7, <2>1 DEF HeldBy, Orphan, Up, Holding, p
  <2>2. CASE i # made
    <3>1. Live(i) /\ owner'[i] = owner[i]
      BY <1>5, <2>2 DEF Live
    <3> QED
      BY <1>1, <1>2, <2>2, <3>1 DEF Alive, HeldBy, Orphan, Up, Holding
  <2> QED
    BY <2>1, <2>2
<1>10. Making'
  <2>1. \A i \in Lives : i > made => run'[i].stage = "none"
    BY <1>5 DEF Making, Lives
  <2>2. \A q \in Plus : process[q] # 0 =>
          /\ process[q] \in Lives /\ process[q] # made /\ process[q] <= made
          /\ owner[process[q]] = q /\ run[process[q]].stage # "none"
    BY <1>2 DEF Making, TypeOK, Lives, LifeOr0
  <2>3. \A q \in Plus : process'[q] # 0 =>
          /\ process'[q] <= made' /\ owner'[process'[q]] = q
          /\ run'[process'[q]].stage # "none"
    BY <1>1, <1>5, <2>2
  <2>4. owner'[proc'] = cur'["main"] /\ run'[proc'].stage # "none"
    BY <1>1, <1>3, <1>5 DEF p
  <2> QED
    BY <1>1, <1>2, <1>7, <2>1, <2>3, <2>4 DEF Making, Holding, p
<1>11. Calm'
  <2>1. \A q \in Plus : Withdrawing(q)' <=> Withdrawing(q)
    BY <1>1, <1>7 DEF Withdrawing, Threads
  <2> QED
    BY <1>1, <1>7, <2>1 DEF Calm
<1> QED
  BY <1>6, <1>8, <1>9, <1>10, <1>11 DEF CoreInv

LEMMA EnableCreateFailsKeeps ==
  ASSUME IInv, EnableCreateFails
  PROVE  CoreInv' /\ RunTypes' /\ Rooms'
<1> USE DEF IInv
<1> DEFINE p == cur["main"]
<1>1. /\ Up /\ pc["main"] = "create" /\ why' = "create_failed"
      /\ UNCHANGED <<pc, cur, alarm, uuid, process, proc, made>>
      /\ \/ MainEnds("create_failed") /\ UNCHANGED owner
         \/ /\ run' = [i \in Lives |-> IF i = made THEN Created
                          ELSE IF Live(i) THEN AtStage("dead") ELSE run[i]]
            /\ owner' = [owner EXCEPT ![made] = p]
  BY DEF EnableCreateFails, At, MainEnds
<1>2. /\ made \in Lives /\ made # 0 /\ run[made].stage = "none" /\ p \in Plus
      /\ process[p] = 0 /\ proc = 0
  BY <1>1 DEF Making, TypeOK, Lives, LifeOr0, Threads, Holding
<1>3. CASE MainEnds("create_failed") /\ UNCHANGED owner
  <2>1. Tame(run')
    BY <1>3, MainEndsTame, TypeParts
  <2>2. CoreInv'
    BY <1>1, <1>3, <2>1, TameKeeps DEF core
  <2> QED
    BY <2>1, <2>2 DEF Tame, RunTypes, Rooms
<1>4. CASE /\ run' = [i \in Lives |-> IF i = made THEN Created
                        ELSE IF Live(i) THEN AtStage("dead") ELSE run[i]]
           /\ owner' = [owner EXCEPT ![made] = p]
  <2>1. /\ Created \in Process /\ Created.stage \notin {"none", "dead"}
        /\ Created.queued + Created.running <= MaxMail
    BY FreshProcess DEF Created, Stage
  <2>2. /\ AtStage("dead") \in Process /\ AtStage("dead").stage = "dead"
        /\ AtStage("dead").queued + AtStage("dead").running <= MaxMail
    BY FreshProcess DEF Stage
  <2>3. /\ run' \in [Lives -> Process] /\ owner' \in [Lives -> Plus \cup {NoPlus}]
        /\ run'[made] = Created /\ owner'[made] = p
        /\ \A i \in Lives : i # made =>
             /\ owner'[i] = owner[i]
             /\ run'[i] = IF Live(i) THEN AtStage("dead") ELSE run[i]
    BY <1>2, <1>4, <2>1, <2>2 DEF TypeOK
  <2> HIDE DEF p
  <2>4. RunTypes' /\ Rooms'
    BY <2>1, <2>2, <2>3 DEF RunTypes, Rooms
  <2>5. \A i \in Lives : i # made =>
          /\ run'[i].stage \in {"none", "dead"}
          /\ run'[i].stage = "none" <=> run[i].stage = "none"
    BY <2>2, <2>3, ZeroLife DEF Live
  <2>6. CoreTypes'
    BY <1>1, <2>3, TypeParts DEF CoreTypes
  <2>7. Alive'
    BY <1>1, <1>2, <2>3, <2>5 DEF Alive, Live, HeldBy, Orphan, p
  <2>8. Making'
    <3>1. \A i \in Lives : i > made => run'[i].stage = "none"
      BY <1>2, <2>5 DEF Making, Lives
    <3>2. \A q \in Plus : process[q] # 0 =>
            /\ process[q] \in Lives /\ process[q] # made /\ process[q] <= made
            /\ owner[process[q]] = q /\ run[process[q]].stage # "none"
      BY <1>2 DEF Making, TypeOK, Lives, LifeOr0
    <3>3. \A q \in Plus : process'[q] # 0 =>
            /\ process'[q] <= made' /\ owner'[process'[q]] = q
            /\ run'[process'[q]].stage # "none"
      BY <1>1, <2>3, <2>5, <3>2
    <3> QED
      BY <1>1, <1>2, <3>1, <3>3 DEF Making, Holding, Up, p
  <2>9. Calm'
    BY <1>1 DEF Calm, Withdrawing
  <2> QED
    BY <2>4, <2>6, <2>7, <2>8, <2>9 DEF CoreInv
<1> QED
  BY <1>1, <1>3, <1>4

\* Where the main thread holds proc, cur["main"] is the plugin it is made for.
LEMMA HoldingFacts ==
  ASSUME IInv, pc["main"] \in Holding
  PROVE  /\ cur["main"] \in Plus /\ proc = made /\ proc \in Lives /\ proc # 0
         /\ owner[proc] = cur["main"] /\ run[proc].stage # "none"
BY DEF IInv, Making, TypeOK, Holding, Threads, Lives, LifeOr0

LEMMA PointerFacts ==
  ASSUME IInv, NEW p \in Plus, process[p] # 0
  PROVE  /\ process[p] \in Lives /\ owner[process[p]] = p /\ process[p] <= made
         /\ run[process[p]].stage # "none"
BY DEF IInv, Making, TypeOK, Lives, LifeOr0

LEMMA EnablePublishKeeps ==
  ASSUME IInv, EnablePublish
  PROVE  CoreInv'
<1> USE DEF IInv
<1> DEFINE p == cur["main"]
           l == IF p \in Dll THEN "probe" ELSE "return"
<1>1. /\ Up /\ pc["main"] = "publish"
      /\ process' = [process EXCEPT ![p] = proc]
      /\ pc' = [pc EXCEPT !["main"] = l]
      /\ UNCHANGED <<why, alarm, cur, uuid, proc, made, owner, run>>
  BY DEF EnablePublish, At, Goto, plusVars
<1>2. /\ p \in Plus /\ proc = made /\ proc \in Lives /\ proc # 0 /\ owner[proc] = p
      /\ run[proc].stage # "none" /\ process[p] = 0
  BY <1>1, HoldingFacts DEF Holding, Making
<1>3. l \in {"probe", "return"}
  OBVIOUS
<1> HIDE DEF p, l
<1>4. pc'["main"] = l /\ pc'["guard"] = pc["guard"]
  BY <1>1 DEF TypeOK, Threads
<1>5. process'[p] = proc /\ \A q \in Plus : q # p => process'[q] = process[q]
  BY <1>1, <1>2 DEF TypeOK
<1>6. CoreTypes'
  <2>1. pc' \in [Threads -> MainPC \cup GuardPC] /\ pc'["main"] \in MainPC
    BY <1>1, <1>3, <1>4 DEF TypeOK, MainPC
  <2>2. \A t \in Threads : cur'[t] = NoPlus <=> pc'[t] \in Away
    BY <1>1, <1>3, <1>4, TypeParts DEF CoreTypes, Away, Threads
  <2>3. process' \in [Plus -> LifeOr0]
    BY <1>1 DEF TypeOK
  <2> QED
    BY <1>1, <1>4, <2>1, <2>2, <2>3, TypeParts DEF CoreTypes
<1>7. Alive'
  <2> SUFFICES ASSUME NEW i \in Lives, Live(i)' PROVE owner'[i] \in Plus /\ HeldBy(i)'
    BY DEF Alive
  <2>1. Live(i) /\ owner[i] \in Plus /\ HeldBy(i)
    BY <1>1 DEF Live, Alive
  <2>2. CASE i = proc
    BY <1>1, <1>2, <1>5, <2>1, <2>2 DEF HeldBy, Orphan, Up
  <2>3. CASE i # proc
    <3>1. process[owner[i]] = i /\ i # 0
      BY <1>1, <2>1, <2>3 DEF HeldBy, Orphan, Up, Lives
    <3> QED
      BY <1>1, <1>2, <1>5, <2>1, <3>1 DEF HeldBy, Orphan, Up
  <2> QED
    BY <2>2, <2>3
<1>8. Making'
  <2>1. \A q \in Plus : process'[q] # 0 =>
          /\ process'[q] <= made /\ owner[process'[q]] = q
          /\ run[process'[q]].stage # "none"
    <3> SUFFICES ASSUME NEW q \in Plus, process'[q] # 0
                 PROVE  /\ process'[q] <= made /\ owner[process'[q]] = q
                        /\ run[process'[q]].stage # "none"
      OBVIOUS
    <3>1. CASE q = p
      <4>1. made <= made
        BY <1>2 DEF Lives
      <4> QED
        BY <1>2, <1>5, <3>1, <4>1
    <3>2. CASE q # p
      BY <1>5, <3>2, PointerFacts
    <3> QED
      BY <3>1, <3>2
  <2>2. process'[p] \in {0, proc}
    BY <1>5
  <2> QED
    BY <1>1, <1>2, <1>3, <1>4, <2>1, <2>2 DEF Making, Holding, p
<1>9. Calm'
  <2> SUFFICES ASSUME ~alarm PROVE Calm'
    BY <1>1 DEF Calm
  <2>1. \A q \in Plus : q # p => (Withdrawing(q)' <=> Withdrawing(q))
    BY <1>1, <1>4 DEF Withdrawing, Threads, p
  <2>2. uuid[p] = proc
    BY <1>1, <1>2 DEF Calm, p
  <2> QED
    BY <1>1, <1>2, <1>3, <1>4, <1>5, <2>1, <2>2 DEF Calm, p
<1> QED
  BY <1>6, <1>7, <1>8, <1>9 DEF CoreInv

LEMMA EnableLoadedKeeps ==
  ASSUME IInv, EnableLoaded
  PROVE  CoreInv'
<1> USE DEF IInv
<1>1. /\ Up /\ pc["main"] = "probe"
      /\ pc' = [pc EXCEPT !["main"] = "return"]
      /\ UNCHANGED <<why, alarm, cur, uuid, process, proc, made, owner, run>>
  BY DEF EnableLoaded, At, Goto, plusVars
<1>2. pc'["main"] = "return" /\ pc'["guard"] = pc["guard"]
  BY <1>1 DEF TypeOK, Threads
<1>3. CoreTypes'
  <2>1. pc' \in [Threads -> MainPC \cup GuardPC] /\ pc'["main"] \in MainPC
    BY <1>1, <1>2 DEF TypeOK, MainPC
  <2>2. \A t \in Threads : cur'[t] = NoPlus <=> pc'[t] \in Away
    BY <1>1, <1>2, TypeParts DEF CoreTypes, Away, Threads
  <2> QED
    BY <1>1, <1>2, <2>1, <2>2, TypeParts DEF CoreTypes
<1>4. Alive'
  BY <1>1, <1>2 DEF Alive, Live, HeldBy, Orphan, Up, Holding
<1>5. Making'
  BY <1>1, <1>2 DEF Making, Holding
<1>6. Calm'
  <2>1. \A q \in Plus : Withdrawing(q)' <=> Withdrawing(q)
    BY <1>1, <1>2 DEF Withdrawing, Threads
  <2> QED
    BY <1>1, <1>2, <2>1 DEF Calm
<1> QED
  BY <1>3, <1>4, <1>5, <1>6 DEF CoreInv

LEMMA EnableGiveUpKeeps ==
  ASSUME IInv, EnableGiveUp
  PROVE  CoreInv'
<1> USE DEF IInv
<1>1. /\ Up /\ pc["main"] = "probe"
      /\ uuid' = [uuid EXCEPT ![cur["main"]] = 0]
      /\ pc' = [pc EXCEPT !["main"] = "unpublish"]
      /\ UNCHANGED <<why, alarm, cur, process, proc, made, owner, run>>
  BY DEF EnableGiveUp, At, Goto, plusVars
<1>2. pc'["main"] = "unpublish" /\ pc'["guard"] = pc["guard"]
  BY <1>1 DEF TypeOK, Threads
<1>3. /\ cur["main"] \in Plus /\ proc # 0 /\ uuid'[cur["main"]] = 0
      /\ \A q \in Plus : q # cur["main"] => uuid'[q] = uuid[q]
  BY <1>1, HoldingFacts DEF Holding, TypeOK
<1>4. CoreTypes'
  <2>1. pc' \in [Threads -> MainPC \cup GuardPC] /\ pc'["main"] \in MainPC
    BY <1>1, <1>2 DEF TypeOK, MainPC
  <2>2. \A t \in Threads : cur'[t] = NoPlus <=> pc'[t] \in Away
    BY <1>1, <1>2, TypeParts DEF CoreTypes, Away, Threads
  <2>3. uuid' \in [Plus -> LifeOr0]
    BY <1>1, ZeroLife DEF TypeOK
  <2> QED
    BY <1>1, <1>2, <2>1, <2>2, <2>3, TypeParts DEF CoreTypes
<1>5. Alive'
  BY <1>1, <1>2 DEF Alive, Live, HeldBy, Orphan, Up, Holding
<1>6. Making'
  BY <1>1, <1>2 DEF Making, Holding
<1>7. Calm'
  <2>1. \A q \in Plus : q # cur["main"] => (Withdrawing(q)' <=> Withdrawing(q))
    BY <1>1, <1>2 DEF Withdrawing, Threads
  <2>2. Withdrawing(cur["main"])'
    BY <1>1, <1>2 DEF Withdrawing
  <2>3. \A q \in Plus : q = cur["main"] => Withdrawing(q)'
    BY <1>1, <1>2 DEF Withdrawing
  <2> QED
    BY <1>1, <1>2, <1>3, <2>1, <2>3 DEF Calm
<1> QED
  BY <1>4, <1>5, <1>6, <1>7 DEF CoreInv

\* What both ways out of enable_plus have in common: the pointer of the plugin
\* no longer leads to a process it must not, and proc is given up.
LEMMA EnableEndKeeps ==
  ASSUME IInv, Tame(run'), NEW p \in Plus, p = cur["main"], pc["main"] \in {"unpublish", "return"},
         pc' = [pc EXCEPT !["main"] = "ready"], cur' = [cur EXCEPT !["main"] = NoPlus],
         proc' = 0, process' \in [Plus -> LifeOr0], uuid' = uuid, made' = made, owner' = owner,
         alarm' = alarm, why' # "null_pointer" \/ why' = why,
         \A q \in Plus : q # p => process'[q] = process[q],
         process'[p] \in {0, process[p]},
         run'[proc].stage \in {"none", "dead"} \/ process'[p] = proc,
         ~alarm => uuid[p] = process'[p]
  PROVE  CoreInv'
<1> USE DEF IInv
<1>1. /\ pc'["main"] = "ready" /\ pc'["guard"] = pc["guard"]
      /\ cur'["main"] = NoPlus /\ cur'["guard"] = cur["guard"]
  BY DEF TypeOK, Threads
<1>2. /\ proc \in Lives /\ owner[proc] = p /\ p # NoPlus
  BY HoldingFacts, PlusAssumption DEF Holding
<1>3. CoreTypes'
  <2>1. pc' \in [Threads -> MainPC \cup GuardPC] /\ pc'["main"] \in MainPC
    BY <1>1 DEF TypeOK, MainPC
  <2>2. \A t \in Threads : cur'[t] = NoPlus <=> pc'[t] \in Away
    BY <1>1, TypeParts DEF CoreTypes, Away, Threads
  <2>3. cur' \in [Threads -> Plus \cup {NoPlus}] /\ proc' \in LifeOr0
    BY ZeroLife DEF TypeOK
  <2> QED
    BY <1>1, <2>1, <2>2, <2>3, TypeParts DEF CoreTypes
<1>4. Alive'
  <2> SUFFICES ASSUME NEW i \in Lives, Live(i)' PROVE owner'[i] \in Plus /\ HeldBy(i)'
    BY DEF Alive
  <2>1. Live(i) /\ owner[i] \in Plus /\ HeldBy(i) /\ i # 0
    BY DEF Live, Alive, Tame, Lives
  <2>2. CASE i = proc
    BY <1>2, <2>2 DEF HeldBy, Orphan, Up, Live
  <2>3. CASE i # proc
    <3>1. process[owner[i]] = i
      BY <2>1, <2>3 DEF HeldBy, Orphan, Up
    <3>2. owner[i] # p
      <4>1. process[p] \in {0, proc}
        BY DEF Making
      <4> QED
        BY <2>1, <2>3, <3>1, <4>1
    <3> QED
      BY <2>1, <3>1, <3>2 DEF HeldBy, Orphan, Up
  <2> QED
    BY <2>2, <2>3
<1>5. Making'
  <2>1. \A i \in Lives : i > made => run'[i].stage = "none"
    BY DEF Making, Tame
  <2>2. \A q \in Plus : process'[q] # 0 =>
          /\ process'[q] <= made /\ owner[process'[q]] = q
          /\ run'[process'[q]].stage # "none"
    <3> SUFFICES ASSUME NEW q \in Plus, process'[q] # 0
                 PROVE  /\ process'[q] <= made /\ owner[process'[q]] = q
                        /\ run'[process'[q]].stage # "none"
      OBVIOUS
    <3>1. process'[q] = process[q]
      OBVIOUS
    <3>2. /\ process[q] \in Lives /\ owner[process[q]] = q /\ process[q] <= made
          /\ run[process[q]].stage # "none"
      BY <3>1, PointerFacts
    <3> QED
      BY <3>1, <3>2 DEF Tame
  <2> QED
    BY <1>1, <2>1, <2>2 DEF Making, Holding
<1>6. Calm'
  <2> SUFFICES ASSUME ~alarm PROVE Calm'
    BY DEF Calm
  <2>1. \A q \in Plus : q # p => (Withdrawing(q)' <=> Withdrawing(q))
    BY <1>1 DEF Withdrawing, Threads
  <2>2. \A q \in Plus : q # NoPlus
    BY PlusAssumption
  <2> QED
    BY <1>1, <2>1, <2>2 DEF Calm
<1> QED
  BY <1>3, <1>4, <1>5, <1>6 DEF CoreInv

LEMMA KillsProc ==
  ASSUME IInv, proc # 0, Kills(proc)
  PROVE  Tame(run') /\ run'[proc].stage \in {"none", "dead"}
<1>1. proc \in LifeOr0 /\ RunTypes /\ Rooms
  BY TypeParts DEF IInv, TypeOK
<1>2. \A i : i = proc => Tame(run') /\ ~Live(i)'
  BY <1>1, KillsTame
<1> QED
  BY <1>2 DEF Live

LEMMA EnableUnpublishKeeps ==
  ASSUME IInv, EnableUnpublish
  PROVE  CoreInv' /\ Tame(run')
<1> USE DEF IInv
<1>1. /\ Up /\ pc["main"] = "unpublish"
      /\ process' = [process EXCEPT ![cur["main"]] = 0]
      /\ proc' = 0
      /\ cur' = [cur EXCEPT !["main"] = NoPlus]
      /\ pc' = [pc EXCEPT !["main"] = "ready"]
      /\ UNCHANGED <<uuid, made, owner, alarm>>
      /\ (Kills(proc) /\ why' = why) \/ MainEnds("enable_failed")
  BY DEF EnableUnpublish, At, Goto
<1>2. cur["main"] \in Plus /\ proc \in Lives /\ proc # 0
  BY <1>1, HoldingFacts DEF Holding
<1>3. /\ Tame(run') /\ run'[proc].stage \in {"none", "dead"}
      /\ why' = why \/ why' = "enable_failed"
  <2>1. RunTypes /\ Rooms
    BY TypeParts
  <2>2. CASE Kills(proc) /\ why' = why
    BY <1>2, <2>2, KillsProc
  <2>3. CASE MainEnds("enable_failed")
    <3>1. Tame(run') /\ why' = "enable_failed"
      BY <2>1, <2>3, MainEndsTame
    <3>2. run'[proc] = IF Live(proc) THEN AtStage("dead") ELSE run[proc]
      BY <1>2, <2>3 DEF MainEnds
    <3>3. run'[proc].stage \in {"none", "dead"}
      BY <1>2, <3>2, FreshProcess DEF Live, Stage
    <3> QED
      BY <3>1, <3>3
  <2> QED
    BY <1>1, <2>2, <2>3
<1>4. /\ process' \in [Plus -> LifeOr0] /\ process'[cur["main"]] = 0
      /\ \A q \in Plus : q # cur["main"] => process'[q] = process[q]
  BY <1>1, <1>2, ZeroLife DEF TypeOK
<1>5. ~alarm => uuid[cur["main"]] = 0
  BY <1>1 DEF Calm
<1>6. \A p \in Plus : p = cur["main"] => CoreInv'
  BY <1>1, <1>2, <1>3, <1>4, <1>5, EnableEndKeeps
<1> QED
  BY <1>2, <1>3, <1>6

LEMMA EnableReturnKeeps ==
  ASSUME IInv, EnableReturn
  PROVE  CoreInv' /\ Tame(run')
<1> USE DEF IInv
<1>1. /\ Up /\ pc["main"] = "return"
      /\ IF process[cur["main"]] = proc THEN run' = run ELSE Kills(proc)
      /\ proc' = 0
      /\ cur' = [cur EXCEPT !["main"] = NoPlus]
      /\ pc' = [pc EXCEPT !["main"] = "ready"]
      /\ UNCHANGED <<why, uuid, process, made, owner, alarm>>
  BY DEF EnableReturn, At, Goto
<1>2. cur["main"] \in Plus /\ proc \in Lives /\ proc # 0
  BY <1>1, HoldingFacts DEF Holding
<1>3. /\ Tame(run')
      /\ run'[proc].stage \in {"none", "dead"} \/ process'[cur["main"]] = proc
  <2>1. RunTypes /\ Rooms
    BY TypeParts
  <2>2. CASE process[cur["main"]] = proc
    BY <1>1, <2>1, <2>2, SameIsTame
  <2>3. CASE process[cur["main"]] # proc
    BY <1>1, <1>2, <2>3, KillsProc
  <2> QED
    BY <2>2, <2>3
<1>4. process' \in [Plus -> LifeOr0] /\ \A q \in Plus : process'[q] = process[q]
  BY <1>1 DEF TypeOK
<1>5. ~alarm => uuid[cur["main"]] = process'[cur["main"]]
  <2>1. ~alarm => uuid[cur["main"]] = made /\ process[cur["main"]] = proc
    BY <1>1 DEF Calm
  <2>2. proc = made
    BY <1>1, HoldingFacts DEF Holding
  <2> QED
    BY <1>1, <2>1, <2>2
<1>6. \A p \in Plus : p = cur["main"] => CoreInv'
  BY <1>1, <1>2, <1>3, <1>4, <1>5, EnableEndKeeps
<1> QED
  BY <1>2, <1>3, <1>6

-----------------------------------------------------------------------------
(***************************************************************************)
(* The steps that move a thread, and maybe end processes, but change no    *)
(* plugin.                                                                 *)
(***************************************************************************)
LEMMA MoveKeeps ==
  ASSUME IInv, Up, Tame(run'), UNCHANGED <<uuid, process, proc, made, owner>>,
         alarm => alarm',
         pc' \in [Threads -> MainPC \cup GuardPC],
         pc'["main"] \in MainPC, pc'["guard"] \in GuardPC,
         cur' \in [Threads -> Plus \cup {NoPlus}],
         \A t \in Threads : cur'[t] = NoPlus <=> pc'[t] \in Away,
         \/ pc'["main"] = pc["main"] /\ cur'["main"] = cur["main"]
         \/ /\ pc["main"] \in {"ready", "next", "send", "await", "wait"}
            /\ pc'["main"] \in {"ready", "next", "send", "await", "wait", "reset", "wait_all"}
            /\ pc'["main"] \in {"send", "await", "wait", "reset"} =>
                 process[cur'["main"]] # 0 \/ alarm'
            /\ cur["main"] \in {NoPlus, cur'["main"]},
         ~alarm' => pc'["guard"] \in Watching /\ why' # "null_pointer"
  PROVE  CoreInv'
<1> USE DEF IInv
<1>1. CoreTypes'
  BY TypeParts DEF CoreTypes
<1>2. Alive'
  BY DEF Alive, Tame, Live, HeldBy, Orphan, Up, Holding
<1>3. Making'
  <2>1. \A i \in Lives : i > made => run'[i].stage = "none"
    BY DEF Making, Tame
  <2>2. \A q \in Plus : process[q] # 0 =>
          /\ process[q] <= made /\ owner[process[q]] = q
          /\ run'[process[q]].stage # "none"
    BY PointerFacts DEF Tame
  <2>3. CASE pc'["main"] = pc["main"] /\ cur'["main"] = cur["main"]
    <3>1. made # 0 => made \in Lives
      BY ZeroLife DEF TypeOK
    <3>2. pc["main"] \in Holding => run'[proc].stage # "none"
      BY HoldingFacts DEF Tame
    <3>3. pc["main"] = "create" => run'[made].stage = "none"
      BY <3>1 DEF Making, Tame
    <3> QED
      BY <2>1, <2>2, <2>3, <3>2, <3>3 DEF Making
  <2>4. CASE pc["main"] \in {"ready", "next", "send", "await", "wait"} /\
             pc'["main"] \in {"ready", "next", "send", "await", "wait", "reset", "wait_all"}
    BY <2>1, <2>2, <2>4 DEF Making, Holding
  <2> QED
    BY <2>3, <2>4
<1>4. Calm'
  <2> SUFFICES ASSUME ~alarm' PROVE Calm'
    BY DEF Calm
  <2>1. ~alarm /\ pc["guard"] \in Watching
    BY DEF Calm
  <2>2. \A q \in Plus : Withdrawing(q) => Withdrawing(q)' \/ cur'["main"] = q
    BY <2>1 DEF Watching, Withdrawing, Threads
  <2>3. CASE pc'["main"] = pc["main"] /\ cur'["main"] = cur["main"]
    <3>1. \A q \in Plus : Withdrawing(q) => Withdrawing(q)'
      BY <2>1, <2>3 DEF Watching, Withdrawing, Threads
    <3> QED
      BY <2>1, <2>3, <3>1 DEF Calm
  <2>4. CASE /\ pc["main"] \in {"ready", "next", "send", "await", "wait"}
             /\ pc'["main"] \in {"ready", "next", "send", "await", "wait", "reset", "wait_all"}
             /\ pc'["main"] \in {"send", "await", "wait", "reset"} =>
                  process[cur'["main"]] # 0 \/ alarm'
             /\ cur["main"] \in {NoPlus, cur'["main"]}
    <3>1. \A q \in Plus : ~Withdrawing(q)
      BY <2>1, <2>4 DEF Watching, Withdrawing, Threads
    <3>2. \A q \in Plus : q # NoPlus
      BY PlusAssumption
    <3>3. \A q \in Plus : cur'["main"] # q => cur["main"] # q
      BY <2>4, <3>2
    <3> QED
      BY <2>1, <2>4, <3>1, <3>3 DEF Calm
  <2> QED
    BY <2>3, <2>4
<1> QED
  BY <1>1, <1>2, <1>3, <1>4 DEF CoreInv

LEMMA SameRunTame == IInv => Tame(run)
BY SameIsTame, TypeParts DEF IInv

LEMMA StartGuardKeeps ==
  ASSUME IInv, StartGuard
  PROVE  CoreInv'
<1> USE DEF IInv
<1>1. /\ Up /\ Goto("guard", "scan") /\ pc["guard"] = "none"
      /\ UNCHANGED <<why, alarm, cur, uuid, process, proc, made, owner, run>>
  BY DEF StartGuard, GuardStarts, plusVars, At
<1>2. /\ pc' \in [Threads -> MainPC \cup GuardPC]
      /\ pc'["guard"] = "scan" /\ pc'["main"] = pc["main"]
  BY <1>1, TypeParts, GotoFacts DEF Threads, GuardPC
<1>3. \A t \in Threads : cur'[t] = NoPlus <=> pc'[t] \in Away
  BY <1>1, <1>2, TypeParts DEF CoreTypes, Away, Threads
<1>4. /\ pc'["main"] \in MainPC /\ pc'["guard"] \in GuardPC
      /\ cur' \in [Threads -> Plus \cup {NoPlus}]
  BY <1>1, <1>2 DEF TypeOK, GuardPC
<1>5. Tame(run') /\ (~alarm' => pc'["guard"] \in Watching /\ why' # "null_pointer")
  BY <1>1, <1>2, SameRunTame DEF Calm, Watching
<1> QED
  BY <1>1, <1>2, <1>3, <1>4, <1>5, MoveKeeps

\* The button and the exit path: nothing but the loop of the main thread.
LEMMA MainGoesKeeps ==
  ASSUME IInv, Up, NEW l \in {"next", "ready", "wait_all"}, pc["main"] \in {"ready", "next"},
         Goto("main", l), Tame(run'),
         UNCHANGED <<why, alarm, cur, uuid, process, proc, made, owner>>
  PROVE  CoreInv'
<1> USE DEF IInv
<1>2. /\ pc' \in [Threads -> MainPC \cup GuardPC]
      /\ pc'["main"] = l /\ pc'["guard"] = pc["guard"]
  BY TypeParts, GotoFacts DEF Threads, MainPC
<1>3. \A t \in Threads : cur'[t] = NoPlus <=> pc'[t] \in Away
  BY <1>2, TypeParts DEF CoreTypes, Away, Threads
<1>4. /\ pc'["main"] \in MainPC /\ pc'["guard"] \in GuardPC
      /\ cur' \in [Threads -> Plus \cup {NoPlus}]
  BY <1>2 DEF TypeOK, MainPC
<1>5. ~alarm' => pc'["guard"] \in Watching /\ why' # "null_pointer"
  BY <1>2 DEF Calm
<1> QED
  BY <1>2, <1>3, <1>4, <1>5, MoveKeeps

LEMMA GuardLookKeeps ==
  ASSUME IInv, NEW p \in Plus, GuardLook(p)
  PROVE  CoreInv'
<1> USE DEF IInv
<1>1. /\ Up /\ UNCHANGED <<why, alarm, uuid, process, proc, made, owner, run>>
      /\ pc["guard"] = "scan"
      /\ \/ UNCHANGED <<pc, cur>>
         \/ cur' = [cur EXCEPT !["guard"] = p] /\ Goto("guard", "exist")
  BY DEF GuardLook, plusVars, At
<1>2. Tame(run')
  BY <1>1, SameRunTame
<1>3. CASE UNCHANGED <<pc, cur>>
  BY <1>1, <1>2, <1>3, TameKeeps DEF core
<1>4. CASE cur' = [cur EXCEPT !["guard"] = p] /\ Goto("guard", "exist")
  <2>1. /\ pc' \in [Threads -> MainPC \cup GuardPC]
        /\ pc'["guard"] = "exist" /\ pc'["main"] = pc["main"]
    BY <1>4, TypeParts, GotoFacts DEF Threads, GuardPC
  <2>2. /\ cur' \in [Threads -> Plus \cup {NoPlus}]
        /\ cur'["guard"] = p /\ cur'["main"] = cur["main"]
    BY <1>4 DEF TypeOK, Threads
  <2>3. \A t \in Threads : cur'[t] = NoPlus <=> pc'[t] \in Away
    BY <2>1, <2>2, TypeParts, PlusAssumption DEF CoreTypes, Away, Threads
  <2>4. pc'["main"] \in MainPC /\ pc'["guard"] \in GuardPC
    BY <2>1 DEF TypeOK, GuardPC
  <2>5. ~alarm' => pc'["guard"] \in Watching /\ why' # "null_pointer"
    BY <1>1, <2>1 DEF Watching, Calm
  <2> QED
    BY <1>1, <1>2, <2>1, <2>2, <2>3, <2>4, <2>5, MoveKeeps
<1> QED
  BY <1>1, <1>3, <1>4

\* The guard is in is_process_exist, or it has an answer.
LEMMA GuardMovesKeeps ==
  ASSUME IInv, Up, pc["guard"] \in Watching, UNCHANGED <<why, run>>, UNCHANGED guardOnly,
         NEW l \in {"scan", "use", "handle", "next"}, Goto("guard", l),
         cur' = [cur EXCEPT !["guard"] = IF l \in Away THEN NoPlus ELSE @],
         pc["guard"] \notin Away,
         l = "next" => alarm' = TRUE,
         l # "next" => alarm' = alarm
  PROVE  CoreInv'
<1> USE DEF IInv
<1>1. UNCHANGED <<why, uuid, process, proc, made, owner, run>>
  BY DEF guardOnly
<1>2. /\ pc' \in [Threads -> MainPC \cup GuardPC]
      /\ pc'["guard"] = l /\ pc'["main"] = pc["main"]
  BY TypeParts, GotoFacts DEF Threads, GuardPC
<1>3. /\ cur' \in [Threads -> Plus \cup {NoPlus}]
      /\ cur'["guard"] = (IF l \in Away THEN NoPlus ELSE cur["guard"])
      /\ cur'["main"] = cur["main"]
  BY DEF TypeOK, Threads
<1>4. \A t \in Threads : cur'[t] = NoPlus <=> pc'[t] \in Away
  BY <1>2, <1>3, TypeParts DEF CoreTypes, Threads
<1>5. pc'["main"] \in MainPC /\ pc'["guard"] \in GuardPC
  BY <1>2 DEF TypeOK, GuardPC
<1>6. ~alarm' => pc'["guard"] \in Watching /\ why' # "null_pointer"
  BY <1>1, <1>2 DEF Calm, Watching
<1>7. Tame(run') /\ (alarm => alarm')
  BY <1>1, SameRunTame
<1> QED
  BY <1>1, <1>2, <1>3, <1>4, <1>5, <1>6, <1>7, MoveKeeps

LEMMA GuardAnswerKeeps ==
  ASSUME IInv, Up, pc["guard"] \in {"exist", "use", "handle"}, UNCHANGED guardOnly,
         GuardSees \/ GuardMisses
  PROVE  CoreInv' /\ UNCHANGED run
<1>1. pc["guard"] \in Watching /\ pc["guard"] \notin Away
  BY DEF Watching, Away
<1>2. CASE GuardSees
  BY <1>1, <1>2, GuardMovesKeeps DEF GuardSees, Away
<1>3. CASE GuardMisses
  BY <1>1, <1>3, GuardMovesKeeps DEF GuardMisses, Away
<1> QED
  BY <1>2, <1>3

LEMMA GuardExistKeeps ==
  ASSUME IInv, GuardExist
  PROVE  CoreInv' /\ UNCHANGED run
<1>1. /\ Up /\ pc["guard"] = "exist" /\ UNCHANGED guardOnly
      /\ \/ GuardMisses
         \/ Goto("guard", "use") /\ UNCHANGED <<why, run, alarm, cur>>
  BY DEF GuardExist, At
<1>2. CASE GuardMisses
  BY <1>1, <1>2, GuardAnswerKeeps
<1>3. CASE Goto("guard", "use") /\ UNCHANGED <<why, run, alarm, cur>>
  <2>1. cur' = [cur EXCEPT !["guard"] = @]
    BY <1>3 DEF IInv, TypeOK
  <2> QED
    BY <1>1, <1>3, <2>1, GuardMovesKeeps DEF Watching, Away
<1> QED
  BY <1>1, <1>2, <1>3

LEMMA GuardUseKeeps ==
  ASSUME IInv, GuardUse
  PROVE  CoreInv' /\ Tame(run')
<1>1. /\ Up /\ pc["guard"] = "use" /\ UNCHANGED guardOnly
      /\ \/ Goto("guard", "handle") /\ UNCHANGED <<why, run, alarm, cur>>
         \/ MainEnds("dangling") /\ UNCHANGED <<alarm, pc, cur>>
         \/ GuardSees \/ GuardMisses
  BY DEF GuardUse, At
<1>2. CASE GuardSees \/ GuardMisses
  BY <1>1, <1>2, GuardAnswerKeeps, SameRunTame
<1>3. CASE Goto("guard", "handle") /\ UNCHANGED <<why, run, alarm, cur>>
  <2>1. cur' = [cur EXCEPT !["guard"] = @]
    BY <1>3 DEF IInv, TypeOK
  <2>2. CoreInv'
    BY <1>1, <1>3, <2>1, GuardMovesKeeps DEF Watching, Away
  <2> QED
    BY <1>3, <2>2, SameRunTame
<1>4. CASE MainEnds("dangling") /\ UNCHANGED <<alarm, pc, cur>>
  <2>1. Tame(run') /\ why' = "dangling"
    BY <1>4, MainEndsTame, TypeParts DEF IInv
  <2>2. UNCHANGED core
    BY <1>1, <1>4 DEF core, guardOnly
  <2> QED
    BY <1>1, <2>1, <2>2, TameKeeps
<1> QED
  BY <1>1, <1>2, <1>3, <1>4

LEMMA GuardWaitedKeeps ==
  ASSUME IInv, GuardWaited
  PROVE  CoreInv' /\ UNCHANGED run
<1>1. /\ Up /\ pc["guard"] = "handle" /\ UNCHANGED guardOnly
      /\ GuardSees \/ GuardMisses
  BY DEF GuardWaited, At
<1> QED
  BY <1>1, GuardAnswerKeeps

-----------------------------------------------------------------------------
(***************************************************************************)
(* disable_plus.                                                           *)
(***************************************************************************)
\* The guard disables nothing before it has raised the alarm.
LEMMA GuardInAlarm ==
  ASSUME IInv, pc["guard"] \in {"next", "send", "await", "wait", "reset", "clear"}
  PROVE  alarm
BY DEF IInv, Calm, Watching

LEMMA DisableMoves ==
  ASSUME IInv, Up, NEW t \in Threads, pc[t] \in {"next", "send", "await", "wait"},
         NEW l \in {"send", "await", "wait", "reset"}, Goto(t, l),
         NEW p \in Plus, cur' = [cur EXCEPT ![t] = p], cur[t] \in {NoPlus, p},
         process[p] # 0 \/ alarm, Tame(run'),
         UNCHANGED <<why, alarm, uuid, process, proc, made, owner>>
  PROVE  CoreInv'
<1> USE DEF IInv
<1>1. /\ pc' \in [Threads -> MainPC \cup GuardPC] /\ pc'[t] = l
      /\ \A u \in Threads : u # t => pc'[u] = pc[u]
  BY TypeParts, GotoFacts DEF MainPC
<1>2. /\ cur' \in [Threads -> Plus \cup {NoPlus}] /\ cur'[t] = p
      /\ \A u \in Threads : u # t => cur'[u] = cur[u]
  BY DEF TypeOK
<1>3. \A u \in Threads : cur'[u] = NoPlus <=> pc'[u] \in Away
  BY <1>1, <1>2, TypeParts, PlusAssumption DEF CoreTypes, Away
<1>4. pc'["main"] \in MainPC /\ pc'["guard"] \in GuardPC
  BY <1>1 DEF TypeOK, MainPC, GuardPC, Threads
<1>5. CASE t = "main"
  <2>1. pc'["guard"] = pc["guard"]
    BY <1>1, <1>5 DEF Threads
  <2>2. ~alarm' => pc'["guard"] \in Watching /\ why' # "null_pointer"
    BY <2>1 DEF Calm
  <2> QED
    BY <1>1, <1>2, <1>3, <1>4, <1>5, <2>2, MoveKeeps
<1>6. CASE t = "guard"
  <2>1. alarm /\ pc'["main"] = pc["main"] /\ cur'["main"] = cur["main"]
    BY <1>1, <1>2, <1>6, GuardInAlarm DEF Threads
  <2> QED
    BY <1>1, <1>2, <1>3, <1>4, <2>1, MoveKeeps
<1> QED
  BY <1>5, <1>6 DEF Threads

LEMMA AtPlugin ==
  ASSUME IInv, NEW t \in Threads, pc[t] \notin Away
  PROVE  cur[t] \in Plus /\ cur = [cur EXCEPT ![t] = cur[t]]
BY TypeParts DEF IInv, CoreTypes

\* Before the pointer is reset only an alarm can have taken it away.
LEMMA DisablingFacts ==
  ASSUME IInv, NEW t \in Threads, pc[t] \in {"send", "await", "wait", "reset"}
  PROVE  process[cur[t]] # 0 \/ alarm
<1>1. CASE t = "main"
  BY <1>1 DEF IInv, Calm
<1>2. CASE t = "guard"
  BY <1>2, GuardInAlarm
<1> QED
  BY <1>1, <1>2 DEF Threads

LEMMA DisableBeginKeeps ==
  ASSUME IInv, NEW t \in Threads, NEW p \in Plus, DisableBegin(t, p)
  PROVE  CoreInv'
<1> USE DEF IInv
<1>1. /\ Up /\ UNCHANGED <<why, alarm, uuid, process, proc, made, owner, run>>
      /\ pc[t] = "next"
      /\ \/ UNCHANGED <<pc, cur>>
         \/ /\ process[p] # 0 /\ cur' = [cur EXCEPT ![t] = p]
            /\ Goto(t, IF p \in Dll THEN "send" ELSE "reset")
  BY DEF DisableBegin, plusVars, At
<1>2. Tame(run') /\ cur[t] = NoPlus
  BY <1>1, SameRunTame, TypeParts DEF CoreTypes, Away
<1>3. CASE UNCHANGED <<pc, cur>>
  BY <1>1, <1>2, <1>3, TameKeeps DEF core
<1>4. CASE /\ process[p] # 0 /\ cur' = [cur EXCEPT ![t] = p]
           /\ Goto(t, IF p \in Dll THEN "send" ELSE "reset")
  <2>1. PICK l \in {"send", "reset"} : Goto(t, l)
    BY <1>4
  <2> QED
    BY <1>1, <1>2, <1>4, <2>1, DisableMoves
<1> QED
  BY <1>1, <1>3, <1>4

LEMMA DisableSendKeeps ==
  ASSUME IInv, NEW t \in Threads, DisableSend(t)
  PROVE  CoreInv' /\ Tame(run')
<1> USE DEF IInv
<1>1. /\ Up /\ UNCHANGED <<why, alarm, cur, uuid, process, proc, made, owner>>
      /\ pc[t] = "send" /\ Goto(t, "await") /\ Delivers(uuid[cur[t]], "exit")
  BY DEF DisableSend, At
<1>2. PICK p \in Plus : p = cur[t] /\ cur = [cur EXCEPT ![t] = p]
  BY <1>1, AtPlugin DEF Away
<1>3. Tame(run')
  <2>1. uuid[p] \in LifeOr0
    BY DEF TypeOK
  <2> QED
    BY <1>1, <1>2, <2>1, DeliversTame, TypeParts
<1>4. process[p] # 0 \/ alarm
  BY <1>1, <1>2, DisablingFacts
<1> QED
  BY <1>1, <1>2, <1>3, <1>4, DisableMoves

LEMMA DisableAwaitKeeps ==
  ASSUME IInv, NEW t \in Threads, DisableAwait(t)
  PROVE  CoreInv' /\ Tame(run')
<1> USE DEF IInv
<1>1. /\ Up /\ UNCHANGED <<alarm, cur, uuid, process, proc, made, owner>>
      /\ pc[t] = "await"
      /\ \/ process[cur[t]] # 0 /\ Goto(t, "wait") /\ UNCHANGED <<why, run>>
         \/ process[cur[t]] = 0 /\ MainEnds("null_pointer") /\ UNCHANGED pc
  BY DEF DisableAwait, At
<1>2. PICK p \in Plus : p = cur[t] /\ cur = [cur EXCEPT ![t] = p]
  BY <1>1, AtPlugin DEF Away
<1>3. CASE process[cur[t]] # 0 /\ Goto(t, "wait") /\ UNCHANGED <<why, run>>
  BY <1>1, <1>2, <1>3, SameRunTame, DisableMoves
<1>4. CASE process[cur[t]] = 0 /\ MainEnds("null_pointer") /\ UNCHANGED pc
  <2>1. alarm
    BY <1>1, <1>4, DisablingFacts
  <2>2. Tame(run')
    BY <1>4, MainEndsTame, TypeParts
  <2> QED
    BY <1>1, <1>4, <2>1, <2>2, TameKeeps DEF core, MainEnds
<1> QED
  BY <1>1, <1>3, <1>4

LEMMA DisableWaitedKeeps ==
  ASSUME IInv, NEW t \in Threads, DisableWaited(t)
  PROVE  CoreInv'
<1> USE DEF IInv
<1>1. /\ Up /\ UNCHANGED <<why, alarm, cur, uuid, process, proc, made, owner, run>>
      /\ pc[t] = "wait" /\ Goto(t, "reset")
  BY DEF DisableWaited, At, plusVars
<1>2. PICK p \in Plus : p = cur[t] /\ cur = [cur EXCEPT ![t] = p]
  BY <1>1, AtPlugin DEF Away
<1>3. process[p] # 0 \/ alarm
  BY <1>1, <1>2, DisablingFacts
<1> QED
  BY <1>1, <1>2, <1>3, SameRunTame, DisableMoves

LEMMA DisableEndKeeps ==
  ASSUME IInv, NEW t \in Threads, DisableEnd(t)
  PROVE  CoreInv' /\ Tame(run')
<1> USE DEF IInv
<1>1. /\ Up /\ UNCHANGED <<alarm, cur, uuid, process, proc, made, owner>>
      /\ pc[t] = "next"
      /\ \/ t = "guard" /\ MainEnds("guard") /\ UNCHANGED pc
         \/ /\ t = "main" /\ UNCHANGED <<why, run>>
            /\ Goto(t, IF leaving THEN "wait_all" ELSE "ready")
  BY DEF DisableEnd, At
<1>2. CASE t = "guard" /\ MainEnds("guard") /\ UNCHANGED pc
  <2>1. Tame(run') /\ why' = "guard"
    BY <1>2, MainEndsTame, TypeParts
  <2> QED
    BY <1>1, <1>2, <2>1, TameKeeps DEF core
<1>3. CASE /\ t = "main" /\ UNCHANGED <<why, run>>
           /\ Goto(t, IF leaving THEN "wait_all" ELSE "ready")
  <2>1. PICK l \in {"wait_all", "ready"} : Goto("main", l)
    BY <1>3
  <2> QED
    BY <1>1, <1>3, <2>1, SameRunTame, MainGoesKeeps
<1> QED
  BY <1>1, <1>2, <1>3

LEMMA DisableResetKeeps ==
  ASSUME IInv, NEW t \in Threads, DisableReset(t)
  PROVE  CoreInv' /\ Tame(run')
<1> USE DEF IInv
<1>1. PICK p \in Plus, i \in LifeOr0 :
        /\ p = cur[t] /\ i = process[p]
        /\ Up /\ UNCHANGED <<why, alarm, cur, uuid, proc, made, owner>>
        /\ pc[t] = "reset" /\ Goto(t, "clear")
        /\ process' = [process EXCEPT ![p] = 0]
        /\ IF i = 0 \/ i = proc THEN run' = run ELSE Kills(i)
  <2>1. pc[t] = "reset"
    BY DEF DisableReset, At
  <2>2. cur[t] \in Plus
    BY <2>1, AtPlugin DEF Away
  <2>3. process[cur[t]] \in LifeOr0
    BY <2>2 DEF TypeOK
  <2> QED
    BY <2>1, <2>2, <2>3 DEF DisableReset, At
<1>2. Tame(run') /\ (i # 0 /\ i # proc => ~Live(i)')
  BY <1>1, SameRunTame, KillsTame, TypeParts
<1>3. /\ pc' \in [Threads -> MainPC \cup GuardPC] /\ pc'[t] = "clear"
      /\ \A u \in Threads : u # t => pc'[u] = pc[u]
  BY <1>1, TypeParts, GotoFacts DEF MainPC
<1>4. /\ process' \in [Plus -> LifeOr0] /\ process'[p] = 0
      /\ \A q \in Plus : q # p => process'[q] = process[q]
  BY <1>1, ZeroLife DEF TypeOK
<1>5. CoreTypes'
  <2>1. \A u \in Threads : cur'[u] = NoPlus <=> pc'[u] \in Away
    BY <1>1, <1>3, TypeParts DEF CoreTypes, Away
  <2>2. pc'["main"] \in MainPC /\ pc'["guard"] \in GuardPC
    BY <1>3 DEF TypeOK, MainPC, GuardPC, Threads
  <2> QED
    BY <1>1, <1>3, <1>4, <2>1, <2>2, TypeParts DEF CoreTypes
<1>6. pc["main"] \in Holding => pc'["main"] = pc["main"]
  BY <1>1, <1>3 DEF Holding, Threads
<1>7. Alive'
  <2> SUFFICES ASSUME NEW j \in Lives, Live(j)' PROVE owner'[j] \in Plus /\ HeldBy(j)'
    BY DEF Alive
  <2>1. Live(j) /\ owner[j] \in Plus /\ HeldBy(j) /\ j # 0
    BY <1>2, ZeroLife DEF Live, Alive, Tame
  <2>2. CASE proc = j /\ cur["main"] = owner[j] /\ pc["main"] \in Holding
    BY <1>1, <1>6, <2>1, <2>2 DEF HeldBy, Orphan, Up
  <2>3. CASE process[owner[j]] = j /\ owner[j] # p
    BY <1>1, <1>4, <2>1, <2>3 DEF HeldBy, Orphan, Up
  <2>4. CASE process[owner[j]] = j /\ owner[j] = p
    <3>1. j = i /\ i # 0
      BY <1>1, <2>1, <2>4
    <3>2. j = proc
      BY <1>2, <3>1
    <3>3. pc["main"] \in Holding
      BY <2>1, <3>2 DEF Making
    <3> QED
      BY <1>1, <1>6, <2>1, <3>2, <3>3, HoldingFacts DEF HeldBy, Orphan, Up
  <2> QED
    BY <1>1, <2>1, <2>2, <2>3, <2>4 DEF HeldBy, Orphan, Up
<1>8. Making'
  <2>1. \A j \in Lives : j > made => run'[j].stage = "none"
    BY <1>2 DEF Making, Tame
  <2>2. \A q \in Plus : process'[q] # 0 =>
          /\ process'[q] <= made /\ owner[process'[q]] = q
          /\ run'[process'[q]].stage # "none"
    <3> SUFFICES ASSUME NEW q \in Plus, process'[q] # 0
                 PROVE  /\ process'[q] <= made /\ owner[process'[q]] = q
                        /\ run'[process'[q]].stage # "none"
      OBVIOUS
    <3>1. process'[q] = process[q]
      BY <1>4
    <3> QED
      BY <1>2, <3>1, PointerFacts DEF Tame
  <2>3. CASE t = "main"
    <3>1. pc'["main"] = "clear" /\ pc["main"] = "reset"
      BY <1>1, <1>3, <2>3
    <3> QED
      BY <1>1, <2>1, <2>2, <3>1 DEF Making, Holding
  <2>4. CASE t = "guard"
    <3>1. pc'["main"] = pc["main"]
      BY <1>3, <2>4 DEF Threads
    <3>2. pc["main"] \in Holding => run'[proc].stage # "none"
      BY <1>2, HoldingFacts DEF Tame
    <3>3. pc["main"] = "create" => run'[made].stage = "none"
      BY <1>1, <1>2, ZeroLife DEF Making, Tame, TypeOK, Up
    <3>4. \A q \in Plus : process'[q] \in {0, process[q]}
      BY <1>4
    <3>5. pc["main"] \in {"create", "publish", "probe", "unpublish", "return"} => cur["main"] \in Plus
      BY AtPlugin DEF Away, Threads
    <3>6. pc["main"] \in {"create", "publish"} => process'[cur["main"]] = 0
      BY <3>4, <3>5 DEF Making
    <3>7. pc["main"] \in {"probe", "unpublish", "return"} => process'[cur["main"]] \in {0, proc}
      BY <3>4, <3>5 DEF Making
    <3> QED
      BY <1>1, <2>1, <2>2, <3>1, <3>2, <3>3, <3>6, <3>7 DEF Making
  <2> QED
    BY <2>3, <2>4 DEF Threads
<1>9. Calm'
  <2>1. CASE t = "guard"
    <3>1. alarm
      BY <1>1, <2>1, GuardInAlarm
    <3> QED
      BY <1>1, <3>1 DEF Calm
  <2>2. CASE t = "main"
    <3> SUFFICES ASSUME ~alarm PROVE Calm'
      BY <1>1 DEF Calm
    <3>1. pc'["main"] = "clear" /\ pc["main"] = "reset" /\ pc'["guard"] = pc["guard"]
      BY <1>1, <1>3, <2>2 DEF Threads
    <3>2. \A q \in Plus : q # p => ~Withdrawing(q)
      BY <1>1, <2>2, <3>1 DEF Watching, Calm, Withdrawing, Threads
    <3> QED
      BY <1>1, <1>4, <2>2, <3>1, <3>2 DEF Calm
  <2> QED
    BY <2>1, <2>2 DEF Threads
<1> QED
  BY <1>2, <1>5, <1>7, <1>8, <1>9 DEF CoreInv

LEMMA DisableClearKeeps ==
  ASSUME IInv, NEW t \in Threads, DisableClear(t)
  PROVE  CoreInv'
<1> USE DEF IInv
<1>1. PICK p \in Plus :
        /\ p = cur[t]
        /\ Up /\ UNCHANGED <<why, alarm, process, proc, made, owner, run>>
        /\ pc[t] = "clear" /\ Goto(t, "next")
        /\ uuid' = [uuid EXCEPT ![p] = 0]
        /\ cur' = [cur EXCEPT ![t] = NoPlus]
  <2>1. pc[t] = "clear"
    BY DEF DisableClear, At
  <2>2. cur[t] \in Plus
    BY <2>1, AtPlugin DEF Away
  <2> QED
    BY <2>1, <2>2 DEF DisableClear, plusVars, At
<1>2. /\ pc' \in [Threads -> MainPC \cup GuardPC] /\ pc'[t] = "next"
      /\ \A u \in Threads : u # t => pc'[u] = pc[u]
  BY <1>1, TypeParts, GotoFacts DEF MainPC
<1>3. /\ cur' \in [Threads -> Plus \cup {NoPlus}] /\ cur'[t] = NoPlus
      /\ \A u \in Threads : u # t => cur'[u] = cur[u]
  BY <1>1 DEF TypeOK
<1>4. /\ uuid' \in [Plus -> LifeOr0] /\ uuid'[p] = 0
      /\ \A q \in Plus : q # p => uuid'[q] = uuid[q]
  BY <1>1, ZeroLife DEF TypeOK
<1>5. CoreTypes'
  <2>1. \A u \in Threads : cur'[u] = NoPlus <=> pc'[u] \in Away
    BY <1>2, <1>3, TypeParts DEF CoreTypes, Away
  <2>2. pc'["main"] \in MainPC /\ pc'["guard"] \in GuardPC
    BY <1>2 DEF TypeOK, MainPC, GuardPC, Threads
  <2> QED
    BY <1>1, <1>2, <1>3, <1>4, <2>1, <2>2, TypeParts DEF CoreTypes
<1>6. CASE t = "guard"
  <2>1. pc'["main"] = pc["main"] /\ cur'["main"] = cur["main"]
    BY <1>2, <1>3, <1>6 DEF Threads
  <2>2. alarm
    BY <1>1, <1>6, GuardInAlarm
  <2>3. Alive' /\ Making'
    BY <1>1, <2>1 DEF Alive, Making, Live, HeldBy, Orphan, Up
  <2> QED
    BY <1>1, <1>5, <2>2, <2>3 DEF CoreInv, Calm
<1>7. CASE t = "main"
  <2>1. /\ pc["main"] = "clear" /\ pc'["main"] = "next" /\ pc'["guard"] = pc["guard"]
        /\ cur'["main"] = NoPlus /\ cur'["guard"] = cur["guard"]
    BY <1>1, <1>2, <1>3, <1>7 DEF Threads
  <2>2. Alive' /\ Making'
    BY <1>1, <2>1 DEF Alive, Making, Live, HeldBy, Orphan, Up, Holding
  <2>3. ASSUME ~alarm PROVE Calm'
    <3>1. \A q \in Plus : q # p => ~Withdrawing(q)
      BY <1>1, <1>7, <2>1, <2>3 DEF Watching, Calm, Withdrawing, Threads
    <3>2. process[p] = 0
      BY <1>1, <1>7, <2>1, <2>3 DEF Calm
    <3> QED
      BY <1>1, <1>4, <1>7, <2>1, <2>3, <3>1, <3>2 DEF Calm
  <2>4. Calm'
    BY <1>1, <2>3 DEF Calm
  <2> QED
    BY <1>5, <2>2, <2>4 DEF CoreInv
<1> QED
  BY <1>6, <1>7 DEF Threads

-----------------------------------------------------------------------------
(***************************************************************************)
(* Every step.                                                             *)
(***************************************************************************)
LEMMA TameTypes == \A r : r = run' /\ Tame(r) => RunTypes' /\ Rooms'
BY DEF Tame, RunTypes, Rooms

\* A step of an event task, of a plugin process or of a timer.
LEMMA OtherKeeps ==
  ASSUME IInv, UNCHANGED core, Tame(run'),
         why' = why \/ (Up /\ why' \notin {"up", "null_pointer"})
  PROVE  CoreInv' /\ RunTypes' /\ Rooms'
BY TameKeeps, TameTypes

LEMMA CoreNext == IInv /\ [Next]_vars => CoreInv' /\ RunTypes' /\ Rooms'
<1> SUFFICES ASSUME IInv, [Next]_vars PROVE CoreInv' /\ RunTypes' /\ Rooms'
  OBVIOUS
<1>0. /\ Tame(run) /\ RunTypes /\ Rooms
      /\ CoreInv' /\ Tame(run') => CoreInv' /\ RunTypes' /\ Rooms'
      /\ CoreInv' /\ UNCHANGED run => CoreInv' /\ RunTypes' /\ Rooms'
  BY SameRunTame, TameTypes, TypeParts DEF IInv
<1> USE DEF plusVars, mainVars, histVars, core
<1>1. ASSUME NEW p \in Plus, EnableUuid(p) PROVE CoreInv' /\ RunTypes' /\ Rooms'
  BY <1>0, <1>1, EnableUuidKeeps DEF EnableUuid
<1>2. CASE EnableStep
  <2>1. CASE EnableCreate
    BY <2>1, EnableCreateKeeps
  <2>2. CASE EnablePublish
    BY <1>0, <2>2, EnablePublishKeeps DEF EnablePublish
  <2>3. CASE EnableLoaded
    BY <1>0, <2>3, EnableLoadedKeeps DEF EnableLoaded
  <2>4. CASE EnableGiveUp
    BY <1>0, <2>4, EnableGiveUpKeeps DEF EnableGiveUp
  <2>5. CASE EnableUnpublish
    BY <1>0, <2>5, EnableUnpublishKeeps
  <2>6. CASE EnableReturn
    BY <1>0, <2>6, EnableReturnKeeps
  <2>7. CASE EnableCreateFails
    BY <2>7, EnableCreateFailsKeeps
  <2> QED
    BY <1>2, <2>1, <2>2, <2>3, <2>4, <2>5, <2>6, <2>7 DEF EnableStep
<1>3. ASSUME NEW t \in Threads, DisableStep(t) PROVE CoreInv' /\ RunTypes' /\ Rooms'
  <2>1. ASSUME NEW p \in Plus, DisableBegin(t, p) PROVE CoreInv' /\ RunTypes' /\ Rooms'
    BY <1>0, <2>1, DisableBeginKeeps DEF DisableBegin
  <2>2. CASE DisableSend(t)
    BY <1>0, <2>2, DisableSendKeeps
  <2>3. CASE DisableAwait(t)
    BY <1>0, <2>3, DisableAwaitKeeps
  <2>4. CASE DisableWaited(t)
    BY <1>0, <2>4, DisableWaitedKeeps DEF DisableWaited
  <2>5. CASE DisableReset(t)
    BY <1>0, <2>5, DisableResetKeeps
  <2>6. CASE DisableClear(t)
    BY <1>0, <2>6, DisableClearKeeps DEF DisableClear
  <2>7. CASE DisableEnd(t)
    BY <1>0, <2>7, DisableEndKeeps
  <2> QED
    BY <1>3, <2>1, <2>2, <2>3, <2>4, <2>5, <2>6, <2>7 DEF DisableStep
<1>4. ASSUME NEW p \in Plus, ClickDisable(p) PROVE CoreInv' /\ RunTypes' /\ Rooms'
  BY <1>0, <1>4, MainGoesKeeps DEF ClickDisable, At
<1>5. CASE Leave
  BY <1>0, <1>5, MainGoesKeeps DEF Leave, At
<1>6. CASE StartGuard
  BY <1>0, <1>6, StartGuardKeeps DEF StartGuard
<1>7. CASE GuardWake
  BY <1>0, <1>7, OtherKeeps DEF GuardWake
<1>8. ASSUME NEW p \in Plus, GuardLook(p) PROVE CoreInv' /\ RunTypes' /\ Rooms'
  BY <1>0, <1>8, GuardLookKeeps DEF GuardLook
<1>9. CASE GuardExist \/ GuardUse \/ GuardWaited
  BY <1>0, <1>9, GuardExistKeeps, GuardUseKeeps, GuardWaitedKeeps
<1>10. CASE LeaveDone \/ LeaveForced
  <2>1. PICK cause \in {"user", "timer"} : MainEnds(cause)
    BY <1>10 DEF LeaveDone, LeaveForced
  <2>2. Tame(run') /\ why' = cause
    BY <1>0, <2>1, MainEndsTame
  <2>3. UNCHANGED core /\ Up
    BY <1>10 DEF LeaveDone, LeaveForced, At
  <2> QED
    BY <2>1, <2>2, <2>3, OtherKeeps
<1>11. ASSUME NEW i \in Lives, ServeCall(i) PROVE CoreInv' /\ RunTypes' /\ Rooms'
  <2>1. UNCHANGED core /\ Up
    BY <1>11 DEF ServeCall
  <2>2. CASE UNCHANGED <<why, run>>
    BY <1>0, <2>1, <2>2, OtherKeeps
  <2>3. CASE MainEnds("unknown_uuid")
    <3>1. Tame(run') /\ why' = "unknown_uuid"
      BY <1>0, <2>3, MainEndsTame
    <3> QED
      BY <2>1, <3>1, OtherKeeps
  <2> QED
    BY <1>11, <2>2, <2>3 DEF ServeCall
<1>12. ASSUME NEW d \in Deliverers, SendStep(d) PROVE CoreInv' /\ RunTypes' /\ Rooms'
  <2>1. UNCHANGED core /\ why' = why
    BY <1>12 DEF SendStep, SendLook, SendAddress, SendEvent
  <2>2. CASE SendEvent(d)
    <3>1. PICK i \in LifeOr0 : Delivers(i, "event")
      BY <2>2 DEF SendEvent, IInv, TypeOK
    <3> QED
      BY <1>0, <2>1, <3>1, DeliversTame, OtherKeeps
  <2>3. CASE ~SendEvent(d)
    <3>1. run' = run
      BY <1>12, <2>3 DEF SendStep, SendLook, SendAddress
    <3> QED
      BY <1>0, <2>1, <3>1, OtherKeeps
  <2> QED
    BY <2>2, <2>3
<1>13. ASSUME NEW i \in Lives, PlusStep(i) PROVE CoreInv' /\ RunTypes' /\ Rooms'
  <2>1. UNCHANGED core /\ why' = why
    BY <1>13 DEF PlusStep, PlusStart, PlusEnable, PlusOpenSlot, PlusAnswers, PlusDispatch,
                 PlusCallback, PlusCallbackEnds, PlusStop, PlusStopped, plusOnly
  <2> QED
    BY <1>0, <1>13, <2>1, PlusTame, OtherKeeps
<1>14. ASSUME NEW i \in Lives, PlusCrash(i) PROVE CoreInv' /\ RunTypes' /\ Rooms'
  <2>1. UNCHANGED core /\ why' = why /\ Kills(i) /\ i \in LifeOr0
    BY <1>14, ZeroLife DEF PlusCrash
  <2> QED
    BY <1>0, <2>1, KillsTame, OtherKeeps
<1>15. ASSUME NEW i \in Lives, PlusCallApi(i) PROVE CoreInv' /\ RunTypes' /\ Rooms'
  BY <1>0, <1>15, OtherKeeps DEF PlusCallApi
<1>16. CASE UNCHANGED vars
  BY <1>0, <1>16, OtherKeeps DEF vars
<1> QED
  BY <1>1, <1>2, <1>3, <1>4, <1>5, <1>6, <1>7, <1>8, <1>9, <1>10, <1>11, <1>12, <1>13, <1>14,
     <1>15, <1>16
  DEF Next, MainStep, Startup, Button, GuardStep, Threads

LEMMA GuardStartsNext == IInv /\ [Next]_vars => GuardStarts'
<1> SUFFICES ASSUME IInv, [Next]_vars, ~started' PROVE pc'["guard"] = "none"
  BY DEF GuardStarts
<1>1. ~started /\ pc["guard"] = "none" /\ pc \in [Threads -> MainPC \cup GuardPC]
  <2>1. started => started'
    BY DEF Next, vars, mainVars, plusVars, histVars, plusOnly, MainStep, Startup, Button,
           GuardStep, EnableStep, DisableStep, SendStep, PlusStep, StartGuard, EnableUuid,
           EnableCreate, EnablePublish, EnableLoaded, EnableGiveUp, EnableUnpublish,
           EnableReturn, ClickDisable, DisableBegin, DisableSend, DisableAwait,
           DisableWaited, DisableReset, DisableClear, DisableEnd, Leave, LeaveDone,
           LeaveForced, GuardWake, GuardLook, GuardExist, GuardUse, GuardWaited, guardOnly,
           EnableCreateFails, SendLook, SendAddress, SendEvent,
           ServeCall, PlusCrash, PlusCallApi, PlusStart, PlusEnable, PlusOpenSlot,
           PlusAnswers, PlusDispatch, PlusCallback, PlusCallbackEnds, PlusStop, PlusStopped
  <2> QED
    BY <2>1, SMTT(30) DEF IInv, GuardStarts, TypeOK
<1>2. CASE pc' = pc \/ \E l : Goto("main", l)
  BY <1>1, <1>2 DEF Goto, Threads
<1>3. pc' = pc \/ \E l : Goto("main", l)
  <2>1. ~DisableStep("guard") /\ ~GuardWake /\ ~GuardExist /\ ~GuardUse /\ ~GuardWaited
        /\ ~StartGuard /\ \A p \in Plus : ~GuardLook(p)
    BY <1>1 DEF DisableStep, DisableBegin, DisableSend, DisableAwait, DisableWaited,
                DisableReset, DisableClear, DisableEnd, GuardWake, GuardExist, GuardUse,
                GuardWaited, GuardLook, StartGuard, At
  <2>2. CASE EnableStep \/ \E p \in Plus : EnableUuid(p)
    BY <2>2 DEF EnableStep, EnableUuid, EnableCreate, EnableCreateFails, EnablePublish,
                EnableLoaded, EnableGiveUp, EnableUnpublish, EnableReturn
  <2>3. CASE DisableStep("main")
    BY <2>3 DEF DisableStep, DisableBegin, DisableSend, DisableAwait, DisableWaited,
                DisableReset, DisableClear, DisableEnd
  <2>4. CASE LeaveDone \/ LeaveForced \/ Leave \/ \E p \in Plus : ClickDisable(p)
    BY <2>4 DEF LeaveDone, LeaveForced, Leave, ClickDisable
  <2>5. CASE \/ \E d \in Deliverers : SendStep(d)
             \/ \E i \in Lives : ServeCall(i) \/ PlusStep(i) \/ PlusCrash(i) \/ PlusCallApi(i)
    BY <2>5 DEF SendStep, SendLook, SendAddress, SendEvent, ServeCall, PlusStep, PlusCrash,
                PlusCallApi, PlusStart, PlusEnable, PlusOpenSlot, PlusAnswers, PlusDispatch,
                PlusCallback, PlusCallbackEnds, PlusStop, PlusStopped, plusOnly, mainVars
  <2> QED
    BY <2>1, <2>2, <2>3, <2>4, <2>5
    DEF Next, vars, mainVars, MainStep, Startup, Button, GuardStep
<1> QED
  BY <1>2, <1>3

LEMMA LookingNext == IInv /\ [Next]_vars => Looking'
<1> SUFFICES ASSUME IInv, [Next]_vars PROVE Looking'
  OBVIOUS
<1> USE DEF plusVars, mainVars, histVars, plusOnly, guardOnly
<1>0. /\ Looking /\ TypeOK
      /\ pc \in [Threads -> MainPC \cup GuardPC] /\ cur \in [Threads -> Plus \cup {NoPlus}]
  BY DEF IInv, TypeOK
<1>1. ASSUME UNCHANGED <<pc, cur, process, seen>>, why' = why \/ why' # "dangling"
      PROVE  Looking'
  BY <1>0, <1>1 DEF Looking, Rivals
\* The main thread moves, and writes no pointer the guard has tested.
<1>2. ASSUME Up, NEW l, Goto("main", l), pc["main"] # "clear" \/ ~Looked(cur["main"]),
             cur'["guard"] = cur["guard"], seen' = seen, why' # "dangling",
             Looked(cur["guard"]) => process'[cur["guard"]] = process[cur["guard"]]
      PROVE  Looking'
  BY <1>0, <1>2 DEF Looking, Rivals, Looked, Goto, Threads
<1>3. ASSUME NEW p \in Plus, EnableUuid(p) PROVE Looking'
  BY <1>0, <1>2, <1>3 DEF EnableUuid, At, Up, Threads
<1>4. CASE EnableStep
  <2>1. CASE EnableCreate \/ EnableLoaded \/ EnableGiveUp
    BY <1>2, <2>1 DEF EnableCreate, EnableLoaded, EnableGiveUp, At, Up
  <2>2. CASE EnableCreateFails
    BY <1>1, <2>2 DEF EnableCreateFails, MainEnds
  <2>3. CASE EnablePublish
    BY <1>0, <1>2, <2>3 DEF EnablePublish, At, Up, TypeOK, Looked
  <2>4. CASE EnableUnpublish
    BY <1>0, <1>2, <2>4 DEF EnableUnpublish, At, Up, TypeOK, Looked, MainEnds, Threads
  <2>5. CASE EnableReturn
    BY <1>0, <1>2, <2>5 DEF EnableReturn, At, Up, Threads
  <2> QED
    BY <1>4, <2>1, <2>2, <2>3, <2>4, <2>5 DEF EnableStep
<1>5. ASSUME NEW p \in Plus, ClickDisable(p) PROVE Looking'
  BY <1>2, <1>5 DEF ClickDisable, At, Up
<1>6. CASE DisableStep("main")
  <2>1. ASSUME NEW p \in Plus, DisableBegin("main", p) PROVE Looking'
    <3>1. CASE UNCHANGED <<pc, cur>>
      BY <1>1, <2>1, <3>1 DEF DisableBegin
    <3>2. CASE cur' = [cur EXCEPT !["main"] = p] /\ \E l : Goto("main", l)
      BY <1>0, <1>2, <2>1, <3>2 DEF DisableBegin, At, Up, Threads
    <3> QED
      BY <2>1, <3>1, <3>2 DEF DisableBegin
  <2>2. CASE DisableSend("main") \/ DisableWaited("main")
    BY <1>2, <2>2 DEF DisableSend, DisableWaited, At, Up
  <2>3. CASE DisableAwait("main")
    <3>1. CASE MainEnds("null_pointer") /\ UNCHANGED pc
      BY <1>1, <2>3, <3>1 DEF DisableAwait, MainEnds
    <3>2. CASE Goto("main", "wait") /\ UNCHANGED why
      BY <1>2, <2>3, <3>2 DEF DisableAwait, At, Up
    <3> QED
      BY <2>3, <3>1, <3>2 DEF DisableAwait
  <2>4. CASE DisableReset("main")
    <3>1. /\ pc'["main"] = "clear" /\ pc'["guard"] = pc["guard"] /\ Up /\ why' = why
          /\ UNCHANGED <<cur, seen>> /\ process' = [process EXCEPT ![cur["main"]] = 0]
          /\ pc["main"] = "reset"
      BY <1>0, <2>4 DEF DisableReset, At, Goto, Threads
    <3>2. cur["guard"] # cur["main"] => process'[cur["guard"]] = process[cur["guard"]]
      BY <1>0, <3>1 DEF TypeOK
    <3> QED
      BY <1>0, <3>1, <3>2 DEF Looking, Rivals, Up
  <2>5. CASE DisableClear("main")
    BY <1>0, <1>2, <2>5 DEF DisableClear, At, Up, Threads
  <2>6. CASE DisableEnd("main")
    BY <1>2, <2>6 DEF DisableEnd, At, Up
  <2> QED
    BY <1>6, <2>1, <2>2, <2>3, <2>4, <2>5, <2>6 DEF DisableStep
\* The guard elsewhere than in its look.
<1>7. ASSUME Up, why' # "dangling", pc'["guard"] # "use" PROVE Looking'
  BY <1>7 DEF Looking
<1>8. CASE DisableStep("guard")
  <2>1. /\ Up /\ why' # "dangling" /\ pc["guard"] # "use"
        /\ pc' = pc \/ \E l \in {"send", "await", "wait", "reset", "clear", "next"} :
                          Goto("guard", l)
    BY <1>8 DEF DisableStep, DisableBegin, DisableSend, DisableAwait, DisableWaited,
                DisableReset, DisableClear, DisableEnd, At, MainEnds, Up
  <2> QED
    BY <1>0, <1>7, <2>1 DEF Goto, Threads
<1>9. CASE StartGuard \/ \E p \in Plus : GuardLook(p)
  <2>1. /\ Up /\ why' = why
        /\ UNCHANGED <<pc, cur, process, seen>> \/ \E l \in {"scan", "exist"} : Goto("guard", l)
    BY <1>9 DEF StartGuard, GuardLook, At
  <2> QED
    BY <1>0, <1>1, <1>7, <2>1 DEF Goto, Threads, Up
<1>10. CASE GuardExist
  BY <1>0, <1>7, <1>10 DEF GuardExist, GuardMisses, Looking, Goto, At, Up, Threads
<1>11. CASE GuardUse
  <2>1. /\ Up /\ pc["guard"] = "use" /\ UNCHANGED process
    BY <1>11 DEF GuardUse, At
  <2>2. CASE process[cur["guard"]] = seen
    BY <1>0, <1>7, <1>11, <2>1, <2>2 DEF GuardUse, Goto, Threads, Up
  <2>3. CASE MainEnds("dangling") /\ UNCHANGED <<pc, cur>> /\ process[cur["guard"]] # seen
    BY <1>0, <2>1, <2>3 DEF Looking, Rivals
  <2>4. CASE GuardSees \/ GuardMisses
    BY <1>0, <1>7, <2>1, <2>4 DEF GuardSees, GuardMisses, Goto, Threads, Up
  <2> QED
    BY <1>11, <2>2, <2>3, <2>4 DEF GuardUse
<1>12. CASE GuardWaited
  BY <1>0, <1>7, <1>12 DEF GuardWaited, GuardSees, GuardMisses, Goto, Threads, At, Up
<1>13. CASE Leave
  BY <1>2, <1>13 DEF Leave, At, Up
<1>14. CASE \/ LeaveDone \/ LeaveForced \/ GuardWake
            \/ \E d \in Deliverers : SendStep(d)
            \/ \E i \in Lives : ServeCall(i) \/ PlusStep(i) \/ PlusCrash(i) \/ PlusCallApi(i)
            \/ UNCHANGED vars
  <2>1. UNCHANGED <<pc, cur, process, seen>> /\ (why' = why \/ why' # "dangling")
    BY <1>14
    DEF LeaveDone, LeaveForced, GuardWake, SendStep, SendLook, SendAddress, SendEvent,
        ServeCall, PlusStep, PlusCrash, PlusCallApi, PlusStart, PlusEnable, PlusOpenSlot,
        PlusAnswers, PlusDispatch, PlusCallback, PlusCallbackEnds, PlusStop, PlusStopped,
        MainEnds, vars
  <2> QED
    BY <1>1, <2>1
<1> QED
  BY <1>3, <1>4, <1>5, <1>6, <1>8, <1>9, <1>10, <1>11, <1>12, <1>13, <1>14
  DEF Next, MainStep, Startup, Button, GuardStep, Threads

Sender == [at : {"idle", "enabled", "addressed"}, plus : Plus \cup {NoPlus}, to : LifeOr0]

LEMMA SenderNext ==
  ASSUME IInv, NEW d \in Deliverers, SendStep(d)
  PROVE  sender' \in [Deliverers -> Sender] /\ Addressees'
<1> USE DEF IInv
<1>1. sender \in [Deliverers -> Sender] /\ sender[d] \in Sender
  BY DEF TypeOK, Sender
<1>2. PICK x \in Sender : /\ sender' = [sender EXCEPT ![d] = x]
                          /\ x.at = "enabled" => x.plus \in Plus
  <2>1. CASE SendEvent(d)
    <3>1. Idle \in Sender /\ Idle.at = "idle"
      BY ZeroLife DEF Idle, Sender
    <3>2. sender' = [sender EXCEPT ![d] = Idle]
      BY <2>1 DEF SendEvent
    <3> QED
      BY <3>1, <3>2
  <2>2. ASSUME NEW p \in Plus, SendLook(d, p)
        PROVE  \E x \in Sender : /\ sender' = [sender EXCEPT ![d] = x]
                                 /\ x.at = "enabled" => x.plus \in Plus
    <3> DEFINE x == [at |-> "enabled", plus |-> p, to |-> 0]
    <3>1. x \in Sender /\ x.plus \in Plus
      BY ZeroLife DEF Sender
    <3>2. sender' = [sender EXCEPT ![d] = x]
      BY <2>2 DEF SendLook
    <3> QED
      BY <3>1, <3>2
  <2>3. CASE SendAddress(d)
    <3> DEFINE x == [at |-> "addressed", plus |-> sender[d].plus, to |-> uuid[sender[d].plus]]
    <3>1. uuid[sender[d].plus] \in LifeOr0
      BY <2>3 DEF SendAddress, Addressees, TypeOK
    <3>2. x \in Sender
      BY <1>1, <3>1 DEF Sender
    <3>3. sender' = [sender EXCEPT ![d] = x]
      BY <2>3 DEF SendAddress
    <3> QED
      BY <3>2, <3>3
  <2> QED
    BY <2>1, <2>2, <2>3 DEF SendStep
<1> QED
  BY <1>1, <1>2 DEF Addressees

LEMMA PlainTypesNext == IInv /\ [Next]_vars => PlainTypes'
<1> SUFFICES ASSUME IInv, [Next]_vars PROVE PlainTypes'
  OBVIOUS
<1>0. PlainTypes /\ CoreTypes
  BY TypeParts DEF IInv
<1> USE DEF plusVars, mainVars, histVars, plusOnly
<1>1. CASE UNCHANGED <<why, started, leaving, alarm, todo, seen, calls, sender, crashed, slow>>
  BY <1>0, <1>1 DEF PlainTypes
<1>2. ASSUME why' = why \/ \E cause \in Causes : MainEnds(cause),
             UNCHANGED <<started, leaving, alarm, todo, seen, sender, crashed, slow>>,
             calls' \subseteq calls
      PROVE  PlainTypes'
  BY <1>0, <1>2 DEF PlainTypes, MainEnds
<1>3. ASSUME NEW t \in Threads, NEW S \in SUBSET Plus, todo' = [todo EXCEPT ![t] = S],
             started' \in BOOLEAN, leaving' \in BOOLEAN, alarm' \in BOOLEAN,
             UNCHANGED <<why, seen, calls, sender, crashed, slow>>
      PROVE  PlainTypes'
  BY <1>0, <1>3 DEF PlainTypes
<1>4. /\ todo["main"] \in SUBSET Plus /\ todo["guard"] \in SUBSET Plus
      /\ \A t \in Threads : todo[t] \in SUBSET Plus
  BY <1>0 DEF PlainTypes, Threads
<1>5. started \in BOOLEAN /\ leaving \in BOOLEAN /\ alarm \in BOOLEAN
  BY <1>0 DEF PlainTypes
<1>6. ASSUME NEW p \in Plus, EnableUuid(p) \/ ClickDisable(p) PROVE PlainTypes'
  <2>1. \E S \in SUBSET Plus : todo' = [todo EXCEPT !["main"] = S]
    BY <1>4, <1>6 DEF EnableUuid, ClickDisable
  <2> QED
    BY <1>3, <1>5, <1>6, <2>1 DEF EnableUuid, ClickDisable, Threads
<1>7. ASSUME NEW t \in Threads, DisableStep(t) PROVE PlainTypes'
  <2>1. ASSUME NEW p \in Plus, DisableBegin(t, p) PROVE PlainTypes'
    <3>1. \E S \in SUBSET Plus : todo' = [todo EXCEPT ![t] = S]
      BY <1>4, <2>1 DEF DisableBegin
    <3> QED
      BY <1>3, <1>5, <2>1, <3>1 DEF DisableBegin
  <2>2. CASE DisableSend(t) \/ DisableWaited(t) \/ DisableReset(t) \/ DisableClear(t)
    BY <1>1, <2>2 DEF DisableSend, DisableWaited, DisableReset, DisableClear
  <2>3. CASE DisableAwait(t)
    BY <1>2, <2>3 DEF DisableAwait, Causes
  <2>4. CASE DisableEnd(t)
    BY <1>2, <2>4 DEF DisableEnd, Causes
  <2> QED
    BY <1>7, <2>1, <2>2, <2>3, <2>4 DEF DisableStep
<1>8. CASE EnableStep
  <2>1. CASE EnableCreate \/ EnablePublish \/ EnableLoaded \/ EnableReturn
    BY <1>1, <2>1 DEF EnableCreate, EnablePublish, EnableLoaded, EnableReturn
  <2>2. CASE EnableGiveUp
    <3>1. slow' \subseteq Lives
      <4>1. Live(proc) => proc \in Lives
        BY <1>0, ZeroLife DEF CoreTypes, Live
      <4> QED
        BY <1>0, <2>2, <4>1 DEF EnableGiveUp, PlainTypes
    <3> QED
      BY <1>0, <2>2, <3>1 DEF EnableGiveUp, PlainTypes
  <2>3. CASE EnableUnpublish
    BY <1>2, <2>3 DEF EnableUnpublish, Causes
  <2>4. CASE EnableCreateFails
    BY <1>0, <2>4 DEF EnableCreateFails, MainEnds, Causes, PlainTypes
  <2> QED
    BY <1>8, <2>1, <2>2, <2>3, <2>4 DEF EnableStep
<1>9. CASE StartGuard
  BY <1>0, <1>9 DEF StartGuard, PlainTypes
<1>10. CASE Leave
  BY <1>3, <1>5, <1>10 DEF Leave, Threads
<1>11. CASE GuardWake
  BY <1>3, <1>5, <1>11 DEF GuardWake, Threads
<1>12. ASSUME NEW p \in Plus, GuardLook(p) PROVE PlainTypes'
  <2>1. \E S \in SUBSET Plus : todo' = [todo EXCEPT !["guard"] = S]
    BY <1>4, <1>12 DEF GuardLook
  <2> QED
    BY <1>3, <1>5, <1>12, <2>1 DEF GuardLook, Threads
<1>13. CASE GuardExist \/ GuardUse \/ GuardWaited
  <2>1. ASSUME GuardSees, UNCHANGED guardOnly PROVE PlainTypes'
    BY <1>0, <2>1, ZeroLife DEF GuardSees, guardOnly, PlainTypes
  <2>2. ASSUME GuardMisses, UNCHANGED guardOnly PROVE PlainTypes'
    BY <1>0, <2>2, ZeroLife DEF GuardMisses, guardOnly, PlainTypes
  <2>3. CASE GuardExist
    <3>1. process[cur["guard"]] # 0 => process[cur["guard"]] \in LifeOr0
      <4>1. cur["guard"] \in Plus
        BY <1>0, <2>3 DEF GuardExist, At, CoreTypes, Away, Threads
      <4> QED
        BY <1>0, <4>1 DEF CoreTypes
    <3>2. CASE GuardMisses
      BY <2>2, <2>3, <3>2 DEF GuardExist
    <3>3. CASE ~GuardMisses
      BY <1>0, <2>3, <3>1, <3>3 DEF GuardExist, guardOnly, PlainTypes
    <3> QED
      BY <3>2, <3>3
  <2>4. CASE GuardUse
    <3>1. CASE GuardSees \/ GuardMisses
      BY <2>1, <2>2, <2>4, <3>1 DEF GuardUse
    <3>2. CASE ~GuardSees /\ ~GuardMisses
      BY <1>0, <2>4, <3>2 DEF GuardUse, MainEnds, Causes, guardOnly, PlainTypes
    <3> QED
      BY <3>1, <3>2
  <2>5. CASE GuardWaited
    BY <2>1, <2>2, <2>5 DEF GuardWaited
  <2> QED
    BY <1>13, <2>3, <2>4, <2>5
<1>14. CASE LeaveDone \/ LeaveForced
  BY <1>2, <1>14 DEF LeaveDone, LeaveForced, Causes
<1>15. ASSUME NEW i \in Lives, ServeCall(i) PROVE PlainTypes'
  BY <1>2, <1>15 DEF ServeCall, Causes
<1>16. ASSUME NEW d \in Deliverers, SendStep(d) PROVE PlainTypes'
  <2>1. UNCHANGED <<why, started, leaving, alarm, todo, seen, calls, crashed, slow>>
    BY <1>16 DEF SendStep, SendLook, SendAddress, SendEvent
  <2> QED
    BY <1>0, <1>16, <2>1, SenderNext DEF PlainTypes, Sender
<1>17. ASSUME NEW i \in Lives, PlusStep(i) PROVE PlainTypes'
  BY <1>1, <1>17
  DEF PlusStep, PlusStart, PlusEnable, PlusOpenSlot, PlusAnswers, PlusDispatch,
      PlusCallback, PlusCallbackEnds, PlusStop, PlusStopped
<1>18. ASSUME NEW i \in Lives, PlusCrash(i) \/ PlusCallApi(i) PROVE PlainTypes'
  BY <1>0, <1>18 DEF PlusCrash, PlusCallApi, PlainTypes
<1> QED
  BY <1>1, <1>6, <1>7, <1>8, <1>9, <1>10, <1>11, <1>12, <1>13, <1>14, <1>15, <1>16, <1>17, <1>18
  DEF Next, vars, MainStep, Startup, Button, GuardStep, Threads

LEMMA AddresseesNext == IInv /\ [Next]_vars => Addressees'
<1> SUFFICES ASSUME IInv, [Next]_vars PROVE Addressees'
  OBVIOUS
<1>1. CASE sender' = sender
  BY <1>1 DEF IInv, Addressees
<1>2. ASSUME NEW d \in Deliverers, SendStep(d) PROVE Addressees'
  BY <1>2, SenderNext
<1>3. sender' = sender \/ \E d \in Deliverers : SendStep(d)
  <2> USE DEF plusVars, mainVars, histVars, plusOnly
  <2>1. EnableStep \/ (\E p \in Plus : EnableUuid(p) \/ ClickDisable(p)) \/ StartGuard \/ Leave
          => sender' = sender
    BY DEF EnableStep, EnableUuid, EnableCreate, EnableCreateFails, EnablePublish,
           EnableLoaded, EnableGiveUp, EnableUnpublish, EnableReturn, ClickDisable,
           StartGuard, Leave
  <2>2. \A t \in Threads : DisableStep(t) => sender' = sender
    BY DEF DisableStep, DisableBegin, DisableSend, DisableAwait, DisableWaited,
           DisableReset, DisableClear, DisableEnd
  <2>3. LeaveDone \/ LeaveForced \/ GuardWake \/ (\E p \in Plus : GuardLook(p))
          \/ GuardExist \/ GuardUse \/ GuardWaited
          => sender' = sender
    BY DEF LeaveDone, LeaveForced, GuardWake, GuardLook, GuardExist, GuardUse, GuardWaited,
           guardOnly
  <2>4. (\E i \in Lives : ServeCall(i) \/ PlusStep(i) \/ PlusCrash(i) \/ PlusCallApi(i))
          => sender' = sender
    BY DEF ServeCall, PlusStep, PlusCrash, PlusCallApi, PlusStart, PlusEnable, PlusOpenSlot,
           PlusAnswers, PlusDispatch, PlusCallback, PlusCallbackEnds, PlusStop, PlusStopped
  <2> QED
    BY <2>1, <2>2, <2>3, <2>4
    DEF Next, vars, MainStep, Startup, Button, GuardStep, Threads
<1> QED
  BY <1>1, <1>2, <1>3

LEMMA IInvInit == Init => IInv
<1> SUFFICES ASSUME Init PROVE IInv
  OBVIOUS
<1>1. /\ \A st \in Stage : AtStage(st) \in Process /\ AtStage(st).stage = st
      /\ AtStage("none").queued + AtStage("none").running <= MaxMail /\ "none" \in Stage
  BY FreshProcess DEF Stage
<1>2. run \in [Lives -> Process] /\ \A i \in Lives : run[i] = AtStage("none")
  BY <1>1 DEF Init
<1>3. PlainTypes
  <2>1. Idle \in [at : {"idle", "enabled", "addressed"}, plus : Plus \cup {NoPlus}, to : LifeOr0]
    BY ZeroLife DEF Idle
  <2> QED
    BY <2>1, ZeroLife DEF Init, PlainTypes, Causes, Threads
<1>4. CoreTypes
  BY ZeroLife DEF Init, CoreTypes, Threads, MainPC, GuardPC, Away
<1>5. TypeOK
  BY <1>2, <1>3, <1>4, TypeParts DEF RunTypes
<1>6. Rooms /\ Alive
  BY <1>1, <1>2 DEF Rooms, Alive, Live
<1>7. Making
  BY <1>1, <1>2 DEF Init, Making, Holding, Threads
<1>8. Calm /\ Looking /\ GuardStarts
  BY DEF Init, Calm, Watching, Looking, GuardStarts, Threads
<1>9. Addressees
  BY DEF Init, Addressees, Idle
<1> QED
  BY <1>5, <1>6, <1>7, <1>8, <1>9 DEF IInv

LEMMA Invariant == Spec => []IInv
<1>1. IInv /\ [Next]_vars => IInv'
  <2> SUFFICES ASSUME IInv, [Next]_vars PROVE IInv'
    OBVIOUS
  <2>1. /\ PlainTypes' /\ CoreInv' /\ RunTypes' /\ Rooms' /\ Looking' /\ GuardStarts'
        /\ Addressees'
    BY PlainTypesNext, CoreNext, LookingNext, GuardStartsNext, AddresseesNext
  <2>2. TypeOK'
    BY <2>1 DEF CoreInv, TypeOK, PlainTypes, CoreTypes, RunTypes, Away
  <2> QED
    BY <2>1, <2>2 DEF IInv, CoreInv
<1> QED
  BY <1>1, IInvInit, PTL DEF Spec

(* Every variable has its type, and a thread is at a plugin exactly while  *)
(* it works on one.                                                        *)
THEOREM TypeCorrect == Spec => []TypeOK
<1>1. IInv => TypeOK
  BY DEF IInv
<1> QED
  BY <1>1, Invariant, PTL

(* However the window and the guard enable and disable plugins, no two     *)
(* processes ever run the same plugin.                                     *)
THEOREM OneProcessEach == Spec => []OneProcess
<1>1. IInv => OneProcess
  <2> SUFFICES ASSUME IInv, NEW i \in Lives, NEW j \in Lives, Live(i), Live(j),
                      owner[i] = owner[j]
               PROVE  i = j
    BY DEF OneProcess
  <2> DEFINE p == owner[i]
  <2>1. p \in Plus /\ HeldBy(i) /\ HeldBy(j) /\ i # 0 /\ j # 0
    BY ZeroLife DEF IInv, Alive
  <2>5. CASE (Orphan(i) \/ Orphan(j)) /\ cur["main"] = p
    <3>1. process[p] = 0 /\ proc = 0
      BY <2>5 DEF Orphan, IInv, Making, Holding
    <3>2. Orphan(i) /\ Orphan(j)
      BY <2>1, <3>1 DEF HeldBy
    <3> QED
      BY <3>2 DEF Orphan
  <2>2. CASE process[p] = i /\ process[p] = j
    BY <2>2
  <2>3. CASE proc = i /\ proc = j
    BY <2>3
  <2>4. ASSUME NEW a \in {i, j}, NEW b \in {i, j}, process[p] = a, proc = b,
               cur["main"] = p, pc["main"] \in Holding
        PROVE  i = j
    <3>1. process[p] \in {0, proc}
      BY <2>4 DEF IInv, Making, Holding
    <3>2. a = b
      BY <2>1, <2>4, <3>1
    <3>3. CASE a = i /\ b = j
      BY <3>2, <3>3
    <3>4. CASE a = j /\ b = i
      BY <3>2, <3>4
    <3>5. CASE a = b /\ a = i
      <4>1. HeldBy(j) => process[p] = j \/ proc = j
        BY <2>4 DEF HeldBy, Orphan, Holding
      <4> QED
        BY <2>1, <2>4, <3>5, <4>1
    <3>6. CASE a = b /\ a = j
      <4>1. HeldBy(i) => process[p] = i \/ proc = i
        BY <2>4 DEF HeldBy, Orphan, Holding
      <4> QED
        BY <2>1, <2>4, <3>6, <4>1
    <3> QED
      BY <3>2, <3>3, <3>4, <3>5, <3>6
  <2> QED
    BY <2>1, <2>2, <2>3, <2>4, <2>5 DEF HeldBy
<1> QED
  BY <1>1, Invariant, PTL

LEMMA KnownIfCalm == IInv => KnownWhileEnabled
<1> SUFFICES ASSUME IInv, ~alarm, NEW i \in Lives, Live(i), ~Withdrawing(owner[i])
             PROVE  uuid[owner[i]] = i
  BY DEF KnownWhileEnabled
<1>1. owner[i] \in Plus /\ HeldBy(i) /\ i # 0
  BY ZeroLife DEF IInv, Alive
<1>2. CASE process[owner[i]] = i
  BY <1>1, <1>2 DEF IInv, Calm
<1>3. CASE proc = i /\ cur["main"] = owner[i] /\ pc["main"] \in Holding
  <2>1. pc["main"] # "unpublish"
    BY <1>3 DEF Withdrawing
  <2>2. uuid[cur["main"]] = made
    BY <1>3, <2>1 DEF IInv, Calm, Holding
  <2> QED
    BY <1>3, <2>2, HoldingFacts
<1>4. CASE Orphan(i) /\ cur["main"] = owner[i]
  BY <1>4 DEF IInv, Calm, Orphan
<1> QED
  BY <1>1, <1>2, <1>3, <1>4 DEF HeldBy

(* As long as the guard has raised no alarm, the uuid of a process that    *)
(* runs and is not being taken away is the one of its plugin.              *)
THEOREM UuidIsKnown == Spec => []KnownWhileEnabled
BY KnownIfCalm, Invariant, PTL

(* A plugin that nobody is enabling or disabling and that has no Process   *)
(* has no process that runs, and without an alarm no uuid either.          *)
THEOREM DisabledPlusIsGone == Spec => []DisabledIsGone
<1>1. IInv => DisabledIsGone
  <2> SUFFICES ASSUME IInv, NEW p \in Plus, process[p] = 0, \A t \in Threads : cur[t] # p
               PROVE  /\ \A i \in Lives : owner[i] = p => ~Live(i)
                      /\ ~alarm => uuid[p] = 0
    BY DEF DisabledIsGone
  <2>1. cur["main"] # p
    BY DEF Threads
  <2>2. ~alarm => uuid[p] = 0
    BY <2>1 DEF IInv, Calm
  <2>3. ASSUME NEW i \in Lives, owner[i] = p, Live(i) PROVE FALSE
    BY <2>1, <2>3, ZeroLife DEF IInv, Alive, HeldBy, Orphan, Up
  <2> QED
    BY <2>2, <2>3
<1> QED
  BY <1>1, Invariant, PTL

(* disable_plus follows a null pointer only after the guard has raised its *)
(* alarm.  The guard follows one that has been taken away, without any     *)
(* alarm, but only while the main thread stands between the reset of that  *)
(* plugin's pointer and the clearing of its uuid in disable_plus.          *)
THEOREM PointersLostToRivals == Spec => []PointerLostToRival
<1>1. IInv => PointerLostToRival
  BY DEF IInv, Calm, Looking, Rivals, PointerLostToRival
<1> QED
  BY <1>1, Invariant, PTL

(* Without an alarm, the API call that ends the main process because its   *)
(* uuid is that of no plugin comes from a plugin that has ended or is      *)
(* being taken away.                                                       *)
THEOREM UnknownCallers == Spec => UnknownIsWithdrawn
<1>1. IInv /\ [Next]_vars =>
        [why = "up" /\ why' = "unknown_uuid" /\ ~alarm
           => \E i \in calls : ~Live(i) \/ Withdrawing(owner[i])]_vars
  <2> SUFFICES ASSUME IInv, Next, why = "up", why' = "unknown_uuid", ~alarm
               PROVE  \E i \in calls : ~Live(i) \/ Withdrawing(owner[i])
    OBVIOUS
  <2>1. PICK i \in Lives : ServeCall(i)
    <3> USE DEF plusVars, mainVars, histVars, plusOnly, MainEnds
    <3>1. ~EnableStep /\ ~(\E p \in Plus : EnableUuid(p) \/ ClickDisable(p)) /\ ~StartGuard /\ ~Leave
      BY DEF EnableStep, EnableUuid, EnableCreate, EnableCreateFails, EnablePublish,
             EnableLoaded, EnableGiveUp, EnableUnpublish, EnableReturn, ClickDisable,
             StartGuard, Leave
    <3>2. \A t \in Threads : ~DisableStep(t)
      BY DEF DisableStep, DisableBegin, DisableSend, DisableAwait, DisableWaited,
             DisableReset, DisableClear, DisableEnd
    <3>3. /\ ~LeaveDone /\ ~LeaveForced /\ ~GuardWake /\ ~(\E p \in Plus : GuardLook(p))
          /\ ~GuardExist /\ ~GuardUse /\ ~GuardWaited
      BY DEF LeaveDone, LeaveForced, GuardWake, GuardLook, GuardExist, GuardUse, GuardWaited,
             GuardSees, GuardMisses
    <3>4. ~\E d \in Deliverers : SendStep(d)
      BY DEF SendStep, SendLook, SendAddress, SendEvent
    <3>5. ~\E i \in Lives : PlusStep(i) \/ PlusCrash(i) \/ PlusCallApi(i)
      BY DEF PlusStep, PlusCrash, PlusCallApi, PlusStart, PlusEnable, PlusOpenSlot,
             PlusAnswers, PlusDispatch, PlusCallback, PlusCallbackEnds, PlusStop, PlusStopped
    <3> QED
      BY <3>1, <3>2, <3>3, <3>4, <3>5
      DEF Next, MainStep, Startup, Button, GuardStep, Threads
  <2>2. i \in calls /\ \A p \in Plus : uuid[p] # i
    BY <2>1 DEF ServeCall
  <2>3. ASSUME Live(i), ~Withdrawing(owner[i]) PROVE FALSE
    <3>1. owner[i] \in Plus /\ uuid[owner[i]] = i
      BY <2>3, KnownIfCalm DEF KnownWhileEnabled, IInv, Alive
    <3> QED
      BY <2>2, <3>1
  <2> QED
    BY <2>2, <2>3
<1> QED
  BY <1>1, Invariant, PTL DEF Spec, UnknownIsWithdrawn
=============================================================================
