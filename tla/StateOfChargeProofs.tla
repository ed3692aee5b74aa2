------------------------ MODULE StateOfChargeProofs ------------------------
(***************************************************************************)
(* Theorems about StateOfCharge, for any transactions, readings and        *)
(* messages, with calls that may fail, restarts, and any number of         *)
(* messages in progress.                                                   *)
(***************************************************************************)
EXTENDS StateOfCharge, TLAPS

Places == {"idle", "getStart", "setStart", "getTx", "setLatest", "writeStart",
           "getStop", "stop", "free"}
Sampling == {"getStart", "setStart", "getTx", "setLatest", "writeStart"}

(* A handler that has not overlapped is the only one in progress. *)
Alone ==
    \A h, g \in Handlers :
        h \notin overlapped /\ at[h] # "idle" /\ g # h => at[g] = "idle"

(* What a handler knows that no other handler can undo. *)
Knows(h) ==
    /\ at[h] = "free" => stopped[job[h].tx]
    /\ at[h] \in {"getTx", "setLatest", "writeStart"}
         => startKey[job[h].tx] # NoSoc

(* What it knows as long as it is alone: what it read is still so. *)
KnowsAlone(h) ==
    h \notin overlapped =>
        /\ at[h] = "setStart" => startKey[job[h].tx] = NoSoc
        /\ at[h] = "setLatest" /\ job[h].unset => Unset(startSoC[job[h].tx])
        /\ at[h] = "writeStart" => Unset(startSoC[job[h].tx])
        /\ at[h] = "writeStart"
             => latestKey[job[h].tx] = Head(job[h].readings)
        /\ at[h] \in Sampling => cache[job[h].tx] = Head(job[h].readings)
        /\ at[h] = "stop" => job[h].soc = cache[job[h].tx]

(* Until the stop is recorded only a restart takes the last reading.       *)
LastIsCached ==
    \A t \in Transactions :
        ~stopped[t] => cache[t] = IF t \in lost THEN NoSoc ELSE last[t]

SocInv ==
    /\ TypeOK
    /\ Alone
    /\ LastIsCached
    /\ \A h \in Handlers : Knows(h) /\ KnowsAlone(h)

(* A stop that is recorded, and a first reading in redis, stay. *)
Monotone ==
    \A t \in Transactions :
        /\ stopped[t] => stopped'[t]
        /\ startKey[t] # NoSoc => startKey'[t] # NoSoc

MemoryTypeOK ==
    /\ cache \in [Transactions -> Soc]
    /\ last \in [Transactions -> Soc]
    /\ lost \subseteq Transactions

LEMMA NewJobType ==
    ASSUME NEW t \in Transactions, NEW rs \in Seq(Readings)
    PROVE  NewJob(t, rs) \in Job
BY DEF NewJob, Job, Soc

LEMMA IdleJobType ==
    ASSUME NEW t \in Transactions PROVE NewJob(t, << >>) \in Job
<1>1. << >> \in Seq(Readings)
  OBVIOUS
<1> QED
  BY <1>1, NewJobType

LEMMA SocInvInit == Init => SocInv
<1> SUFFICES ASSUME Init PROVE SocInv
  OBVIOUS
<1>1. PICK t0 \in Transactions : job = [h \in Handlers |-> NewJob(t0, << >>)]
  BY DEF Init
<1>2. job \in [Handlers -> Job]
  BY <1>1, IdleJobType
<1>3. TypeOK
  BY <1>2 DEF Init, TypeOK, Soc
<1>4. Alone /\ LastIsCached
  BY DEF Init, Alone, LastIsCached
<1>5. \A h \in Handlers : Knows(h) /\ KnowsAlone(h)
  BY DEF Init, Knows, KnowsAlone, Sampling
<1> QED
  BY <1>3, <1>4, <1>5 DEF SocInv

(* A reading is taken in. *)
LEMMA TakeInv ==
    ASSUME SocInv, NEW t \in Transactions, NEW reading \in Readings,
           Take(t, reading), stopped' = stopped
    PROVE  MemoryTypeOK' /\ LastIsCached' /\ cache'[t] = reading
<1>1. /\ cache \in [Transactions -> Soc] /\ last \in [Transactions -> Soc]
      /\ lost \subseteq Transactions /\ LastIsCached
  BY DEF SocInv, TypeOK
<1>2. MemoryTypeOK' /\ cache'[t] = reading
  BY <1>1 DEF Take, MemoryTypeOK, Soc
<1>3. ASSUME NEW u \in Transactions, ~stopped'[u]
      PROVE  cache'[u] = IF u \in lost' THEN NoSoc ELSE last'[u]
  BY <1>1, <1>3 DEF Take, LastIsCached
<1> QED
  BY <1>2, <1>3 DEF LastIsCached

LEMMA MemoryStays ==
    ASSUME SocInv, UNCHANGED memoryVars, stopped' = stopped
    PROVE  MemoryTypeOK' /\ LastIsCached'
BY DEF SocInv, TypeOK, MemoryTypeOK, LastIsCached, memoryVars

-----------------------------------------------------------------------------
(* A step of a handler in progress: it is enough to look at that handler,  *)
(* at the types and at the rows.                                           *)
LEMMA BusyStepInv ==
    ASSUME SocInv, NEW h \in Handlers,
           at[h] # "idle",
           \A g \in Handlers \ {h} : at'[g] = at[g] /\ job'[g] = job[g],
           \/ overlapped' = overlapped
           \/ overlapped' = overlapped \ {h} /\ at'[h] = "idle",
           Monotone, TypeOK', LastIsCached', Knows(h)', KnowsAlone(h)'
    PROVE  SocInv'
<1>1. \A g \in Handlers \ {h} : g \notin overlapped' => at'[g] = "idle"
  BY DEF SocInv, Alone
<1>2. Alone'
  BY <1>1 DEF SocInv, Alone
<1>3. ASSUME NEW g \in Handlers, g # h PROVE Knows(g)' /\ KnowsAlone(g)'
  <2>1. job[g].tx \in Transactions
    BY DEF SocInv, TypeOK, Job
  <2>2. at'[g] = at[g] /\ job'[g] = job[g]
    BY <1>3
  <2>3. Knows(g)'
    BY <2>1, <2>2 DEF SocInv, Knows, Monotone
  <2>4. KnowsAlone(g)'
    BY <1>1, <1>3 DEF KnowsAlone, Sampling
  <2> QED
    BY <2>3, <2>4
<1> QED
  BY <1>2, <1>3 DEF SocInv

(* A handler that returns knows nothing any more. *)
LEMMA FinishInv ==
    ASSUME SocInv, NEW h \in Handlers,
           at[h] # "idle", Finish(h), recorded' = recorded,
           MemoryTypeOK', startKey' \in [Transactions -> Soc],
           latestKey' \in [Transactions -> Soc], startSoC' \in [Transactions -> Soc],
           stopSoC' \in [Transactions -> Soc], stopped' \in [Transactions -> BOOLEAN],
           Monotone, LastIsCached'
    PROVE  SocInv'
<1>1. NewJob(job[h].tx, << >>) \in Job
  BY IdleJobType DEF SocInv, TypeOK, Job
<1>2. TypeOK'
  BY <1>1 DEF SocInv, TypeOK, Finish, Await, MemoryTypeOK
<1>3. Knows(h)' /\ KnowsAlone(h)'
  BY DEF Knows, KnowsAlone, Finish, Await, SocInv, TypeOK, Sampling
<1> QED
  BY <1>2, <1>3, BusyStepInv DEF Finish, Await, SocInv, TypeOK

(* The next sample, after a step that left the cache and the stop alone. *)
LEMMA NextReadingInv ==
    ASSUME SocInv, NEW h \in Handlers, NEW written \in BOOLEAN,
           at[h] \in Sampling, NextReading(h, written), recorded' = recorded,
           startKey' = startKey, latestKey' \in [Transactions -> Soc],
           startSoC' \in [Transactions -> Soc], UNCHANGED stopVars, Monotone
    PROVE  SocInv'
<1> DEFINE rest == Tail(job[h].readings)
<1>1. CASE rest = << >>
  <2>1. Finish(h) /\ UNCHANGED memoryVars
    BY <1>1 DEF NextReading
  <2>2. MemoryTypeOK' /\ LastIsCached'
    BY <2>1, MemoryStays DEF stopVars
  <2> QED
    BY <2>1, <2>2, FinishInv DEF SocInv, TypeOK, stopVars, Sampling
<1>2. CASE rest # << >>
  <2>1. /\ Take(job[h].tx, Head(rest))
        /\ at' = [at EXCEPT ![h] = "getStart"]
        /\ job' = [job EXCEPT ![h].readings = rest, ![h].written = written]
        /\ overlapped' = overlapped
    BY <1>2 DEF NextReading, Await
  <2>2. job[h].readings \in Seq(Readings) /\ job[h].readings # << >>
    BY DEF SocInv, TypeOK, Job, Sampling
  <2>3. /\ rest \in Seq(Readings) /\ Head(rest) \in Readings
        /\ job[h].tx \in Transactions
    BY <2>2, <1>2 DEF SocInv, TypeOK, Job
  <2>9. MemoryTypeOK' /\ LastIsCached' /\ cache'[job[h].tx] = Head(rest)
    BY <2>1, <2>3, TakeInv DEF stopVars
  <2>4. /\ job' \in [Handlers -> Job] /\ job'[h].readings = rest
        /\ job'[h].tx = job[h].tx
    BY <2>1, <2>3 DEF SocInv, TypeOK, Job
  <2>5. \A g \in Handlers \ {h} : job'[g] = job[g] /\ at'[g] = at[g]
    BY <2>1 DEF SocInv, TypeOK
  <2>6. at'[h] = "getStart"
    BY <2>1 DEF SocInv, TypeOK
  <2>7. TypeOK'
    <3>1. MemoryTypeOK'
      BY <2>9
    <3>2. at' \in [Handlers -> Places]
      BY <2>1 DEF SocInv, TypeOK, Places
    <3>3. \A g \in Handlers : at'[g] \in Sampling => job'[g].readings # << >>
      BY <2>4, <2>5, <1>2 DEF SocInv, TypeOK, Sampling
    <3> QED
      BY <2>1, <2>4, <3>1, <3>2, <3>3
      DEF SocInv, TypeOK, stopVars, Places, Sampling, MemoryTypeOK
  <2>8. Knows(h)' /\ KnowsAlone(h)'
    BY <2>4, <2>6, <2>9 DEF Knows, KnowsAlone
  <2> QED
    BY <2>1, <2>5, <2>7, <2>8, <2>9, BusyStepInv DEF Sampling
<1> QED
  BY <1>1, <1>2

(* A message arrives. *)
LEMMA ArriveInv ==
    ASSUME SocInv, NEW h \in Handlers, NEW pc \in {"getStart", "getStop"},
           NEW j \in Job, Arrive(h, pc, j), recorded' = recorded,
           pc = "getStart" => /\ j.readings # << >>
                              /\ cache'[j.tx] = Head(j.readings),
           MemoryTypeOK', LastIsCached',
           UNCHANGED <<redisVars, startSoC, stopVars>>
    PROVE  SocInv'
<1>1. /\ at' = [at EXCEPT ![h] = pc] /\ job' = [job EXCEPT ![h] = j]
      /\ at[h] = "idle"
      /\ overlapped' = IF Busy = {} THEN overlapped \ {h}
                       ELSE overlapped \cup Busy \cup {h}
  BY DEF Arrive, Await
<1>2. \A g \in Handlers \ {h} : at'[g] = at[g] /\ job'[g] = job[g]
  BY <1>1 DEF SocInv, TypeOK
<1>3. \A g \in Handlers \ {h} : g \in overlapped' \/ at'[g] = "idle"
  BY <1>1, <1>2 DEF Busy
<1>4. h \in overlapped' \/ \A g \in Handlers \ {h} : at'[g] = "idle"
  BY <1>1, <1>2 DEF Busy
<1>5. Alone'
  BY <1>3, <1>4 DEF Alone
<1>6. TypeOK'
  BY <1>1 DEF SocInv, TypeOK, Busy, redisVars, stopVars, MemoryTypeOK
<1>8. ASSUME NEW g \in Handlers PROVE Knows(g)' /\ KnowsAlone(g)'
  <2>1. CASE g = h
    BY <1>1, <2>1 DEF Knows, KnowsAlone, SocInv, TypeOK, Sampling
  <2>2. CASE g # h
    BY <1>2, <1>3, <2>2
    DEF Knows, KnowsAlone, SocInv, redisVars, stopVars, Sampling
  <2> QED
    BY <2>1, <2>2
<1> QED
  BY <1>5, <1>6, <1>8 DEF SocInv

-----------------------------------------------------------------------------
LEMMA MeterStepInv ==
    ASSUME SocInv, NEW h \in Handlers, MeterStep(h), recorded' = recorded
    PROVE  SocInv'
<1> DEFINE t == job[h].tx
<1>a. job[h] \in Job /\ t \in Transactions /\ at[h] \in Places
  BY DEF SocInv, TypeOK, Job, Places
<1>b. at[h] \in Sampling => Head(job[h].readings) \in Readings
  BY DEF SocInv, TypeOK, Job, Sampling
<1>1. CASE MeterArrives(h)
  <2>1. PICK u \in Transactions, rs \in Messages :
           /\ Arrive(h, "getStart", NewJob(u, rs))
           /\ Take(u, Head(rs))
           /\ UNCHANGED <<redisVars, startSoC, stopVars>>
    BY <1>1 DEF MeterArrives
  <2>2. rs \in Seq(Readings) /\ rs # << >> /\ Head(rs) \in Readings
    BY MessagesAssumption
  <2>3. /\ NewJob(u, rs) \in Job /\ NewJob(u, rs).readings = rs
        /\ NewJob(u, rs).tx = u
    BY <2>2, NewJobType DEF NewJob
  <2>4. MemoryTypeOK' /\ LastIsCached' /\ cache'[u] = Head(rs)
    BY <2>1, <2>2, TakeInv DEF stopVars
  <2> QED
    BY <2>1, <2>2, <2>3, <2>4, ArriveInv
<1>2. CASE GetStart(h)
  <2>1. TypeOK'
    BY <1>2
    DEF GetStart, Await, SocInv, TypeOK, redisVars, memoryVars, stopVars
  <2>2. Knows(h)' /\ KnowsAlone(h)'
    BY <1>2
    DEF GetStart, Await, SocInv, TypeOK, Knows, KnowsAlone, Sampling,
        redisVars, memoryVars
  <2>3. Monotone /\ LastIsCached'
    BY <1>2
    DEF GetStart, SocInv, Monotone, LastIsCached, redisVars, memoryVars,
        stopVars
  <2> QED
    BY <1>2, <2>1, <2>2, <2>3, BusyStepInv DEF GetStart, Await, SocInv, TypeOK
<1>3. CASE SetStart(h)
  <2>1. /\ startKey' = [startKey EXCEPT ![t] = Head(job[h].readings)]
        /\ Head(job[h].readings) \in Readings
    BY <1>3, <1>b DEF SetStart, Sampling
  <2>2. TypeOK'
    BY <1>3, <2>1, <1>a
    DEF SetStart, Await, SocInv, TypeOK, Soc, stopVars, memoryVars
  <2>3. Monotone /\ startKey'[t] # NoSoc
    BY <1>3, <1>a, <2>1, ReadingsAssumption
    DEF SetStart, Monotone, SocInv, TypeOK, stopVars
  <2>4. LastIsCached'
    BY <1>3, MemoryStays DEF SetStart, stopVars
  <2>5. Knows(h)' /\ KnowsAlone(h)'
    BY <1>3, <2>3 DEF SetStart, Await, SocInv, TypeOK, Knows, KnowsAlone,
       Sampling, memoryVars
  <2> QED
    BY <1>3, <2>2, <2>3, <2>4, <2>5, BusyStepInv
    DEF SetStart, Await, SocInv, TypeOK
<1>4. CASE GetTx(h)
  <2>1. /\ job' = [job EXCEPT ![h].unset =
                     t \in recorded /\ Unset(startSoC[t])]
        /\ at' = [at EXCEPT ![h] = "setLatest"] /\ at[h] = "getTx"
    BY <1>4 DEF GetTx, Await
  <2>2. /\ job'[h].tx = t /\ job'[h].readings = job[h].readings
        /\ job'[h].unset => Unset(startSoC[t])
        /\ \A g \in Handlers \ {h} : job'[g] = job[g] /\ at'[g] = at[g]
        /\ at'[h] = "setLatest"
    BY <2>1 DEF SocInv, TypeOK, Job
  <2>3. job' \in [Handlers -> Job]
    <3>1. \A b \in BOOLEAN : [job EXCEPT ![h].unset = b] \in [Handlers -> Job]
      BY DEF SocInv, TypeOK, Job
    <3>2. (t \in recorded /\ Unset(startSoC[t])) \in BOOLEAN
      BY DEF Unset
    <3> QED
      BY <2>1, <3>1, <3>2
  <2>4. TypeOK'
    BY <1>4, <2>1, <2>2, <2>3
    DEF GetTx, SocInv, TypeOK, redisVars, memoryVars, stopVars
  <2>5. Knows(h)' /\ KnowsAlone(h)'
    BY <1>4, <2>1, <2>2
    DEF GetTx, SocInv, Knows, KnowsAlone, Sampling, redisVars, memoryVars
  <2>6. Monotone /\ LastIsCached'
    BY <1>4
    DEF GetTx, SocInv, Monotone, LastIsCached, redisVars, memoryVars,
        stopVars
  <2> QED
    BY <1>4, <2>1, <2>2, <2>4, <2>5, <2>6, BusyStepInv DEF GetTx
<1>5. CASE SetLatest(h)
  <2>1. /\ latestKey' = [latestKey EXCEPT ![t] = Head(job[h].readings)]
        /\ Head(job[h].readings) \in Readings /\ at[h] = "setLatest"
        /\ UNCHANGED <<startKey, startSoC, stopVars>>
    BY <1>5, <1>b DEF SetLatest, Sampling
  <2>2. /\ latestKey' \in [Transactions -> Soc]
        /\ latestKey'[t] = Head(job[h].readings)
    BY <2>1, <1>a DEF SocInv, TypeOK, Soc
  <2>3. Monotone
    BY <2>1 DEF Monotone, stopVars
  <2>5. CASE job[h].unset /\ ~job[h].written
    <3>1. Await(h, "writeStart") /\ UNCHANGED <<memoryVars, job, overlapped>>
      BY <1>5, <2>5 DEF SetLatest
    <3>2. TypeOK'
      BY <2>1, <2>2, <3>1 DEF Await, SocInv, TypeOK, stopVars, memoryVars
    <3>3. Knows(h)' /\ KnowsAlone(h)'
      BY <2>1, <2>2, <2>5, <3>1 DEF Await, SocInv, TypeOK, Knows, KnowsAlone,
         Sampling, memoryVars
    <3>4. LastIsCached'
      BY <2>1, <3>1, MemoryStays DEF stopVars
    <3> QED
      BY <2>1, <2>3, <3>1, <3>2, <3>3, <3>4, BusyStepInv
      DEF Await, SocInv, TypeOK
  <2>6. CASE ~(job[h].unset /\ ~job[h].written)
    <3>1. NextReading(h, job[h].written)
      BY <1>5, <2>6 DEF SetLatest
    <3>2. job[h].written \in BOOLEAN /\ startSoC' \in [Transactions -> Soc]
      BY <1>a, <2>1 DEF Job, SocInv, TypeOK
    <3> QED
      BY <2>1, <2>2, <2>3, <3>1, <3>2, NextReadingInv DEF Sampling
  <2> QED
    BY <2>5, <2>6
<1>6. CASE WriteStartLands(h)
  <2>1. /\ startSoC' = [startSoC EXCEPT ![t] = Head(job[h].readings)]
        /\ Head(job[h].readings) \in Readings /\ at[h] = "writeStart"
        /\ UNCHANGED <<redisVars, stopVars>>
        /\ NextReading(h, TRUE)
    BY <1>6, <1>b DEF WriteStartLands, Sampling
  <2>2. startSoC' \in [Transactions -> Soc] /\ latestKey' \in [Transactions -> Soc]
    BY <2>1, <1>a DEF SocInv, TypeOK, Soc, redisVars, memoryVars
  <2>3. Monotone
    BY <2>1 DEF Monotone, redisVars, memoryVars, stopVars
  <2> QED
    BY <2>1, <2>2, <2>3, NextReadingInv DEF Sampling, redisVars, memoryVars
<1>7. CASE WriteStartFails(h)
  <2>1. /\ NextReading(h, job[h].written) /\ at[h] = "writeStart"
        /\ UNCHANGED <<redisVars, startSoC, stopVars>>
    BY <1>7 DEF WriteStartFails
  <2>2. Monotone
    BY <2>1 DEF Monotone, redisVars, stopVars
  <2>3. /\ job[h].written \in BOOLEAN /\ startSoC' \in [Transactions -> Soc]
        /\ latestKey' \in [Transactions -> Soc]
    BY <1>a, <2>1 DEF Job, SocInv, TypeOK, redisVars, memoryVars
  <2> QED
    BY <2>1, <2>2, <2>3, NextReadingInv DEF Sampling, redisVars, memoryVars
<1>8. CASE CallFails(h)
  <2>1. Monotone /\ LastIsCached'
    BY <1>8
    DEF CallFails, Monotone, LastIsCached, SocInv, redisVars, memoryVars,
        stopVars
  <2>2. MemoryTypeOK' /\ LastIsCached'
    BY <1>8, MemoryStays DEF CallFails, stopVars
  <2> QED
    BY <1>8, <2>1, <2>2, FinishInv
    DEF CallFails, SocInv, TypeOK, redisVars, memoryVars, stopVars
<1> QED
  BY <1>1, <1>2, <1>3, <1>4, <1>5, <1>6, <1>7, <1>8 DEF MeterStep

LEMMA StopStepInv ==
    ASSUME SocInv, NEW h \in Handlers, StopStep(h), recorded' = recorded
    PROVE  SocInv'
<1> DEFINE t == job[h].tx
<1>a. job[h] \in Job /\ t \in Transactions
  BY DEF SocInv, TypeOK, Job
<1>1. CASE StopArrives(h)
  <2>1. PICK u \in Transactions :
           /\ Arrive(h, "getStop", NewJob(u, << >>))
           /\ UNCHANGED <<memoryVars, redisVars, startSoC, stopVars>>
    BY <1>1 DEF StopArrives
  <2>2. NewJob(u, << >>) \in Job
    BY IdleJobType
  <2> QED
    <3>1. MemoryTypeOK' /\ LastIsCached'
      BY <2>1, MemoryStays DEF stopVars
    <3> QED
      BY <2>1, <2>2, <3>1, ArriveInv
<1>2. CASE StopFinds(h)
  <2>1. /\ job' = [job EXCEPT ![h].soc = cache[t]]
        /\ at' = [at EXCEPT ![h] = "stop"] /\ at[h] = "getStop"
    BY <1>2 DEF StopFinds, Await
  <2>2. /\ job'[h].tx = t /\ job'[h].soc = cache[t]
        /\ \A g \in Handlers \ {h} : job'[g] = job[g] /\ at'[g] = at[g]
        /\ at'[h] = "stop"
    BY <2>1 DEF SocInv, TypeOK, Job
  <2>3. job' \in [Handlers -> Job]
    BY <2>1, <1>a DEF SocInv, TypeOK, Job
  <2>4. TypeOK'
    BY <1>2, <2>1, <2>2, <2>3
    DEF StopFinds, SocInv, TypeOK, redisVars, memoryVars, stopVars
  <2>5. Knows(h)' /\ KnowsAlone(h)'
    BY <1>2, <2>2 DEF StopFinds, Knows, KnowsAlone, Sampling, memoryVars
  <2>6. Monotone /\ LastIsCached'
    BY <1>2
    DEF StopFinds, SocInv, Monotone, LastIsCached, redisVars, memoryVars,
        stopVars
  <2> QED
    BY <1>2, <2>1, <2>2, <2>4, <2>5, <2>6, BusyStepInv DEF StopFinds
<1>3. CASE StopLands(h)
  <2>1. /\ stopped' = [stopped EXCEPT ![t] = TRUE] /\ at[h] = "stop"
        /\ stopSoC' = [stopSoC EXCEPT ![t] = job[h].soc]
        /\ at' = [at EXCEPT ![h] = "free"]
        /\ UNCHANGED <<memoryVars, redisVars, startSoC, job, overlapped>>
    BY <1>3 DEF StopLands, Await
  <2>2. TypeOK'
    BY <2>1, <1>a DEF SocInv, TypeOK, Job, redisVars, memoryVars
  <2>3. Monotone /\ LastIsCached'
    BY <2>1, <1>a
    DEF Monotone, LastIsCached, SocInv, TypeOK, redisVars, memoryVars
  <2>4. Knows(h)' /\ KnowsAlone(h)'
    BY <2>1, <1>a DEF Knows, KnowsAlone, SocInv, TypeOK, Sampling
  <2> QED
    BY <2>1, <2>2, <2>3, <2>4, BusyStepInv DEF SocInv, TypeOK
<1>4. CASE StopEnds(h) \/ StopFails(h) \/ FreeLands(h) \/ FreeFails(h)
  <2>1. /\ Finish(h) /\ at[h] # "idle"
        /\ UNCHANGED <<redisVars, startSoC, stopVars>>
    BY <1>4 DEF StopEnds, StopFails, FreeLands, FreeFails
  <2>2. MemoryTypeOK' /\ LastIsCached'
    <3>1. CASE FreeLands(h)
      <4>1. stopped[t] /\ cache' = [cache EXCEPT ![t] = NoSoc]
        BY <3>1 DEF FreeLands, SocInv, Knows
      <4> QED
        BY <2>1, <3>1, <4>1 DEF FreeLands, SocInv, TypeOK, MemoryTypeOK,
           LastIsCached, Soc, stopVars
    <3>2. CASE ~FreeLands(h)
      BY <1>4, <2>1, <3>2, MemoryStays
      DEF StopEnds, StopFails, FreeFails, stopVars
    <3> QED
      BY <3>1, <3>2
  <2>3. Monotone
    BY <2>1 DEF Monotone, redisVars, stopVars
  <2> QED
    BY <2>1, <2>2, <2>3, FinishInv DEF SocInv, TypeOK, redisVars, stopVars
<1> QED
  BY <1>1, <1>2, <1>3, <1>4 DEF StopStep

LEMMA RestartInv ==
    ASSUME SocInv, Restart, recorded' = recorded PROVE SocInv'
<1>1. ASSUME NEW h \in Handlers PROVE NewJob(job[h].tx, << >>) \in Job
  BY IdleJobType DEF SocInv, TypeOK, Job
<1>2. TypeOK'
  BY <1>1 DEF Restart, SocInv, TypeOK, Soc, redisVars, memoryVars, stopVars
<1>3. Alone'
  BY DEF Restart, Alone
<1>5. LastIsCached'
  BY DEF Restart, SocInv, TypeOK, LastIsCached, stopVars
<1>4. \A h \in Handlers : Knows(h)' /\ KnowsAlone(h)'
  BY DEF Restart, Knows, KnowsAlone, Sampling
<1> QED
  BY <1>2, <1>3, <1>4, <1>5 DEF SocInv

LEMMA SocInvStep == SocInv /\ [Next]_vars => SocInv'
<1> SUFFICES ASSUME SocInv, [Next]_vars PROVE SocInv'
  OBVIOUS
<1>1. ASSUME NEW h \in Handlers, MeterStep(h), recorded' = recorded
      PROVE  SocInv'
  BY <1>1, MeterStepInv
<1>2. ASSUME NEW h \in Handlers, StopStep(h), recorded' = recorded
      PROVE  SocInv'
  BY <1>2, StopStepInv
<1>3. ASSUME Restart, recorded' = recorded PROVE SocInv'
  BY <1>3, RestartInv
<1>4. CASE UNCHANGED vars
  BY <1>4 DEF vars, redisVars, memoryVars, stopVars, SocInv, TypeOK, Alone,
     LastIsCached, Knows, KnowsAlone, Sampling
<1> QED
  BY <1>1, <1>2, <1>3, <1>4 DEF Next

-----------------------------------------------------------------------------
(* Every store and every handler keeps its type: a handler that awaits a   *)
(* call for a sample has one (341-362).                                    *)
THEOREM SocTypeCorrect == Spec => []TypeOK
<1>1. SocInv => TypeOK
  BY DEF SocInv
<1> QED
  BY <1>1, SocInvInit, SocInvStep, PTL DEF Spec

(* The last reading leaves the memory only when the stop is recorded, or   *)
(* with the process (545-617).                                             *)
THEOREM StopCanBeRepeated == Spec => ReadingKeptUntilStop
<1> DEFINE Kept == \A t \in Transactions :
              cache[t] # NoSoc /\ cache'[t] = NoSoc => stopped[t] \/ Restart
<1>1. SocInv /\ [Next]_vars => [Kept]_vars
  <2> SUFFICES ASSUME SocInv, Next, NEW t \in Transactions,
                      cache[t] # NoSoc, cache'[t] = NoSoc, ~Restart
               PROVE  stopped[t]
    BY DEF Kept
  <2>1. PICK h \in Handlers : MeterStep(h) \/ StopStep(h)
    BY DEF Next
  <2>2. ASSUME NEW w, NextReading(h, w), at[h] \in Sampling PROVE FALSE
    <3>1. job[h].readings \in Seq(Readings) /\ job[h].readings # << >>
      BY <2>2 DEF SocInv, TypeOK, Job, Sampling
    <3> DEFINE rest == Tail(job[h].readings)
    <3>2. /\ rest # << >> => cache' = [cache EXCEPT ![job[h].tx] = Head(rest)]
          /\ rest = << >> => UNCHANGED cache
      BY <2>2 DEF NextReading, Take, memoryVars
    <3>4. rest \in Seq(Readings)
      BY <3>1
    <3>3. rest # << >> => Head(rest) \in Readings
      BY <3>4
    <3> HIDE DEF rest
    <3> QED
      BY <3>2, <3>3, ReadingsAssumption DEF SocInv, TypeOK
  <2>3. CASE MeterArrives(h)
    <3>1. PICK u \in Transactions, rs \in Messages :
             cache' = [cache EXCEPT ![u] = Head(rs)]
      BY <2>3 DEF MeterArrives, Take
    <3>2. Head(rs) \in Readings
      BY MessagesAssumption
    <3> QED
      BY <3>1, <3>2, ReadingsAssumption DEF SocInv, TypeOK
  <2>4. CASE GetStart(h) \/ SetStart(h) \/ GetTx(h) \/ CallFails(h)
    BY <2>4 DEF GetStart, SetStart, GetTx, CallFails, memoryVars
  <2>5. CASE SetLatest(h)
    BY <2>5, <2>2 DEF SetLatest, Sampling, memoryVars
  <2>6. CASE WriteStartLands(h) \/ WriteStartFails(h)
    BY <2>6, <2>2 DEF WriteStartLands, WriteStartFails, Sampling
  <2>7. CASE FreeLands(h)
    BY <2>7 DEF FreeLands, SocInv, TypeOK, Knows, Job
  <2>8. CASE StopArrives(h) \/ StopFinds(h) \/ StopEnds(h) \/ StopLands(h)
               \/ StopFails(h) \/ FreeFails(h)
    BY <2>8 DEF StopArrives, StopFinds, StopEnds, StopLands, StopFails,
                FreeFails, memoryVars
  <2> QED
    BY <2>1, <2>3, <2>4, <2>5, <2>6, <2>7, <2>8 DEF MeterStep, StopStep
<1> QED
  BY <1>1, SocInvInit, SocInvStep, PTL DEF Spec, ReadingKeptUntilStop

(* Only a message that overlapped another one replaces the first reading   *)
(* of a session (358-386).                                                 *)
THEOREM FirstReadingIsKept == Spec => FirstReadingStays
<1> DEFINE Replaced(t) ==
             \/ ~Unset(startSoC[t]) /\ startSoC'[t] # startSoC[t]
             \/ startKey[t] # NoSoc /\ startKey'[t] # startKey[t]
<1> DEFINE Overlap(t) == \E h \in overlapped :
             job[h].tx = t /\ at[h] \in {"writeStart", "setStart"}
<1>1. SocInv /\ [Next]_vars => [\A t \in Transactions : Replaced(t) => Overlap(t)]_vars
  <2> SUFFICES ASSUME SocInv, Next, NEW t \in Transactions, Replaced(t)
               PROVE  Overlap(t)
    OBVIOUS
  <2>1. ~Restart
    BY DEF Restart, redisVars
  <2>2. PICK h \in Handlers : MeterStep(h) \/ StopStep(h)
    BY <2>1 DEF Next
  <2>3. CASE SetStart(h)
    BY <2>3 DEF SetStart, SocInv, TypeOK, KnowsAlone
  <2>4. CASE WriteStartLands(h)
    BY <2>4 DEF WriteStartLands, SocInv, TypeOK, KnowsAlone, redisVars
  <2>5. CASE \/ MeterArrives(h) \/ GetStart(h) \/ GetTx(h) \/ SetLatest(h)
             \/ WriteStartFails(h) \/ CallFails(h)
    BY <2>5 DEF MeterArrives, GetStart, GetTx, SetLatest, WriteStartFails,
                CallFails, redisVars
  <2>6. CASE StopStep(h)
    BY <2>6 DEF StopStep, StopArrives, StopFinds, StopEnds, StopLands,
                StopFails, FreeLands, FreeFails, redisVars
  <2> QED
    BY <2>2, <2>3, <2>4, <2>5, <2>6 DEF MeterStep
<1> QED
  BY <1>1, SocInvInit, SocInvStep, PTL DEF Spec, FirstReadingStays

(* A message that ran alone, with no call of redis failing, leaves its     *)
(* last reading in memory and redis, whatever became of the row (349-388). *)
THEOREM LastReadingIsLeft == Spec => MessageLeavesItsLastReading
<1> DEFINE Ended(h) == /\ at[h] \in {"setLatest", "writeStart"}
                       /\ at'[h] = "idle"
                       /\ ~CallFails(h) /\ ~Restart
           Left(h) == LET t == job[h].tx
                          final == job[h].readings[Len(job[h].readings)]
                      IN /\ cache'[t] = final /\ latestKey'[t] = final
                         /\ startKey'[t] # NoSoc
<1>1. SocInv /\ [Next]_vars
        => [\A h \in Handlers \ overlapped : Ended(h) => Left(h)]_vars
  <2> SUFFICES ASSUME SocInv, Next, NEW h \in Handlers, h \notin overlapped,
                      Ended(h)
               PROVE  Left(h)
    OBVIOUS
  <2> DEFINE t == job[h].tx
  <2>1. PICK g \in Handlers : MeterStep(g) \/ StopStep(g)
    BY DEF Next
  <2>2. g = h
    <3>1. ASSUME NEW pc, Await(g, pc) PROVE g = h
      BY <3>1 DEF Await, SocInv, TypeOK
    <3>2. Finish(g) => Await(g, "idle")
      BY DEF Finish
    <3>3. ASSUME NEW w, NextReading(g, w) PROVE \E pc : Await(g, pc)
      BY <3>3, <3>2 DEF NextReading
    <3>4. \E pc : Await(g, pc)
      <4>1. CASE MeterStep(g)
        BY <4>1, <3>2, <3>3 DEF MeterStep, MeterArrives, Arrive, GetStart,
           SetStart, GetTx, SetLatest, WriteStartLands, WriteStartFails,
           CallFails
      <4>2. CASE StopStep(g)
        BY <4>2, <3>2 DEF StopStep, StopArrives, Arrive, StopFinds, StopEnds,
           StopLands, StopFails, FreeLands, FreeFails
      <4> QED
        BY <2>1, <4>1, <4>2
    <3> QED
      BY <3>1, <3>4
  <2>3. SetLatest(h) \/ WriteStartLands(h) \/ WriteStartFails(h)
    BY <2>1, <2>2 DEF MeterStep, StopStep, MeterArrives, Arrive, GetStart,
       SetStart, GetTx, StopArrives, StopFinds, StopEnds, StopLands, StopFails,
       FreeLands, FreeFails
  <2>4. PICK w : NextReading(h, w)
    <3>1. ~Await(h, "writeStart")
      BY DEF Await, SocInv, TypeOK
    <3> QED
      BY <2>3, <3>1 DEF SetLatest, WriteStartLands, WriteStartFails
  <2>5. Tail(job[h].readings) = << >> /\ UNCHANGED memoryVars
    <3>1. ~Await(h, "getStart")
      BY DEF Await, SocInv, TypeOK
    <3> QED
      BY <2>4, <3>1 DEF NextReading
  <2>6. /\ job[h].readings \in Seq(Readings) /\ job[h].readings # << >>
        /\ t \in Transactions
    BY DEF SocInv, TypeOK, Job
  <2>7. Head(job[h].readings) = job[h].readings[Len(job[h].readings)]
    <3>1. ASSUME NEW rs \in Seq(Readings), rs # << >>, Tail(rs) = << >>
          PROVE  Len(rs) = 1
      <4>1. Len(Tail(rs)) = Len(rs) - 1 /\ Len(rs) \in Nat
        BY <3>1
      <4>2. Len(Tail(rs)) = Len(<< >>) /\ Len(<< >>) = 0
        BY <3>1
      <4> QED
        BY <4>1, <4>2
    <3> QED
      BY <2>5, <2>6, <3>1
  <2>8. cache[t] = Head(job[h].readings) /\ startKey[t] # NoSoc
    BY DEF SocInv, Knows, KnowsAlone, Sampling
  <2>9. /\ startKey' = startKey
        /\ latestKey'[t] = Head(job[h].readings)
    <3>1. CASE SetLatest(h)
      BY <3>1, <2>6 DEF SetLatest, SocInv, TypeOK
    <3>2. CASE WriteStartLands(h) \/ WriteStartFails(h)
      BY <3>2
      DEF WriteStartLands, WriteStartFails, SocInv, KnowsAlone, redisVars
    <3> QED
      BY <2>3, <3>1, <3>2
  <2> QED
    BY <2>5, <2>7, <2>8, <2>9 DEF memoryVars
<1> QED
  BY <1>1, SocInvInit, SocInvStep, PTL DEF Spec, MessageLeavesItsLastReading

(* The first recorded stop of a session carries the last reading, unless   *)
(* another message was in progress, or a restart took the reading: then    *)
(* the stop writes null (558-598).                                         *)
THEOREM StopCarriesLastReading == Spec => StopTakesLastReading
<1> DEFINE Taken(t) ==
             \/ stopSoC'[t] = last[t]
             \/ t \in lost /\ stopSoC'[t] = NoSoc
             \/ \E h \in overlapped : at[h] = "stop" /\ job[h].tx = t
<1>1. SocInv /\ [Next]_vars
        => [\A t \in Transactions : ~stopped[t] /\ stopped'[t] => Taken(t)]_vars
  <2> SUFFICES ASSUME SocInv, Next, NEW t \in Transactions,
                      ~stopped[t], stopped'[t]
               PROVE  Taken(t)
    OBVIOUS
  <2>1. ~Restart
    BY DEF Restart, stopVars
  <2>2. PICK h \in Handlers : MeterStep(h) \/ StopStep(h)
    BY <2>1 DEF Next
  <2>3. CASE StopLands(h)
    <3>1. job[h].tx = t
      BY <2>3 DEF StopLands, SocInv, TypeOK
    <3>2. stopSoC'[t] = job[h].soc /\ at[h] = "stop"
      BY <2>3, <3>1 DEF StopLands, SocInv, TypeOK
    <3>3. h \notin overlapped => job[h].soc = cache[t]
      BY <3>1, <3>2 DEF SocInv, KnowsAlone
    <3>4. cache[t] = IF t \in lost THEN NoSoc ELSE last[t]
      BY DEF SocInv, LastIsCached
    <3> QED
      BY <3>1, <3>2, <3>3, <3>4
  <2>4. CASE MeterStep(h)
    BY <2>4 DEF MeterStep, MeterArrives, GetStart, SetStart, GetTx, SetLatest,
                WriteStartLands, WriteStartFails, CallFails, stopVars
  <2>5. CASE StopArrives(h) \/ StopFinds(h) \/ StopEnds(h) \/ StopFails(h)
               \/ FreeLands(h) \/ FreeFails(h)
    BY <2>5 DEF StopArrives, StopFinds, StopEnds, StopFails, FreeLands,
                FreeFails, stopVars
  <2> QED
    BY <2>2, <2>3, <2>4, <2>5 DEF StopStep
<1> QED
  BY <1>1, SocInvInit, SocInvStep, PTL DEF Spec, StopTakesLastReading
=============================================================================
