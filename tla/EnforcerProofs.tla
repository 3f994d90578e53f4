--------------------------- MODULE EnforcerProofs ----------------------------
(***************************************************************************)
(* Proofs about Enforcer for any set of addresses, any lease lengths, any  *)
(* adapters and any faults: its type invariant, the three invariants of    *)
(* its runs, and that the store implements the lease table of BlockLease.  *)
(*                                                                         *)
(* None of the three is inductive: they say nothing of the address whose   *)
(* job is running, and a step of the job is where they could break.  IInv  *)
(* adds what is true half way through a job.                               *)
(***************************************************************************)
EXTENDS Enforcer, TLAPS

FileOf(d) == IF d.tier = HardBlock THEN "deny" ELSE "geo"
Releasing == pc \in {"reconcile", "sweep"}

\* An entry of tier Normal is no entry; every other entry expires one day.
Clean(t) ==
    \A ip \in IPs : IF t[ip].tier = Normal THEN t[ip] = NoDecision ELSE t[ip].expires > 0

\* What each phase has in hand.
Shape ==
    /\ Clean(active) /\ Clean(batch)
    /\ pc # "apply" => Tracked(batch) = {}
    /\ pc \in {"poll", "down"} => jobs = {}
    /\ pc = "down" => Held = {}
    /\ ~Releasing => todo = {}
    /\ todo \subseteq Held
    /\ Blocking => jobs \subseteq Held
    /\ Releasing => jobs \subseteq todo
    /\ \A ip \in jobs : jobs = {ip}
    /\ jobs # {} /\ stage \in {"nginx", "reload"} => "nginx" \in adapters
    /\ jobs # {} /\ stage = "iptables" => "iptables" \in adapters

\* The nginx adapter is through with ip, whose job is running.
PastNginx(ip) == ip \in jobs /\ stage \in {"iptables", "done"}

\* nginx, for an address none of whose commands failed.
NginxOf(ip) ==
    /\ \A f \in {"deny", "geo"} :
        /\ ip \in files[f] => ip \in Held /\ "nginx" \in adapters
        /\ ip \in loaded[f] =>
              ip \in files[f] \/ (Releasing /\ ip \in jobs /\ stage = "reload")
        /\ Releasing /\ ip \in jobs /\ stage # "nginx" => ip \notin files[f]
    /\ "nginx" \in adapters /\ ip \in Held =>
        /\ ip \notin jobs => ip \in files[FileOf(active[ip])]
        /\ Blocking /\ ip \in jobs /\ stage # "nginx"
              => ip \in files[FileOf(active[ip])]
        /\ ip \notin jobs => ip \in loaded[FileOf(active[ip])]
        /\ Blocking /\ PastNginx(ip) => ip \in loaded[FileOf(active[ip])]

\* iptables, likewise.
DropsOf(ip) ==
    /\ ip \notin repeated =>
        /\ drops[ip] <= 1
        /\ drops[ip] > 0 => ip \in Held /\ "iptables" \in adapters
        /\ Releasing /\ ip \in jobs /\ stage = "done" => drops[ip] = 0
    /\ "iptables" \in adapters /\ ip \in Held /\ active[ip].tier = HardBlock =>
        /\ ip \notin jobs => drops[ip] > 0
        /\ Blocking /\ ip \in jobs /\ stage = "done" => drops[ip] > 0

IInv ==
    /\ TypeOK
    /\ Shape
    /\ \A ip \in IPs \ excused : NginxOf(ip) /\ DropsOf(ip)

-----------------------------------------------------------------------------
USE DEF Held, Blocking, Releasing, Normal, HardBlock

(* Lemmas about tables of decisions.                                       *)

LEMMA EmptyTableClean == EmptyTable \in Table /\ Clean(EmptyTable) /\ Tracked(EmptyTable) = {}
BY DEF EmptyTable, Table, Clean, Tracked, NoDecision, Decision

LEMMA IssuedClean ==
    ASSUME NEW tiers \in Answers, NEW now \in Nat
    PROVE  Issued(tiers, now) \in Table /\ Clean(Issued(tiers, now))
BY TTLAssumption DEF Answers, Issued, Issue, Table, Clean, NoDecision, Decision

LEMMA ReceiveInv ==
    ASSUME IInv, NEW tiers \in Answers, NEW kept \in SUBSET IPs, Receive(tiers, kept)
    PROVE  IInv'
<1> USE DEF IInv, Receive, storeVars, hostVars, ghostVars
<1>1. TypeOK'
  BY IssuedClean DEF TypeOK, Phases, Stages, Config, Table, Decision, NoDecision, Tracked
<1>2. Shape'
  BY IssuedClean DEF Shape, TypeOK, Table, Decision, Clean, NoDecision, Tracked
<1>3. ASSUME NEW x \in IPs \ excused'  PROVE NginxOf(x)'
  <2>1. NginxOf(x)
    BY <1>3
  <2>2. QED
    BY <2>1, <1>3 DEF NginxOf, FileOf, PastNginx, Shape, TypeOK, Table, Config, Decision, NoDecision, Tracked
<1>4. ASSUME NEW x \in IPs \ excused'  PROVE DropsOf(x)'
  <2>1. DropsOf(x)
    BY <1>4
  <2>2. QED
    BY <2>1, <1>4 DEF DropsOf, Shape, TypeOK, Table, Decision, NoDecision, Tracked
<1>5. QED
  BY <1>1, <1>2, <1>3, <1>4

LEMMA ApplyInv ==
    ASSUME IInv, NEW ip \in IPs, Apply(ip)
    PROVE  IInv'
<1> USE DEF IInv, Apply, storeVars, hostVars, ghostVars, FirstStage
<1>1. TypeOK'
  BY DEF TypeOK, Phases, Stages, Config, Table, Decision, NoDecision, Tracked
<1>2. Shape'
  BY DEF Shape, TypeOK, Table, Decision, Clean, NoDecision, Tracked
<1>3. ASSUME NEW x \in IPs \ excused'  PROVE NginxOf(x)'
  <2>1. NginxOf(x)
    BY <1>3
  <2>2. QED
    BY <2>1, <1>3 DEF NginxOf, FileOf, PastNginx, Shape, TypeOK, Table, Config, Decision, NoDecision, Tracked
<1>4. ASSUME NEW x \in IPs \ excused'  PROVE DropsOf(x)'
  <2>1. DropsOf(x)
    BY <1>4
  <2>2. QED
    BY <2>1, <1>4 DEF DropsOf, Shape, TypeOK, Table, Decision, NoDecision, Tracked
<1>5. QED
  BY <1>1, <1>2, <1>3, <1>4

LEMMA BeginReconcileInv ==
    ASSUME IInv, BeginReconcile
    PROVE  IInv'
<1> USE DEF IInv, BeginReconcile, storeVars, hostVars, ghostVars
<1>1. TypeOK'
  BY DEF TypeOK, Phases, Stages, Config, Table, Decision, NoDecision, Tracked
<1>2. Shape'
  BY DEF Shape, TypeOK, Table, Decision, Clean, NoDecision, Tracked
<1>3. ASSUME NEW x \in IPs \ excused'  PROVE NginxOf(x)'
  <2>1. NginxOf(x)
    BY <1>3
  <2>2. QED
    BY <2>1, <1>3 DEF NginxOf, FileOf, PastNginx, Shape, TypeOK, Table, Config, Decision, NoDecision, Tracked
<1>4. ASSUME NEW x \in IPs \ excused'  PROVE DropsOf(x)'
  <2>1. DropsOf(x)
    BY <1>4
  <2>2. QED
    BY <2>1, <1>4 DEF DropsOf, Shape, TypeOK, Table, Decision, NoDecision, Tracked
<1>5. QED
  BY <1>1, <1>2, <1>3, <1>4

LEMMA BeginSweepInv ==
    ASSUME IInv, BeginSweep
    PROVE  IInv'
<1> USE DEF IInv, BeginSweep, storeVars, hostVars, ghostVars, Expired
<1>1. TypeOK'
  BY DEF TypeOK, Phases, Stages, Config, Table, Decision, NoDecision, Tracked
<1>2. Shape'
  BY DEF Shape, TypeOK, Table, Decision, Clean, NoDecision, Tracked
<1>3. ASSUME NEW x \in IPs \ excused'  PROVE NginxOf(x)'
  <2>1. NginxOf(x)
    BY <1>3
  <2>2. QED
    BY <2>1, <1>3 DEF NginxOf, FileOf, PastNginx, Shape, TypeOK, Table, Config, Decision, NoDecision, Tracked
<1>4. ASSUME NEW x \in IPs \ excused'  PROVE DropsOf(x)'
  <2>1. DropsOf(x)
    BY <1>4
  <2>2. QED
    BY <2>1, <1>4 DEF DropsOf, Shape, TypeOK, Table, Decision, NoDecision, Tracked
<1>5. QED
  BY <1>1, <1>2, <1>3, <1>4

LEMMA EndTurnInv ==
    ASSUME IInv, EndTurn
    PROVE  IInv'
<1> USE DEF IInv, EndTurn, storeVars, hostVars, ghostVars
<1>1. TypeOK'
  BY DEF TypeOK, Phases, Stages, Config, Table, Decision, NoDecision, Tracked
<1>2. Shape'
  BY DEF Shape, TypeOK, Table, Decision, Clean, NoDecision, Tracked
<1>3. ASSUME NEW x \in IPs \ excused'  PROVE NginxOf(x)'
  <2>1. NginxOf(x)
    BY <1>3
  <2>2. QED
    BY <2>1, <1>3 DEF NginxOf, FileOf, PastNginx, Shape, TypeOK, Table, Config, Decision, NoDecision, Tracked
<1>4. ASSUME NEW x \in IPs \ excused'  PROVE DropsOf(x)'
  <2>1. DropsOf(x)
    BY <1>4
  <2>2. QED
    BY <2>1, <1>4 DEF DropsOf, Shape, TypeOK, Table, Decision, NoDecision, Tracked
<1>5. QED
  BY <1>1, <1>2, <1>3, <1>4

LEMMA ReleaseInv ==
    ASSUME IInv, NEW ip \in IPs, Release(ip)
    PROVE  IInv'
<1> USE DEF IInv, Release, storeVars, hostVars, ghostVars, FirstStage
<1>1. TypeOK'
  BY DEF TypeOK, Phases, Stages, Config, Table, Decision, NoDecision, Tracked
<1>2. Shape'
  BY DEF Shape, TypeOK, Table, Decision, Clean, NoDecision, Tracked
<1>3. ASSUME NEW x \in IPs \ excused'  PROVE NginxOf(x)'
  <2>1. NginxOf(x)
    BY <1>3
  <2>2. QED
    BY <2>1, <1>3 DEF NginxOf, FileOf, PastNginx, Shape, TypeOK, Table, Config, Decision, NoDecision, Tracked
<1>4. ASSUME NEW x \in IPs \ excused'  PROVE DropsOf(x)'
  <2>1. DropsOf(x)
    BY <1>4
  <2>2. QED
    BY <2>1, <1>4 DEF DropsOf, Shape, TypeOK, Table, Decision, NoDecision, Tracked
<1>5. QED
  BY <1>1, <1>2, <1>3, <1>4

LEMMA NginxWriteInv ==
    ASSUME IInv, NEW ip \in IPs, NginxWrite(ip)
    PROVE  IInv'
<1> USE DEF IInv, NginxWrite, storeVars, hostVars, ghostVars, AfterNginx, Targets, Rewritten
<1>1. TypeOK'
  BY DEF TypeOK, Phases, Stages, Config, Table, Decision, NoDecision, Tracked
<1>2. Shape'
  BY DEF Shape, TypeOK, Table, Decision, Clean, NoDecision, Tracked
<1>3. ASSUME NEW x \in IPs \ excused'  PROVE NginxOf(x)'
  <2>1. NginxOf(x)
    BY <1>3
  <2>2. CASE x = ip /\ Blocking
    <3>1. Targets(ip) = {FileOf(active[ip])}
      BY <2>2 DEF FileOf
    <3>2. FileOf(active[ip]) \in {"deny", "geo"}
      BY DEF FileOf
    <3>3. files' = [files EXCEPT ![FileOf(active[ip])] = @ \union {ip}]
      BY <2>2, <3>1, <3>2 DEF TypeOK, Config
    <3>4. stage' = "reload" /\ ip \in Held /\ "nginx" \in adapters
      BY <2>2, <3>1 DEF Shape
    <3>5. QED
      BY <2>1, <2>2, <3>2, <3>3, <3>4 DEF NginxOf, PastNginx, FileOf, TypeOK, Config
  <2>3. CASE x = ip /\ ~Blocking
    <3>1. \A g \in {"deny", "geo"} : ip \notin files'[g]
      BY <2>3 DEF TypeOK, Config
    <3>2. ip \in todo /\ "nginx" \in adapters /\ Releasing /\ ip \in jobs
      BY <2>3 DEF Shape, TypeOK, Phases
    <3>3. \A g \in {"deny", "geo"} : ip \in loaded[g] => stage' = "reload"
      BY <2>1, <2>3 DEF NginxOf
    <3>4. QED
      BY <2>3, <3>1, <3>2, <3>3 DEF NginxOf, PastNginx
  <2>4. CASE x # ip
    BY <2>1, <2>4, <1>3 DEF NginxOf, FileOf, PastNginx, Shape, TypeOK, Table, Config, Decision, NoDecision, Tracked
  <2>5. QED
    BY <2>2, <2>3, <2>4
<1>4. ASSUME NEW x \in IPs \ excused'  PROVE DropsOf(x)'
  <2>1. DropsOf(x)
    BY <1>4
  <2>2. QED
    BY <2>1, <1>4 DEF DropsOf, Shape, TypeOK, Table, Decision, NoDecision, Tracked
<1>5. QED
  BY <1>1, <1>2, <1>3, <1>4

LEMMA NginxWriteFailsInv ==
    ASSUME IInv, NEW ip \in IPs, NEW f \in {"deny", "geo"}, NginxWriteFails(ip, f)
    PROVE  IInv'
<1> USE DEF IInv, NginxWriteFails, storeVars, hostVars, ghostVars, AfterNginx, Targets, Rewritten, Fail
<1> DEFINE before == Rewritten(Targets(ip) \ {f, "geo"}, ip)
<1>a. before \in Config /\ files \in Config
  BY DEF TypeOK, Config
<1>b. \/ files' = before /\ excused' = excused \union {ip}
      \/ files' = [before EXCEPT ![f] = {}] /\ excused' = excused \union {ip} \union files[f]
  OBVIOUS
<1>c. \A g \in {"deny", "geo"}, y \in IPs \ excused' :
         y \in files'[g] <=> y \in files[g]
  <2> SUFFICES ASSUME NEW g \in {"deny", "geo"}, NEW y \in IPs \ excused'
               PROVE  y \in files'[g] <=> y \in files[g]
    OBVIOUS
  <2>1. y # ip
    BY <1>b
  <2>2. y \in before[g] <=> y \in files[g]
    BY <2>1
  <2>3. CASE files' = before
    BY <2>2, <2>3
  <2>4. CASE files' = [before EXCEPT ![f] = {}] /\ excused' = excused \union {ip} \union files[f]
    BY <1>a, <2>2, <2>4 DEF Config
  <2>5. QED
    BY <1>b, <2>3, <2>4
<1> HIDE DEF before
<1>1. TypeOK'
  <2>1. files' \in Config
    BY <1>a, <1>b DEF Config
  <2>2. excused' \subseteq IPs
    BY <1>a, <1>b DEF TypeOK, Config
  <2>3. QED
    BY <2>1, <2>2 DEF TypeOK, Stages
<1>2. Shape'
  BY DEF Shape, TypeOK, Table, Decision, Clean, NoDecision, Tracked
<1>3. ASSUME NEW x \in IPs \ excused'  PROVE NginxOf(x)'
  <2>1. x # ip /\ x \notin excused
    BY <1>3, <1>b
  <2>2. NginxOf(x) /\ x \notin jobs /\ x \notin jobs'
    BY <2>1
  <2>3. QED
    BY <2>2, <1>3, <1>c DEF NginxOf, FileOf, PastNginx
<1>4. ASSUME NEW x \in IPs \ excused'  PROVE DropsOf(x)'
  <2>1. DropsOf(x)
    BY <1>4
  <2>2. QED
    BY <2>1, <1>4 DEF DropsOf, Shape, TypeOK, Table, Decision, NoDecision, Tracked
<1>5. QED
  BY <1>1, <1>2, <1>3, <1>4

LEMMA NginxReloadInv ==
    ASSUME IInv, NEW ip \in IPs, NginxReload(ip)
    PROVE  IInv'
<1> USE DEF IInv, NginxReload, storeVars, hostVars, ghostVars, AfterNginx
<1>1. TypeOK'
  BY DEF TypeOK, Phases, Stages, Config, Table, Decision, NoDecision, Tracked
<1>2. Shape'
  BY DEF Shape, TypeOK, Table, Decision, Clean, NoDecision, Tracked
<1>3. ASSUME NEW x \in IPs \ excused'  PROVE NginxOf(x)'
  <2>1. NginxOf(x)
    BY <1>3
  <2>2. QED
    BY <2>1, <1>3 DEF NginxOf, FileOf, PastNginx, Shape, TypeOK, Table, Config, Decision, NoDecision, Tracked
<1>4. ASSUME NEW x \in IPs \ excused'  PROVE DropsOf(x)'
  <2>1. DropsOf(x)
    BY <1>4
  <2>2. QED
    BY <2>1, <1>4 DEF DropsOf, Shape, TypeOK, Table, Decision, NoDecision, Tracked
<1>5. QED
  BY <1>1, <1>2, <1>3, <1>4

LEMMA NginxReloadFailsInv ==
    ASSUME IInv, NEW ip \in IPs, NginxReloadFails(ip)
    PROVE  IInv'
<1> USE DEF IInv, NginxReloadFails, storeVars, hostVars, ghostVars, AfterNginx, Fail
<1>1. TypeOK'
  BY DEF TypeOK, Phases, Stages, Config, Table, Decision, NoDecision, Tracked
<1>2. Shape'
  BY DEF Shape, TypeOK, Table, Decision, Clean, NoDecision, Tracked
<1>3. ASSUME NEW x \in IPs \ excused'  PROVE NginxOf(x)'
  <2>1. NginxOf(x)
    BY <1>3
  <2>2. QED
    BY <2>1, <1>3 DEF NginxOf, FileOf, PastNginx, Shape, TypeOK, Table, Config, Decision, NoDecision, Tracked
<1>4. ASSUME NEW x \in IPs \ excused'  PROVE DropsOf(x)'
  <2>1. DropsOf(x)
    BY <1>4
  <2>2. QED
    BY <2>1, <1>4 DEF DropsOf, Shape, TypeOK, Table, Decision, NoDecision, Tracked
<1>5. QED
  BY <1>1, <1>2, <1>3, <1>4

LEMMA IptablesInv ==
    ASSUME IInv, NEW ip \in IPs, Iptables(ip)
    PROVE  IInv'
<1> USE DEF IInv, Iptables, storeVars, hostVars, ghostVars, Rules
<1>1. TypeOK'
  BY DEF TypeOK, Phases, Stages, Config, Table, Decision, NoDecision, Tracked
<1>2. Shape'
  BY DEF Shape, TypeOK, Table, Decision, Clean, NoDecision, Tracked
<1>3. ASSUME NEW x \in IPs \ excused'  PROVE NginxOf(x)'
  <2>1. NginxOf(x)
    BY <1>3
  <2>2. QED
    BY <2>1, <1>3 DEF NginxOf, FileOf, PastNginx, Shape, TypeOK, Table, Config, Decision, NoDecision, Tracked
<1>4. ASSUME NEW x \in IPs \ excused'  PROVE DropsOf(x)'
  <2>1. DropsOf(x)
    BY <1>4
  <2>2. QED
    BY <2>1, <1>4 DEF DropsOf, Shape, TypeOK, Table, Decision, NoDecision, Tracked
<1>5. QED
  BY <1>1, <1>2, <1>3, <1>4

LEMMA IptablesFailsInv ==
    ASSUME IInv, NEW ip \in IPs, IptablesFails(ip)
    PROVE  IInv'
<1> USE DEF IInv, IptablesFails, storeVars, hostVars, ghostVars, Fail
<1>1. TypeOK'
  BY DEF TypeOK, Phases, Stages, Config, Table, Decision, NoDecision, Tracked
<1>2. Shape'
  BY DEF Shape, TypeOK, Table, Decision, Clean, NoDecision, Tracked
<1>3. ASSUME NEW x \in IPs \ excused'  PROVE NginxOf(x)'
  <2>1. NginxOf(x)
    BY <1>3
  <2>2. QED
    BY <2>1, <1>3 DEF NginxOf, FileOf, PastNginx, Shape, TypeOK, Table, Config, Decision, NoDecision, Tracked
<1>4. ASSUME NEW x \in IPs \ excused'  PROVE DropsOf(x)'
  <2>1. DropsOf(x)
    BY <1>4
  <2>2. QED
    BY <2>1, <1>4 DEF DropsOf, Shape, TypeOK, Table, Decision, NoDecision, Tracked
<1>5. QED
  BY <1>1, <1>2, <1>3, <1>4

LEMMA DoneInv ==
    ASSUME IInv, NEW ip \in IPs, Done(ip)
    PROVE  IInv'
<1> USE DEF IInv, Done, storeVars, hostVars, ghostVars
<1>1. TypeOK'
  BY DEF TypeOK, Phases, Stages, Config, Table, Decision, NoDecision, Tracked
<1>2. CASE Blocking
  <2>1. Shape'
    BY <1>2 DEF Shape
  <2>2. ASSUME NEW x \in IPs \ excused'  PROVE NginxOf(x)' /\ DropsOf(x)'
    <3>1. NginxOf(x) /\ DropsOf(x)
      BY <2>2
    <3>2. QED
      BY <1>2, <3>1 DEF NginxOf, DropsOf, FileOf, PastNginx
  <2>3. QED
    BY <1>1, <2>1, <2>2
<1>3. CASE ~Blocking
  <2>1. active' = [active EXCEPT ![ip] = NoDecision] /\ todo' = todo \ {ip}
    BY <1>3
  <2>2. Held' = Held \ {ip}
    BY <2>1 DEF TypeOK, Table, Tracked, NoDecision
  <2>3. Clean(active')
    BY <2>1 DEF Shape, Clean, TypeOK, Table, NoDecision
  <2>4. Releasing /\ ip \in todo /\ ip \in Held
    BY <1>3 DEF Shape, TypeOK, Phases
  <2>5. Shape'
    BY <1>3, <2>1, <2>2, <2>3 DEF Shape
  <2>6. ASSUME NEW x \in IPs \ excused'  PROVE NginxOf(x)' /\ DropsOf(x)'
    <3>1. NginxOf(x) /\ DropsOf(x)
      BY <2>6
    <3>2. CASE x = ip
      BY <2>2, <2>4, <3>1, <3>2 DEF NginxOf, DropsOf, TypeOK
    <3>3. CASE x # ip
      <4>1. active'[x] = active[x]
        BY <2>1, <3>3 DEF TypeOK, Table
      <4>2. (x \in Held' <=> x \in Held) /\ x \notin jobs /\ x \notin jobs'
        BY <2>2, <3>3
      <4>3. NginxOf(x)'
        BY <1>3, <3>1, <4>1, <4>2 DEF NginxOf, FileOf, PastNginx
      <4>4. DropsOf(x)'
        BY <1>3, <3>1, <4>1, <4>2 DEF DropsOf
      <4>5. QED
        BY <4>3, <4>4
    <3>4. QED
      BY <3>2, <3>3
  <2>7. QED
    BY <1>1, <2>5, <2>6
<1>4. QED
  BY <1>2, <1>3

LEMMA TickInv ==
    ASSUME IInv, Tick
    PROVE  IInv'
<1> USE DEF IInv, Tick, storeVars, hostVars, ghostVars
<1>1. TypeOK'
  BY DEF TypeOK, Phases, Stages, Config, Table, Decision, NoDecision, Tracked
<1>2. Shape'
  BY DEF Shape, TypeOK, Table, Decision, Clean, NoDecision, Tracked
<1>3. ASSUME NEW x \in IPs \ excused'  PROVE NginxOf(x)'
  <2>1. NginxOf(x)
    BY <1>3
  <2>2. QED
    BY <2>1, <1>3 DEF NginxOf, FileOf, PastNginx, Shape, TypeOK, Table, Config, Decision, NoDecision, Tracked
<1>4. ASSUME NEW x \in IPs \ excused'  PROVE DropsOf(x)'
  <2>1. DropsOf(x)
    BY <1>4
  <2>2. QED
    BY <2>1, <1>4 DEF DropsOf, Shape, TypeOK, Table, Decision, NoDecision, Tracked
<1>5. QED
  BY <1>1, <1>2, <1>3, <1>4

LEMMA ExitInv ==
    ASSUME IInv, Exit
    PROVE  IInv'
<1> USE DEF IInv, Exit, storeVars, hostVars, ghostVars, Fail
<1>1. TypeOK'
  BY EmptyTableClean DEF TypeOK, Phases, Stages, Config, Table, Decision, NoDecision, Tracked
<1>2. Shape'
  BY EmptyTableClean DEF Shape, TypeOK, Table, Decision, Clean, NoDecision, Tracked
<1>3. ASSUME NEW x \in IPs \ excused'  PROVE NginxOf(x)'
  <2>1. NginxOf(x)
    BY <1>3
  <2>2. QED
    BY <2>1, <1>3, EmptyTableClean DEF NginxOf, FileOf, PastNginx, Shape, TypeOK, Table, Config, Decision, NoDecision, Tracked
<1>4. ASSUME NEW x \in IPs \ excused'  PROVE DropsOf(x)'
  <2>1. DropsOf(x)
    BY <1>4
  <2>2. QED
    BY <2>1, <1>4, EmptyTableClean DEF DropsOf, Shape, TypeOK, Table, Decision, NoDecision, Tracked
<1>5. QED
  BY <1>1, <1>2, <1>3, <1>4

LEMMA StartInv ==
    ASSUME IInv, Start
    PROVE  IInv'
<1> USE DEF IInv, Start, storeVars, hostVars, ghostVars
<1>1. TypeOK'
  BY EnforcerAssumption DEF TypeOK, Phases, Stages, Config, Table, Decision, NoDecision, Tracked
<1>2. Shape'
  BY DEF Shape, TypeOK, Table, Decision, Clean, NoDecision, Tracked
<1>3. ASSUME NEW x \in IPs \ excused'  PROVE NginxOf(x)'
  <2>1. NginxOf(x)
    BY <1>3
  <2>2. QED
    BY <2>1, <1>3 DEF NginxOf, FileOf, PastNginx, Shape, TypeOK, Table, Config, Decision, NoDecision, Tracked
<1>4. ASSUME NEW x \in IPs \ excused'  PROVE DropsOf(x)'
  <2>1. DropsOf(x)
    BY <1>4
  <2>2. QED
    BY <2>1, <1>4 DEF DropsOf, Shape, TypeOK, Table, Decision, NoDecision, Tracked
<1>5. QED
  BY <1>1, <1>2, <1>3, <1>4

LEMMA InitInv == Init => IInv
<1> SUFFICES ASSUME Init  PROVE IInv
  OBVIOUS
<1> USE DEF Init
<1>1. TypeOK
  BY EmptyTableClean DEF TypeOK, Phases, Stages, Config
<1>2. Shape
  BY EmptyTableClean DEF Shape
<1>3. ASSUME NEW x \in IPs \ excused  PROVE NginxOf(x) /\ DropsOf(x)
  BY EmptyTableClean DEF NginxOf, DropsOf
<1>4. QED
  BY <1>1, <1>2, <1>3 DEF IInv

LEMMA NextInv == IInv /\ [Next]_vars => IInv'
<1> SUFFICES ASSUME IInv, [Next]_vars  PROVE IInv'
  OBVIOUS
<1>1. ASSUME NEW tiers \in Answers, NEW kept \in SUBSET IPs, Receive(tiers, kept)
      PROVE  IInv'
  BY <1>1, ReceiveInv
<1>2. ASSUME NEW ip \in IPs, Apply(ip) \/ Release(ip) \/ Done(ip)
      PROVE  IInv'
  BY <1>2, ApplyInv, ReleaseInv, DoneInv
<1>3. ASSUME NEW ip \in IPs, Adapter(ip)
      PROVE  IInv'
  BY <1>3, NginxWriteInv, NginxWriteFailsInv, NginxReloadInv, NginxReloadFailsInv,
     IptablesInv, IptablesFailsInv DEF Adapter
<1>4. CASE BeginReconcile \/ BeginSweep \/ EndTurn
  BY <1>4, BeginReconcileInv, BeginSweepInv, EndTurnInv
<1>5. CASE Tick \/ Exit \/ Start
  BY <1>5, TickInv, ExitInv, StartInv
<1>6. CASE UNCHANGED vars
  BY <1>6 DEF vars, storeVars, hostVars, ghostVars, IInv, TypeOK, Shape, Clean, Tracked,
     NginxOf, PastNginx, FileOf, DropsOf
<1>7. QED
  BY <1>1, <1>2, <1>3, <1>4, <1>5, <1>6 DEF Next, Work

THEOREM Invariance == Spec => []IInv
BY InitInv, NextInv, PTL DEF Spec

-----------------------------------------------------------------------------
(* What the runs check, for every value of the constants.                  *)

\* Every step keeps the type invariant.
THEOREM TypeCorrect == Spec => []TypeOK
<1>1. IInv => TypeOK
  BY DEF IInv
<1>2. QED
  BY Invariance, <1>1, PTL

\* No job, fault or exit of another address takes a held decision out of force.
THEOREM InForce == Spec => []HeldIsInForce
<1>1. IInv => HeldIsInForce
  BY DEF IInv, NginxOf, DropsOf, FileOf, HeldIsInForce, Tracked
<1>2. QED
  BY Invariance, <1>1, PTL

\* Only a failed command or an exit leaves nginx with an address the store
\* has forgotten.
THEOREM NginxLeaks == Spec => []NginxLeaksOnlyByFailure
<1>1. IInv => NginxLeaksOnlyByFailure
  <2> SUFFICES ASSUME IInv, NEW ip \in IPs, NEW f \in {"deny", "geo"},
                      ip \in files[f] \union loaded[f], ip \notin excused
               PROVE  ip \in Held
    BY DEF NginxLeaksOnlyByFailure
  <2>1. NginxOf(ip)
    BY DEF IInv
  <2>2. ip \in files[f] \/ (Releasing /\ ip \in jobs)
    BY <2>1 DEF NginxOf
  <2>3. QED
    BY <2>1, <2>2 DEF NginxOf, IInv, Shape
<1>2. QED
  BY Invariance, <1>1, PTL

\* Only those, or a second hard block, leave a DROP rule behind.
THEOREM DropLeaks == Spec => []DropsLeakOnlyByRepeat
<1>1. IInv => DropsLeakOnlyByRepeat
  BY DEF IInv, DropsOf, DropsLeakOnlyByRepeat
<1>2. QED
  BY Invariance, <1>1, PTL

-----------------------------------------------------------------------------
(* The store implements the lease table.                                   *)

LEMMA KeepAll ==
    ASSUME NEW t \in Table, Clean(t), NEW S \in SUBSET IPs, Tracked(t) \subseteq S
    PROVE  Keep(t, S) = t
BY DEF Keep, Table, Clean, Tracked

\* Both phases that release withdraw from active what is still to do.
LEMMA ViewAtReconcile ==
    ASSUME IInv, pc = "apply", Tracked(batch) = {}
    PROVE  View = Keep(active, IPs \ (Held \ served))
<1>1. Override(active, batch) = active
  BY DEF Override, Tracked, IInv, TypeOK, Table
<1>2. Keep(active, served) = Keep(active, IPs \ (Held \ served))
  BY DEF Keep, Tracked, IInv, Shape, Clean
<1>3. QED
  BY <1>1, <1>2 DEF View

LEMMA ViewOfActive ==
    ASSUME IInv, pc \in {"reconcile", "sweep"}, todo = {}
    PROVE  View = active
<1>1. Keep(active, IPs) = active
  BY KeepAll DEF IInv, TypeOK, Shape, Tracked
<1>2. QED
  BY <1>1 DEF View

LEMMA ViewClean == IInv => View \in Table /\ Clean(View)
BY DEF IInv, TypeOK, Shape, View, Keep, Override, Table, Decision, Clean, NoDecision

\* The work on an answer, once it has been received, leaves the view alone.
LEMMA WorkStutters ==
    ASSUME IInv, NEW ip \in IPs, Apply(ip) \/ Release(ip) \/ Adapter(ip) \/ Done(ip)
    PROVE  UNCHANGED <<clock, View>>
<1> USE DEF storeVars, hostVars, ghostVars
<1>1. CASE Apply(ip)
  <2>1. active' = [active EXCEPT ![ip] = batch[ip]] /\ batch' = [batch EXCEPT ![ip] = NoDecision]
    BY <1>1 DEF Apply
  <2>2. Override(active', batch') = Override(active, batch)
    BY <1>1, <2>1 DEF Apply, Override, IInv, TypeOK, Table, Tracked, NoDecision
  <2>3. QED
    BY <1>1, <2>2 DEF Apply, View
<1>2. CASE Done(ip) /\ Blocking
  BY <1>2 DEF Done, View
<1>3. CASE Done(ip) /\ ~Blocking
  <2>1. pc \in {"reconcile", "sweep"} /\ ip \in todo
    BY <1>3 DEF Done, IInv, Shape, TypeOK, Phases
  <2>2. active' = [active EXCEPT ![ip] = NoDecision] /\ todo' = todo \ {ip}
    BY <1>3 DEF Done
  <2>3. Keep(active', IPs \ todo') = Keep(active, IPs \ todo)
    BY <2>1, <2>2 DEF Keep, IInv, TypeOK, Table
  <2>4. QED
    BY <1>3, <2>1, <2>3 DEF Done, View
<1>4. CASE Release(ip) \/ Adapter(ip)
  BY <1>4 DEF Release, Adapter, NginxWrite, NginxWriteFails, NginxReload, NginxReloadFails,
     Iptables, IptablesFails, View
<1>5. QED
  BY <1>1, <1>2, <1>3, <1>4

LEMMA ReceiveRefines ==
    ASSUME IInv, NEW tiers \in Answers, NEW kept \in SUBSET IPs, Receive(tiers, kept)
    PROVE  \E given \in [IPs -> Grants] : Lessee!Answer(given, kept)
<1> DEFINE sent == [ip \in IPs |-> IF tiers[ip] = 0 THEN Lessee!NoLease ELSE Lessee!Grant(tiers[ip])]
<1>1. View = active /\ clock' = clock /\ clock \in Nat
  BY DEF Receive, View, IInv, TypeOK
<1>2. View' = Keep(Override(active, Issued(tiers, clock)), kept)
  BY DEF Receive, View
<1>3. ASSUME NEW ip \in IPs
      PROVE  Remaining(View[ip])' =
               IF ip \in IPs \ kept THEN Lessee!NoLease
               ELSE IF tiers[ip] # 0 THEN Lessee!Grant(tiers[ip])
               ELSE Remaining(View[ip])
  <2>1. CASE ip \notin kept
    BY <1>1, <1>2, <2>1 DEF Keep, Remaining, NoDecision, Lessee!NoLease
  <2>2. CASE ip \in kept /\ tiers[ip] = 0
    BY <1>1, <1>2, <2>2 DEF Keep, Override, Issued, Remaining, NoDecision
  <2>3. CASE ip \in kept /\ tiers[ip] # 0
    <3>1. tiers[ip] \in 1..2 /\ TTL[tiers[ip]] \in Nat \ {0}
      BY <2>3, TTLAssumption DEF Answers
    <3>2. View'[ip] = [tier |-> tiers[ip], expires |-> clock + TTL[tiers[ip]]]
      BY <1>2, <2>3, <3>1 DEF Keep, Override, Issued, Issue
    <3>3. QED
      BY <1>1, <2>3, <3>1, <3>2 DEF Remaining, Lessee!Grant
  <2>4. QED
    BY <2>1, <2>2, <2>3
<1>4. Lessee!Answer(sent, kept)
  BY <1>3 DEF Lessee!Answer, Lessee!Without, Lessee!Renewed, Lessee!Grant,
     Lessee!NoLease, LeaseView, Remaining
<1>5. sent \in [IPs -> Grants]
  <2>1. ASSUME NEW k \in 1..2 PROVE Lessee!Grant(k) \in Grants
    BY DEF Lessee!Grant, Grants
  <2>2. Lessee!NoLease \in Grants
    BY DEF Lessee!NoLease, Grants
  <2>3. QED
    BY <2>1, <2>2 DEF Answers
<1>6. QED
  BY <1>4, <1>5

LEMMA SweepRefines ==
    ASSUME IInv, BeginSweep
    PROVE  Lessee!Sweep
<1>1. View = active /\ clock' = clock /\ clock \in Nat
  BY ViewOfActive DEF BeginSweep, IInv, TypeOK
<1>2. View' = Keep(active, IPs \ Expired(active, clock))
  BY DEF BeginSweep, View
<1>3. Lessee!RunOut(LeaseView) = Expired(active, clock)
  BY <1>1 DEF Lessee!RunOut, Lessee!Leased, LeaseView, Remaining, Expired, Tracked, IsExpired,
     IInv, TypeOK, Table, Decision, Shape, Clean
<1>4. ASSUME NEW ip \in IPs
      PROVE  Remaining(View[ip])' = IF ip \in Expired(active, clock) THEN Lessee!NoLease
                                    ELSE Remaining(View[ip])
  BY <1>1, <1>2 DEF Keep, Remaining, NoDecision, Lessee!NoLease, Expired
<1>5. QED
  BY <1>3, <1>4 DEF Lessee!Sweep, Lessee!Without, LeaseView

LEMMA TickRefines ==
    ASSUME IInv, Tick
    PROVE  Lessee!Tick
<1>1. View' = View /\ View \in Table /\ clock' = clock + 1 /\ clock \in Nat
  BY ViewClean DEF Tick, View, IInv, TypeOK, storeVars
<1>2. ASSUME NEW ip \in IPs
      PROVE  Remaining(View[ip])' = Lessee!Older(Remaining(View[ip]))
  <2>1. View[ip].expires \in Nat
    BY <1>1 DEF Table, Decision
  <2>2. QED
    BY <1>1, <2>1 DEF Remaining, Lessee!Older
<1>3. QED
  BY <1>2 DEF Lessee!Tick, Lessee!Aged, LeaseView

\* An answer takes effect at Receive, an expiry at BeginSweep.
LEMMA StepRefines == IInv /\ [Next]_vars => [Lessee!Next]_(Lessee!vars)
<1> SUFFICES ASSUME IInv, [Next]_vars  PROVE Lessee!Next \/ LeaseView' = LeaseView
  BY DEF Lessee!vars
<1>1. UNCHANGED <<clock, View>> => LeaseView' = LeaseView
  BY DEF LeaseView, Remaining
<1>2. ASSUME NEW tiers \in Answers, NEW kept \in SUBSET IPs, Receive(tiers, kept)
      PROVE  Lessee!Next
  BY <1>2, ReceiveRefines DEF Lessee!Next, Answers
<1>3. CASE \E ip \in IPs : Apply(ip) \/ Release(ip) \/ Adapter(ip) \/ Done(ip)
  BY <1>1, <1>3, WorkStutters
<1>4. CASE BeginReconcile
  BY <1>1, <1>4, ViewAtReconcile DEF BeginReconcile, View
<1>5. CASE BeginSweep
  BY <1>5, SweepRefines DEF Lessee!Next
<1>6. CASE EndTurn
  BY <1>1, <1>6, ViewOfActive DEF EndTurn, View, storeVars
<1>7. CASE Tick
  BY <1>7, TickRefines DEF Lessee!Next
<1>8. CASE Exit
  <2>1. View' = EmptyTable
    BY <1>8 DEF Exit, View
  <2>2. Lessee!Exit
    BY <1>8, <2>1 DEF Exit, IInv, TypeOK, LeaseView, Remaining, EmptyTable, NoDecision,
       Lessee!Exit, Lessee!NoLeases, Lessee!NoLease
  <2>3. QED
    BY <2>2 DEF Lessee!Next
<1>9. CASE Start
  BY <1>1, <1>9 DEF Start, View, storeVars
<1>10. CASE UNCHANGED vars
  BY <1>1, <1>10 DEF vars, View, storeVars
<1>11. QED
  BY <1>2, <1>3, <1>4, <1>5, <1>6, <1>7, <1>8, <1>9, <1>10 DEF Next, Work

\* Whatever the adapters do, the store is the lease table of BlockLease.
THEOREM StoreIsLease == Spec => LeaseSpec
<1>1. Init => Lessee!Init
  BY DEF Init, View, LeaseView, Remaining, EmptyTable, NoDecision, Lessee!Init,
     Lessee!NoLeases, Lessee!NoLease
<1>2. QED
  BY Invariance, StepRefines, <1>1, PTL DEF Spec, LeaseSpec, Lessee!Spec

=============================================================================
