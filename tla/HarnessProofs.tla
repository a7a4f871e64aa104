--------------------------- MODULE HarnessProofs ---------------------------
(* Proofs about the harness, for any number of runs over one directory and   *)
(* any number of mishaps: what a summary that says passed, an exit code and  *)
(* a seed that counts rest on, that an attempt is accepted behind a boot     *)
(* that passed, and that a run which returns 0 leaves nothing running.       *)
EXTENDS Harness, TLAPS

Disks ==
  [gates : [{"normal", "baseline", "trial"} -> [Gates -> Records]],
   attempts : [Runs -> [authority : Statuses \cup {"none", "pending"},
                        terminal : Statuses \cup {"none"}, candidate : BOOLEAN]],
   mutated : [Gates -> 0..MaxRuns],
   seeds : [Gates -> Records],
   result : [by : 0..MaxRuns, mode : {"none", "normal", "seeded"},
             status : Statuses \cup {"none"}, accepted : BOOLEAN]]
Memories ==
  [mode : {"normal", "seeded"}, gate : 1..7, phase : {"normal", "baseline", "trial"},
   result : Results, evidence : Statuses \cup {"none"}, durable : BOOLEAN, reaped : BOOLEAN,
   attributable : BOOLEAN, status : Statuses, clean : BOOLEAN,
   attempt : Statuses \cup {"none", "pending"}, back : Working]
Typed ==
  /\ disk \in Disks /\ run \in 0..MaxRuns /\ pc \in Working \cup Ended
  /\ m \in Memories /\ server \in {"none", "live", "exited"}
  /\ strays \subseteq Runs /\ mishaps \in 0..MaxMishaps

-----------------------------------------------------------------------------
Boot     == 5
Setup    == {"begin", "generate", "commit", "install", "prepare"}
Marking  == {"markTerminal", "markAuthority"}
Transfer == {"stage", "terminal", "finalize", "decide"}
Outer    == {"settle", "report", "reportAgain"}
Judged   == {"pending", "serve", "health", "evidence", "stop", "rewrite", "bootFailed",
             "browser", "browserEvidence", "returned"} \cup Transfer

\* Marking goes back into the gate, or to the report.
InGate == pc \in Judged \/ (pc \in Marking /\ m.back \in {"stop", "bootFailed"})
Ending == pc \in Outer \/ (pc \in Marking /\ m.back \in {"report", "reportAgain"})

Has(phase, gate, status) == disk.gates[phase][gate] = [by |-> run, status |-> status]
Counts(gate)             == disk.seeds[gate] = [by |-> run, status |-> "passed"]

(* Where a step belongs.                                                     *)
Places ==
  /\ m.mode = "normal" <=> m.phase = "normal"
  /\ pc \in {"health", "evidence", "rewrite", "pending", "bootFailed"} \cup Transfer =>
       m.gate = Boot
  /\ pc \in {"pending", "bootFailed", "finally", "settle", "reportAgain"}
            \cup Transfer \cup Marking => ~Seeded
  /\ pc \in {"mutate", "seedEnd", "prepare"} => Seeded
  /\ pc \in {"browser", "browserEvidence"} => Seeded /\ m.gate > Boot
  /\ pc \in {"serve", "stop"} => m.gate >= Boot /\ (~Seeded => m.gate = Boot)
  /\ pc \in Marking =>
       /\ m.back \in {"stop", "bootFailed", "report", "reportAgain"}
       /\ m.back \in {"stop", "bootFailed"} => m.gate = Boot
       /\ m.back = "reportAgain" => m.status = "failed"
       /\ m.attempt = "failed"
  /\ Trial => pc \notin Setup \cup {"mutate"}
  /\ pc \in Setup /\ ~Seeded => m.gate = 1

(* Who has a server.                                                         *)
Servers ==
  server # "none" =>
    \/ pc \in {"health", "evidence", "stop", "browser"}
    \/ ~Seeded /\ \/ pc \in Transfer \cup {"finally"}
                  \/ pc = "gate" /\ m.gate > Boot
                  \/ pc = "returned" /\ m.gate >= Boot
                  \/ pc \in Marking /\ m.back = "stop"

(* What the memory says of the gate's record is on disk.                     *)
Evident ==
  /\ InGate /\ m.evidence = "passed" => Has(m.phase, Gate, "passed")
  /\ pc = "evidence" => m.result = Succeeded
  /\ pc = "stop" /\ m.gate # Boot => m.evidence = "none"
  /\ pc = "stop" /\ m.durable => m.evidence = "passed"
  /\ ~Seeded \/ pc \in {"serve", "health", "evidence", "browser"} => ~m.durable
  /\ pc = "returned" => m.evidence # "none"
  /\ pc = "returned" /\ m.evidence = "failed" /\ m.gate # Boot => Has(m.phase, Gate, "failed")
  /\ pc \in Transfer => m.evidence = "passed" /\ server # "none"
  /\ pc \in {"browser", "browserEvidence", "pending", "serve", "health", "evidence",
             "bootFailed"} => m.evidence = "none"
  /\ pc \in Marking /\ m.back = "bootFailed" => m.evidence = "none"

(* A normal run that has not failed has passed every gate before, and at its *)
(* end all of them, with its attempt accepted and its server proven absent.  *)
Normal ==
  pc \in Working /\ ~Seeded =>
    /\ pc # "finally" /\ ~Ending => m.status = "passed"
    /\ \A i \in 1..7 : i < m.gate => Has("normal", GATE_IDS[i], "passed")
    /\ m.gate > Boot \/ (InGate /\ m.gate = Boot) => m.attempt # "none"
    /\ pc = "returned" /\ m.gate > Boot /\ server = "none" => m.evidence = "failed"
    /\ m.status = "passed" /\ (pc = "finally" \/ Ending) =>
         /\ \A g \in Gates : Has("normal", g, "passed")
         /\ pc = "finally" => server # "none"
         /\ pc # "finally" => m.clean
         /\ m.attempt # "none"
         /\ pc = "report" => m.attempt = "passed" /\ Accepted(Mine)
         /\ pc \notin Marking
    /\ pc \in {"report", "reportAgain"} /\ m.status = "failed" => m.attempt # "passed"
    /\ pc = "reportAgain" => m.status = "failed"

(* A seeded run that has not failed has a record that counts of every seed   *)
(* before, and of the present one what its record will rest on.              *)
Seeds ==
  pc \in Working /\ Seeded =>
    /\ m.attempt = "none"
    /\ pc # "report" => \A i \in 1..7 :
         /\ i < m.gate /\ m.status = "passed" => Counts(GATE_IDS[i])
         /\ i >= m.gate => disk.seeds[GATE_IDS[i]].by # run
    /\ pc = "report" /\ m.status = "passed" => \A g \in Gates : Counts(g)
    /\ pc = "mutate" \/ Trial => Has("baseline", Gate, "passed")
    /\ Trial => disk.mutated[Gate] = run
    /\ m.attributable => /\ pc = "seedEnd" /\ Trial
                         /\ m.gate = Boot \/ Has("trial", Gate, "failed")

(* A group that is not proven absent has failed the run, or is about to.     *)
Left ==
  pc \in Working /\ run \in strays =>
    \/ m.status = "failed"
    \/ /\ pc \in {"stop", "browserEvidence", "rewrite", "returned"}
       /\ m.evidence # "passed" /\ m.result.timedOut
    \/ pc = "seedEnd" /\ ~m.attributable

(* Nothing on disk is of a later run, and no summary of a run that works.    *)
Numbered ==
  /\ pc \in Working => run \in Runs /\ disk.result.by # run
  /\ pc \in Ended => server = "none"
  /\ disk.result.by <= run /\ \A r \in strays : r <= run
  /\ \A g \in Gates : disk.seeds[g].by <= run
  /\ pc \in Working /\ ~Seeded => \A g \in Gates : disk.seeds[g].by # run

Stories == Numbered /\ PassIsEarned /\ ExitTellsEvidence /\ NothingLeftBehind /\ SeedCounts
Local   == Places /\ Servers /\ Evident /\ Normal /\ Seeds /\ Left
IInv    == Typed /\ Local /\ Stories

(* The gates and their order                                                 *)
LEMMA GateOrder ==
  /\ \A i \in 1..7 : GATE_IDS[i] \in Gates
  /\ \A i, j \in 1..7 : GATE_IDS[i] = GATE_IDS[j] => i = j
  /\ \A g \in Gates : \E i \in 1..7 : GATE_IDS[i] = g
  /\ \A i \in 1..7 : /\ GATE_IDS[i] = "boot" <=> i = Boot
                     /\ GATE_IDS[i] \in Browser <=> i > Boot
                     /\ GATE_IDS[i] \in Prepared <=> i >= Boot
  /\ Len(GATE_IDS) = 7
<1>1. Len(GATE_IDS) = 7
  BY DEF GATE_IDS
<1>2. /\ GATE_IDS[1] = "lint" /\ GATE_IDS[2] = "type" /\ GATE_IDS[3] = "unit"
      /\ GATE_IDS[4] = "build" /\ GATE_IDS[5] = "boot" /\ GATE_IDS[6] = "axe"
      /\ GATE_IDS[7] = "smoke"
  BY DEF GATE_IDS
<1>3. Gates = {"lint", "type", "unit", "build", "boot", "axe", "smoke"}
  <2>1. Gates = {GATE_IDS[i] : i \in 1..7}
    BY <1>1 DEF Gates
  <2> QED
    BY <1>2, <2>1
<1>4. \A i \in 1..7 : i \in {1, 2, 3, 4, 5, 6, 7}
  OBVIOUS
<1> QED
  BY <1>1, <1>2, <1>3, <1>4 DEF Boot, Browser, Prepared

(* A record is of the gate and the phase under way, and nothing else moves.  *)
LEMMA RecordWrites ==
  ASSUME Typed, run \in Runs, NEW r \in Results, NEW ok \in BOOLEAN,
         Writes(GateRecord(r), ok)
  PROVE  /\ disk' \in Disks
         /\ disk'.attempts = disk.attempts /\ disk'.mutated = disk.mutated
         /\ disk'.seeds = disk.seeds /\ disk'.result = disk.result
         /\ \A p \in {"normal", "baseline", "trial"}, g \in Gates :
              disk'.gates[p][g] = IF ok /\ p = m.phase /\ g = Gate
                                  THEN [by |-> run, status |-> Status(r)] ELSE disk.gates[p][g]
<1> DEFINE R == [by |-> run, status |-> Status(r)]
<1>1. R \in Records
  BY DEF Status, Records, Statuses, Typed, Runs
<1>2. Gate \in Gates /\ m.phase \in {"normal", "baseline", "trial"}
  BY GateOrder DEF Gate, Typed, Memories
<1>3. disk \in Disks
  BY DEF Typed
<1>4. CASE ok
  <2>1. disk' = [disk EXCEPT !.gates[m.phase][Gate] = R]
    BY <1>4 DEF Writes, GateRecord
  <2> HIDE DEF R
  <2>2. disk'.gates = [disk.gates EXCEPT ![m.phase][Gate] = R]
    BY <2>1, <1>3 DEF Disks
  <2> QED
    BY <2>1, <2>2, <1>1, <1>2, <1>3, <1>4 DEF Disks, R
<1>5. CASE ~ok
  BY <1>5, <1>3 DEF Writes
<1> QED
  BY <1>4, <1>5

LEMMA Types == TypeOK <=> Typed
  BY GateOrder DEF TypeOK, Typed, Disks, Memories

(* A mishap is paid for.                                                     *)
LEMMA Counted ==
  ASSUME mishaps \in 0..MaxMishaps, NEW n \in Nat, Costs(n)
  PROVE  mishaps' \in 0..MaxMishaps
  BY HarnessAssumption DEF Costs

LEMMA Price == \A ok \in BOOLEAN : Cost(ok) \in Nat
  BY DEF Cost

(* What a run that works leaves in peace, whatever it does to its own gate.  *)
LEMMA StoriesKept ==
  ASSUME IInv, pc \in Working, run' = run, disk' \in Disks, strays' \subseteq strays \cup {run},
         disk'.seeds = disk.seeds, disk'.result = disk.result,
         Seeded => \A g \in Gates : disk.seeds[g].by = run =>
           /\ \A p \in {"baseline", "trial"} : disk'.gates[p][g] = disk.gates[p][g]
           /\ disk'.mutated[g] = disk.mutated[g],
         pc' \in Working \/ (pc' \in {"exit1", "crashed"} /\ server' = "none"),
         pc' \in Working => m'.mode = m.mode
  PROVE  Stories'
<1>1. Numbered'
  BY DEF IInv, Stories, Numbered, Typed, Seeded, Ended, Working
<1>2. PassIsEarned' /\ ExitTellsEvidence' /\ NothingLeftBehind'
  BY DEF IInv, Stories, Numbered, PassIsEarned, ExitTellsEvidence, NothingLeftBehind, Working
<1>3. SeedCounts'
  BY DEF IInv, Stories, Numbered, SeedCounts, Typed, Disks
<1> QED
  BY <1>1, <1>2, <1>3 DEF Stories

LEMMA OwnSeed ==
  ASSUME IInv, pc \in Working, Seeded, pc # "report"
  PROVE  disk.seeds[Gate].by # run /\ Gate \in Gates
  BY GateOrder DEF IInv, Local, Seeds, Typed, Memories, Gate

(* An exception outside the gates *)
LEMMA Thrown ==
  ASSUME IInv, pc \in Working, pc \notin Outer \cup Marking \cup {"seedEnd", "finally"},
         UNCHANGED <<disk, run, server>>,
         server # "none" => ~Seeded, strays' \subseteq strays \cup {run},
         mishaps' \in 0..MaxMishaps, Throws(m)
  PROVE  IInv'
<1>0. /\ m \in Memories /\ run \in Runs /\ strays \subseteq Runs
  BY DEF IInv, Typed, Stories, Numbered
<1>1. /\ pc' = IF Seeded THEN "seedEnd" ELSE "finally"
      /\ m' = [m EXCEPT !.status = "failed"]
  BY DEF Throws, Goes
<1>2. /\ m'.mode = m.mode /\ m'.gate = m.gate /\ m'.phase = m.phase /\ m'.status = "failed"
      /\ m'.durable = m.durable /\ m'.attributable = m.attributable /\ m'.attempt = m.attempt
      /\ m' \in Memories
  BY <1>0, <1>1 DEF Memories, Statuses
<1>3. Typed'
  BY <1>0, <1>1, <1>2 DEF IInv, Typed, Working
<1>4. Places'
  BY <1>1, <1>2 DEF IInv, Local, Places, Seeded, Trial, Marking, Transfer, Setup
<1>5. Servers'
  BY <1>1, <1>2 DEF IInv, Local, Servers, Seeded
<1>6. Evident'
  BY <1>1, <1>2 DEF IInv, Local, Evident, InGate, Judged, Marking, Transfer, Seeded
<1>7. Normal'
  BY <1>1, <1>2 DEF IInv, Local, Normal, Seeded, Has, InGate, Judged, Marking, Transfer,
                    Ending, Outer
<1>8. Seeds'
  <2>1. CASE Seeded
    <3>1. ~m.attributable /\ pc # "report"
      BY <2>1 DEF IInv, Local, Seeds, Outer
    <3>2. Trial' = Trial /\ Gate' = Gate
      BY <1>2 DEF Trial, Gate
    <3> QED
      BY <1>1, <1>2, <2>1, <3>1, <3>2 DEF IInv, Local, Seeds, Seeded, Has
  <2>2. CASE ~Seeded
    BY <1>2, <2>2 DEF Seeds, Seeded
  <2> QED
    BY <2>1, <2>2
<1>9. Left'
  BY <1>1, <1>2 DEF Left
<1>10. Stories'
  <2>1. pc' \in Working
    BY <1>1 DEF Working
  <2> QED
    BY <1>0, <1>2, <2>1, StoriesKept DEF IInv, Typed
<1> QED
  BY <1>3, <1>4, <1>5, <1>6, <1>7, <1>8, <1>9, <1>10 DEF IInv, Local

(* A step on the way to a gate *)
LEMMA SetUp ==
  ASSUME IInv, pc \in Setup, UNCHANGED <<disk, run, m, server, strays>>,
         mishaps' \in 0..MaxMishaps, pc' \in Setup \cup {"gate"}, pc' = "prepare" => Seeded
  PROVE  IInv'
<1>0. /\ pc \in Working /\ pc' \in Working /\ run \in Runs /\ strays' \subseteq strays
  BY DEF Setup, Working, IInv, Stories, Numbered
<1>1. Typed'
  BY <1>0 DEF IInv, Typed, Stories, Numbered
<1>2. Places' /\ Servers'
  BY DEF IInv, Local, Places, Servers, Seeded, Trial, Marking, Transfer, Setup
<1>3. Evident' /\ Left'
  <2>1. ~InGate' /\ pc' \notin Judged
    BY DEF InGate, Judged, Marking, Transfer, Setup
  <2> QED
    BY <1>0, <2>1 DEF IInv, Local, Evident, Left, Judged, Transfer, Setup, Seeded, Marking
<1>4. Normal'
  BY <1>0 DEF IInv, Local, Normal, Seeded, Has, InGate, Judged, Marking, Transfer, Ending,
              Outer, Setup
<1>5. Seeds'
  <2>1. Trial' = Trial /\ Gate' = Gate /\ Seeded' = Seeded
    BY DEF Trial, Gate, Seeded
  <2> QED
    BY <1>0, <2>1 DEF IInv, Local, Seeds, Has, Counts, Setup
<1>6. Stories'
  BY <1>0, StoriesKept DEF IInv, Typed
<1> QED
  BY <1>1, <1>2, <1>3, <1>4, <1>5, <1>6 DEF IInv, Local

(* The process ends without a word on disk. *)
LEMMA Died ==
  ASSUME IInv, pc \in Working, UNCHANGED <<disk, run>>, server' = "none",
         strays' \subseteq strays \cup {run}, mishaps' \in 0..MaxMishaps,
         Ends("exit1") \/ Ends("crashed")
  PROVE  IInv'
<1>0. /\ m' = Memory("normal") /\ pc' \in {"exit1", "crashed"} /\ run \in Runs
  BY DEF Ends, IInv, Stories, Numbered
<1>1. /\ m'.mode = "normal" /\ m'.phase = "normal" /\ m' \in Memories
  BY <1>0 DEF Memory, Memories, Results, Succeeded, Statuses, Working
<1>2. Typed'
  BY <1>0, <1>1 DEF IInv, Typed, Ended
<1>3. Places' /\ Servers' /\ Evident' /\ Left'
  BY <1>0, <1>1 DEF Memory, Places, Servers, Evident, Left, Seeded, Trial, InGate, Judged,
                    Marking, Transfer,
                    Setup, Working
<1>4. Normal' /\ Seeds'
  BY <1>0 DEF Normal, Seeds, Working
<1>5. Stories'
  BY <1>0, StoriesKept DEF IInv, Typed, Working
<1> QED
  BY <1>2, <1>3, <1>4, <1>5 DEF IInv, Local

(* An attempt that cannot be accepted is marked, and its gate goes on.       *)
LEMMA MarkedInGate ==
  ASSUME IInv, ~Seeded, UNCHANGED <<disk, run, server, strays>>, mishaps' \in 0..MaxMishaps,
         \/ pc \in {"pending", "serve"} /\ MarkAttemptFailed("bootFailed", m)
         \/ pc \in Transfer /\ MarkAttemptFailed("stop", m)
  PROVE  IInv'
<1>0. /\ pc' = "markTerminal" /\ pc \in Working /\ pc' \in Working /\ m \in Memories
      /\ m' = [m EXCEPT !.attempt = "failed",
                        !.back = IF pc \in Transfer THEN "stop" ELSE "bootFailed"]
  BY DEF MarkAttemptFailed, Goes, Transfer, Working, IInv, Typed
<1>1. /\ m'.mode = m.mode /\ m'.gate = m.gate /\ m'.phase = m.phase /\ m'.status = m.status
      /\ m'.attempt = "failed" /\ m'.evidence = m.evidence /\ m'.durable = m.durable
      /\ m'.clean = m.clean /\ m' \in Memories
      /\ m'.back = IF pc \in Transfer THEN "stop" ELSE "bootFailed"
  BY <1>0 DEF Memories, Statuses, Working
<1>2. pc \in Judged /\ pc \notin {"returned", "finally"} /\ m.gate = Boot
  BY DEF IInv, Local, Places, Judged, Transfer, Setup
<1>3. ~Ending /\ InGate /\ ~Ending' /\ InGate'
  BY <1>0, <1>1, <1>2 DEF Ending, InGate, Outer, Marking, Judged, Transfer
<1>4. Typed'
  BY <1>0, <1>1 DEF IInv, Typed
<1>5. Places'
  BY <1>0, <1>1, <1>2 DEF IInv, Local, Places, Seeded, Trial, Marking, Transfer, Setup
<1>6. Servers' /\ Left'
  BY <1>0, <1>1 DEF IInv, Local, Servers, Left, Seeded, Transfer, Marking
<1>7. Evident'
  <2>1. Gate' = Gate
    BY <1>1 DEF Gate
  <2> QED
    BY <1>0, <1>1, <1>3, <2>1 DEF IInv, Local, Evident, Has, Transfer, Seeded, Marking
<1>8. Normal'
  BY <1>0, <1>1, <1>2, <1>3 DEF IInv, Local, Normal, Seeded, Has
<1>9. Seeds'
  BY <1>1 DEF Seeds, Seeded
<1>10. Stories'
  BY <1>0, <1>1, StoriesKept DEF IInv, Typed, Seeded
<1> QED
  BY <1>4, <1>5, <1>6, <1>7, <1>8, <1>9, <1>10 DEF IInv, Local

(* An attempt of a run that has failed is marked before the report.          *)
LEMMA MarkedAtEnd ==
  ASSUME IInv, ~Seeded, UNCHANGED <<disk, run, strays>>, server' = server,
         mishaps' \in 0..MaxMishaps, NEW n, n = m \/ n = [m EXCEPT !.status = "failed"],
         n.status = "failed", m.attempt # "none",
         \/ pc = "settle" /\ MarkAttemptFailed("report", n)
         \/ pc = "report" /\ MarkAttemptFailed("reportAgain", n)
  PROVE  IInv'
<1>0. /\ pc' = "markTerminal" /\ pc \in Working /\ pc' \in Working /\ m \in Memories
      /\ m' = [n EXCEPT !.attempt = "failed",
                        !.back = IF pc = "settle" THEN "report" ELSE "reportAgain"]
  BY DEF MarkAttemptFailed, Goes, Working, IInv, Typed
<1>1. /\ m'.mode = m.mode /\ m'.gate = m.gate /\ m'.phase = m.phase /\ m'.status = "failed"
      /\ m'.attempt = "failed" /\ m'.durable = m.durable /\ m' \in Memories
      /\ m'.back = IF pc = "settle" THEN "report" ELSE "reportAgain"
  BY <1>0 DEF Memories, Statuses, Working
<1>2. ~InGate' /\ Ending'
  BY <1>0, <1>1 DEF Ending, InGate, Outer, Marking, Judged, Transfer
<1>4. Typed'
  BY <1>0, <1>1 DEF IInv, Typed
<1>5. Places'
  BY <1>0, <1>1 DEF IInv, Local, Places, Seeded, Trial, Marking, Transfer, Setup
<1>6. Servers' /\ Left'
  BY <1>0, <1>1 DEF IInv, Local, Servers, Left, Seeded, Transfer, Marking
<1>7. Evident'
  BY <1>0, <1>1, <1>2 DEF IInv, Local, Evident, Transfer, Seeded, Marking
<1>8. Normal'
  BY <1>0, <1>1, <1>2 DEF IInv, Local, Normal, Seeded, Has
<1>9. Seeds'
  BY <1>1 DEF Seeds, Seeded
<1>10. Stories'
  BY <1>0, <1>1, StoriesKept DEF IInv, Typed, Seeded
<1> QED
  BY <1>4, <1>5, <1>6, <1>7, <1>8, <1>9, <1>10 DEF IInv, Local

(* A gate of a run returns with its record: what it says of the record is    *)
(* on disk, and a group that is not proven absent has timed out.             *)
LEMMA Recorded ==
  ASSUME IInv, pc \in Working, ~Ending, pc \notin {"mutate", "seedEnd", "finally"} \cup Setup,
         UNCHANGED <<run, server>>, mishaps' \in 0..MaxMishaps, strays' \subseteq strays \cup {run},
         NEW r \in Results, NEW ok \in BOOLEAN, Writes(GateRecord(r), ok),
         pc' = "returned", m' \in Memories,
         m'.mode = m.mode, m'.gate = m.gate, m'.phase = m.phase, m'.status = m.status,
         m'.attempt = m.attempt, m'.attributable = m.attributable, m'.durable = m.durable,
         m'.evidence # "none",
         m'.evidence = "passed" =>
           IF ok THEN Status(r) = "passed" ELSE Has(m.phase, Gate, "passed"),
         m'.evidence = "failed" /\ m.gate # Boot => ok /\ Status(r) = "failed",
         server # "none" => ~Seeded /\ m.gate > Boot,
         ~Seeded /\ m.gate >= Boot => m.attempt # "none",
         ~Seeded /\ m.gate > Boot /\ server = "none" => m'.evidence = "failed",
         run \in strays' => \/ m.status = "failed"
                            \/ m'.evidence # "passed" /\ m'.result.timedOut
  PROVE  IInv'
<1>0. /\ run \in Runs /\ Gate \in Gates /\ Gate' = Gate /\ Trial' = Trial /\ Seeded' = Seeded
      /\ m.gate \in 1..7 /\ m.phase \in {"normal", "baseline", "trial"}
      /\ pc' \in Working /\ ~Ending' /\ InGate' /\ strays \subseteq Runs
  BY GateOrder DEF IInv, Typed, Memories, Stories, Numbered, Gate, Trial, Seeded, Working,
                   Ending, InGate, Outer, Marking, Judged
<1>1. /\ disk' \in Disks
      /\ disk'.attempts = disk.attempts /\ disk'.mutated = disk.mutated
      /\ disk'.seeds = disk.seeds /\ disk'.result = disk.result
      /\ \A p \in {"normal", "baseline", "trial"}, g \in Gates :
           disk'.gates[p][g] = IF ok /\ p = m.phase /\ g = Gate
                               THEN [by |-> run, status |-> Status(r)] ELSE disk.gates[p][g]
  BY <1>0, RecordWrites DEF IInv
<1>2. Typed'
  BY <1>0, <1>1 DEF IInv, Typed
<1>3. Places' /\ Servers' /\ Left'
  BY <1>0 DEF IInv, Local, Places, Servers, Left, Transfer, Marking, Setup, Boot
<1>4. Evident'
  BY <1>0, <1>1 DEF IInv, Local, Evident, Has, Transfer, Marking
<1>5. Normal'
  <2>1. \A i \in 1..7 : i < m.gate => GATE_IDS[i] # Gate /\ GATE_IDS[i] \in Gates
    BY <1>0, GateOrder DEF Gate
  <2>2. ~Seeded => m.phase = "normal"
    BY DEF IInv, Local, Places, Seeded, Typed, Memories
  <2> QED
    BY <1>0, <1>1, <2>1, <2>2 DEF IInv, Local, Normal, Has, Boot
<1>6. Seeds'
  <2>1. Seeded => ~m.attributable
    BY DEF IInv, Local, Seeds
  <2>2. Trial => m.phase # "baseline"
    BY DEF Trial
  <2>3. ~(pc = "report")
    BY DEF Ending, Outer
  <2> QED
    BY <1>0, <1>1, <2>1, <2>2, <2>3 DEF IInv, Local, Seeds, Has, Counts
<1>7. Stories'
  BY <1>0, <1>1, OwnSeed, StoriesKept DEF Ending, Outer
<1> QED
  BY <1>2, <1>3, <1>4, <1>5, <1>6, <1>7 DEF IInv, Local

(* What a result keeps when it is made to fail                               *)
LEMMA Failing ==
  \A r \in Results :
    /\ ~r.reaped => r.timedOut
    /\ Status(r) = "passed" => r.reaped /\ r.exit = "0" /\ ~r.timedOut
    /\ Status(r) \in Statuses
    /\ FailedBootResult(r) \in Results /\ Status(FailedBootResult(r)) = "failed"
    /\ InvalidateResultForExitedServer(r) \in Results
    /\ FailedBootResult(r).timedOut = r.timedOut
    /\ InvalidateResultForExitedServer(r).timedOut = r.timedOut
    /\ InvalidateResultForExitedServer(r).reaped = r.reaped
  BY DEF Results, Status, FailedBootResult, InvalidateResultForExitedServer, Statuses

(* Nothing of a gate that has not run is left. *)
LEMMA Fresh ==
  ASSUME IInv, pc \in {"gate", "pending", "serve", "health", "evidence", "bootFailed", "browser"},
         run \in strays
  PROVE  m.status = "failed"
  BY DEF IInv, Local, Left, Working

(* The two results that a command is meant to have                           *)
LEMMA Meant ==
  /\ Succeeded \in Results /\ Failed \in Results /\ Status(Failed) = "failed"
  /\ Status(Succeeded) = "passed"
  BY DEF Succeeded, Failed, Results, Status

(* The frame of a run: a command that does not go well throws.               *)
LEMMA FrameSteps ==
  ASSUME IInv, Begin \/ GenerateProject \/ InitializeRepository \/ RunInstall \/ PrepareSeed
  PROVE  IInv'
<1>0. /\ pc \in Setup /\ pc \in Working /\ run \in Runs /\ UNCHANGED <<disk, run, server>>
      /\ server = "none" /\ mishaps \in 0..MaxMishaps
  BY DEF Begin, GenerateProject, InitializeRepository, RunInstall, PrepareSeed, Setup, Working,
         IInv, Typed, Local, Servers, Transfer, Marking, Stories, Numbered
<1>1. mishaps' \in 0..MaxMishaps
  <2>1. \A a, b \in BOOLEAN : Cost(a) + Cost(b) \in Nat
    BY DEF Cost
  <2>2. PICK n \in Nat : Costs(n)
    BY <2>1 DEF Begin, GenerateProject, InitializeRepository, RunInstall, PrepareSeed
  <2> QED
    BY <1>0, <2>2, Counted
<1>2. strays' \subseteq strays \cup {run}
  BY DEF Begin, GenerateProject, InitializeRepository, RunInstall, PrepareSeed, Leaves
<1>3. CASE Throws(m)
  BY <1>0, <1>1, <1>2, <1>3, Thrown DEF Setup, Outer, Marking
<1>4. CASE Ends("exit1")
  BY <1>0, <1>1, <1>2, <1>4, Died
<1>5. CASE ~Throws(m) /\ ~Ends("exit1")
  <2>1. m' = m /\ pc' \in Setup \cup {"gate"} /\ (pc' = "prepare" => Seeded) /\ UNCHANGED strays
    BY <1>5, Failing DEF Begin, GenerateProject, InitializeRepository, RunInstall, PrepareSeed,
                         Goes, Leaves, Setup
  <2> QED
    BY <1>0, <1>1, <2>1, SetUp
<1> QED
  BY <1>3, <1>4, <1>5

LEMMA ChooseGateStep ==
  ASSUME IInv, ChooseGate
  PROVE  IInv'
<1>0. /\ pc = "gate" /\ pc \in Working /\ pc' \in Working /\ run \in Runs /\ m \in Memories
      /\ m.gate \in 1..7
      /\ UNCHANGED <<disk, run, server, strays, mishaps>>
      /\ Gate \in IF Seeded THEN Prepared ELSE {"boot"}
      /\ pc' = IF Seeded THEN "serve" ELSE "pending"
      /\ m' = [m EXCEPT !.attempt = IF Seeded THEN @ ELSE "pending",
                        !.durable = FALSE, !.evidence = "none"]
  BY DEF ChooseGate, Goes, Working, IInv, Typed, Memories, Stories, Numbered
<1>1. /\ m'.mode = m.mode /\ m'.gate = m.gate /\ m'.phase = m.phase /\ m'.status = m.status
      /\ ~m'.durable /\ m'.evidence = "none" /\ m'.attributable = m.attributable
      /\ m'.attempt = IF Seeded THEN m.attempt ELSE "pending"
      /\ m' \in Memories
  BY <1>0 DEF Memories
<1>2. m.gate >= Boot /\ (~Seeded => m.gate = Boot)
  BY <1>0, GateOrder DEF Gate
<1>3. /\ Gate' = Gate /\ Trial' = Trial /\ Seeded' = Seeded /\ ~Ending /\ ~Ending'
  BY <1>0, <1>1 DEF Gate, Trial, Seeded, Ending, Outer, Marking
<1>4. server = "none"
  BY <1>0, <1>2 DEF IInv, Local, Servers, Transfer, Marking, Boot
<1>5. Typed'
  BY <1>0, <1>1 DEF IInv, Typed
<1>6. Places' /\ Servers' /\ Left' /\ Evident'
  BY <1>0, <1>1, <1>2, <1>3, <1>4
     DEF IInv, Local, Places, Servers, Left, Evident, Transfer, Marking, Setup
<1>7. Normal' /\ Seeds'
  BY <1>0, <1>1, <1>3 DEF IInv, Local, Normal, Seeds, Has, Counts
<1>8. Stories'
  BY <1>0, <1>1, StoriesKept DEF IInv, Typed
<1> QED
  BY <1>5, <1>6, <1>7, <1>8 DEF IInv, Local

LEMMA SimpleGateStep ==
  ASSUME IInv, RunSimpleGate
  PROVE  IInv'
<1> PICK r \in Results, ok \in BOOLEAN :
       LET result == InvalidateResultForExitedServer(r) IN
       /\ Costs(Cost(r = Expected) + Cost(ok)) /\ Leaves(r.reaped)
       /\ Writes(GateRecord(result), ok)
       /\ IF ok
          THEN Goes("returned", [m EXCEPT !.result = result, !.evidence = Status(result),
                                          !.reaped = result.reaped])
          ELSE Throws(m)
  BY DEF RunSimpleGate
<1> DEFINE result == InvalidateResultForExitedServer(r)
<1>01. mishaps' \in 0..MaxMishaps
  <2>1. Cost(r = Expected) + Cost(ok) \in Nat
    BY DEF Cost
  <2> QED
    BY <2>1, Counted DEF IInv, Typed
<1>0. /\ pc = "gate" /\ pc \in Working /\ run \in Runs /\ m \in Memories /\ m.gate \in 1..7
      /\ UNCHANGED <<run, server>> /\ mishaps' \in 0..MaxMishaps
      /\ Gate \notin IF Seeded THEN Prepared ELSE {"boot"}
      /\ Gate \in Browser => server # "none"
      /\ strays' = IF r.reaped THEN strays ELSE strays \cup {run}
      /\ Writes(GateRecord(result), ok)
  BY <1>01 DEF RunSimpleGate, Leaves, Working, IInv, Typed, Memories, Stories, Numbered
<1>1. /\ result \in Results /\ result.timedOut = r.timedOut /\ Status(result) \in Statuses
      /\ Status(result) = "passed" => ~r.timedOut
      /\ ~r.reaped => r.timedOut
  BY Failing
<1>2. /\ Seeded => m.gate < Boot
      /\ m.gate # Boot /\ (m.gate > Boot => server # "none")
      /\ server # "none" => ~Seeded /\ m.gate > Boot
      /\ ~Seeded /\ m.gate >= Boot => m.attempt # "none"
      /\ ~Ending
  BY <1>0, GateOrder DEF Gate, IInv, Local, Servers, Normal, Ending, Outer, Marking,
                         Transfer, Boot
<1> HIDE DEF result
<1>3. CASE ok
  <2>1. pc' = "returned" /\ m' = [m EXCEPT !.result = result, !.evidence = Status(result),
                                           !.reaped = result.reaped]
    BY <1>3 DEF Goes, result
  <2>2. /\ m'.mode = m.mode /\ m'.gate = m.gate /\ m'.phase = m.phase /\ m'.status = m.status
        /\ m'.attempt = m.attempt /\ m'.attributable = m.attributable /\ m'.durable = m.durable
        /\ m'.clean = m.clean /\ m'.evidence = Status(result) /\ m'.result = result
        /\ m' \in Memories
    BY <1>0, <1>1, <2>1 DEF Memories, Results
  <2>3. run \in strays' => \/ m.status = "failed"
                           \/ m'.evidence # "passed" /\ m'.result.timedOut
    BY <1>0, <1>1, <2>2, Fresh
  <2> QED
    BY <1>0, <1>1, <1>2, <1>3, <2>1, <2>2, <2>3, Recorded DEF Setup, Statuses
<1>4. CASE ~ok
  <2>1. Throws(m) /\ disk' = disk
    BY <1>0, <1>4 DEF Writes
  <2> QED
    BY <1>0, <1>2, <2>1, Thrown DEF Outer, Marking
<1> QED
  BY <1>3, <1>4

(* A step within a gate that writes no record of it: what is left to show.   *)
LEMMA GoesOnMarked ==
  ASSUME IInv, pc \in Judged, pc' \in Judged, run' = run, disk' \in Disks, disk'.gates = disk.gates,
         disk'.mutated = disk.mutated, disk'.seeds = disk.seeds, disk'.result = disk.result,
         m' \in Memories, m'.mode = m.mode, m'.gate = m.gate, m'.phase = m.phase,
         m'.status = m.status, m'.attempt = m.attempt, m'.attributable = m.attributable,
         server' \in {"none", "live", "exited"}, strays' \subseteq strays \cup {run},
         mishaps' \in 0..MaxMishaps,
         pc' = "returned" /\ ~Seeded => m.gate = Boot
  PROVE  /\ Typed' /\ Normal' /\ Seeds' /\ Stories'
         /\ Gate' = Gate /\ Trial' = Trial /\ Seeded' = Seeded
<1>0. /\ pc \in Working /\ pc' \in Working /\ run \in Runs /\ strays \subseteq Runs
      /\ Gate' = Gate /\ Trial' = Trial /\ Seeded' = Seeded /\ m.gate \in 1..7
      /\ InGate /\ ~Ending /\ InGate' /\ ~Ending'
      /\ pc \notin {"gate", "mutate", "seedEnd", "report", "reportAgain", "finally"}
      /\ pc' \notin {"gate", "mutate", "seedEnd", "report", "reportAgain", "finally"}
  BY DEF Judged, Transfer, Working, IInv, Typed, Memories, Stories, Numbered, Gate, Trial,
         Seeded, InGate, Ending, Outer, Marking
<1>1. Typed'
  BY <1>0 DEF IInv, Typed
<1>2. Normal' /\ Seeds'
  BY <1>0 DEF IInv, Local, Normal, Seeds, Has, Counts, Boot
<1>3. Stories'
  BY <1>0, StoriesKept DEF IInv, Typed
<1> QED
  BY <1>0, <1>1, <1>2, <1>3

LEMMA GoesOn ==
  ASSUME IInv, pc \in Judged, pc' \in Judged, UNCHANGED <<disk, run>>,
         m' \in Memories, m'.mode = m.mode, m'.gate = m.gate, m'.phase = m.phase,
         m'.status = m.status, m'.attempt = m.attempt, m'.attributable = m.attributable,
         server' \in {"none", "live", "exited"}, strays' \subseteq strays \cup {run},
         mishaps' \in 0..MaxMishaps,
         pc' = "returned" /\ ~Seeded => m.gate = Boot
  PROVE  /\ Typed' /\ Normal' /\ Seeds' /\ Stories'
         /\ Gate' = Gate /\ Trial' = Trial /\ Seeded' = Seeded
<1>1. disk' \in Disks
  BY DEF IInv, Typed
<1> QED
  BY <1>1, GoesOnMarked

LEMMA StartLiveServerStep ==
  ASSUME IInv, StartLiveServer
  PROVE  IInv'
<1>0. /\ pc = "serve" /\ pc \in Judged /\ m \in Memories /\ mishaps \in 0..MaxMishaps
      /\ UNCHANGED <<disk, run>> /\ server = "none" /\ m.evidence = "none" /\ ~m.durable
      /\ m.gate >= Boot /\ (~Seeded => m.gate = Boot) /\ m.gate \in 1..7
      /\ Gate = "boot" <=> m.gate = Boot
      /\ run \in strays => m.status = "failed"
  BY GateOrder, Fresh DEF StartLiveServer, Judged, IInv, Typed, Memories, Local, Places,
                          Servers,
                     Evident, Transfer, Marking, Gate
<1>1. CASE server' = "live"
  <2>1. /\ m' = m /\ Costs(0) /\ UNCHANGED strays
        /\ pc' = IF m.gate = Boot THEN "health" ELSE "browser"
    BY <1>0, <1>1 DEF StartLiveServer, Goes
  <2>2. mishaps' \in 0..MaxMishaps /\ pc' \in Judged
    BY <1>0, <2>1, Counted DEF Judged
  <2>3. /\ Typed' /\ Normal' /\ Seeds' /\ Stories'
        /\ Gate' = Gate /\ Trial' = Trial /\ Seeded' = Seeded
    BY <1>0, <1>1, <2>1, <2>2, GoesOn
  <2>4. Places' /\ Servers' /\ Left' /\ Evident'
    BY <1>0, <1>1, <2>1, <2>3
       DEF IInv, Local, Places, Servers, Left, Evident, Transfer, Marking, Setup, Has, Boot
  <2> QED
    BY <2>3, <2>4 DEF IInv, Local
<1>2. CASE server' # "live"
  <2>1. PICK r \in Results :
          /\ Costs(1) /\ Leaves(r.reaped) /\ UNCHANGED server
          /\ pc' = IF m.gate = Boot THEN "stop" ELSE "browserEvidence"
          /\ m' = [m EXCEPT !.result = r, !.reaped = r.reaped \/ Gate # "boot"]
    BY <1>0, <1>2 DEF StartLiveServer, Goes
  <2>2. /\ mishaps' \in 0..MaxMishaps /\ pc' \in Judged
        /\ m'.mode = m.mode /\ m'.gate = m.gate /\ m'.phase = m.phase /\ m'.status = m.status
        /\ m'.attempt = m.attempt /\ m'.attributable = m.attributable /\ m'.durable = m.durable
        /\ m'.evidence = m.evidence /\ m'.result = r /\ m' \in Memories
        /\ strays' = (IF r.reaped THEN strays ELSE strays \cup {run})
        /\ ~r.reaped => r.timedOut
    BY <1>0, <2>1, Counted, Failing DEF Memories, Results, Judged, Leaves
  <2>3. /\ Typed' /\ Normal' /\ Seeds' /\ Stories'
        /\ Gate' = Gate /\ Trial' = Trial /\ Seeded' = Seeded
    BY <1>0, <2>1, <2>2, GoesOn DEF IInv, Typed
  <2>4. Places' /\ Servers' /\ Left' /\ Evident'
    BY <1>0, <2>1, <2>2, <2>3
       DEF IInv, Local, Places, Servers, Left, Evident, Transfer, Marking, Setup, Has, Boot
  <2> QED
    BY <2>3, <2>4 DEF IInv, Local
<1> QED
  BY <1>1, <1>2

LEMMA RunHealthStep ==
  ASSUME IInv, RunHealth
  PROVE  IInv'
<1>0. /\ pc = "health" /\ pc \in Judged /\ m \in Memories /\ mishaps \in 0..MaxMishaps
      /\ UNCHANGED <<disk, run, server>> /\ m.evidence = "none" /\ ~m.durable
      /\ m.gate = Boot
      /\ run \in strays => m.status = "failed"
  BY Fresh DEF RunHealth, Judged, IInv, Typed, Local, Places, Evident
<1>1. PICK r \in Results :
        LET result == InvalidateResultForExitedServer(r) IN
        /\ Costs(Cost(r = Expected)) /\ Leaves(r.reaped)
        /\ Goes(IF result = Succeeded /\ server = "live" THEN "evidence" ELSE "stop",
                [m EXCEPT !.result = result])
  BY DEF RunHealth
<1> DEFINE result == InvalidateResultForExitedServer(r)
<1>2. /\ result \in Results /\ result.timedOut = r.timedOut /\ result.reaped = r.reaped
      /\ ~r.reaped => r.timedOut
  BY Failing
<1>3. result = Succeeded => ~result.timedOut
  BY DEF Succeeded
<1>4. mishaps' \in 0..MaxMishaps
  <2>1. Cost(r = Expected) \in Nat
    BY DEF Cost
  <2> QED
    BY <1>0, <1>1, <2>1, Counted
<1>5. /\ pc' \in {"evidence", "stop"} /\ (pc' = "evidence" => result = Succeeded)
      /\ m' = [m EXCEPT !.result = result]
      /\ strays' = IF r.reaped THEN strays ELSE strays \cup {run}
  BY <1>1 DEF Goes, Leaves
<1> HIDE DEF result
<1>6. /\ m'.mode = m.mode /\ m'.gate = m.gate /\ m'.phase = m.phase /\ m'.status = m.status
      /\ m'.attempt = m.attempt /\ m'.attributable = m.attributable /\ m'.durable = m.durable
      /\ m'.evidence = m.evidence /\ m'.result = result /\ m' \in Memories /\ pc' \in Judged
  BY <1>0, <1>2, <1>5 DEF Memories, Judged
<1>7. /\ Typed' /\ Normal' /\ Seeds' /\ Stories'
      /\ Gate' = Gate /\ Trial' = Trial /\ Seeded' = Seeded
  BY <1>0, <1>4, <1>5, <1>6, GoesOn DEF IInv, Typed
<1>8. Places' /\ Servers' /\ Left' /\ Evident'
  BY <1>0, <1>2, <1>3, <1>5, <1>6, <1>7
     DEF IInv, Local, Places, Servers, Left, Evident, Transfer, Marking, Setup, Has, Boot
<1> QED
  BY <1>7, <1>8 DEF IInv, Local

LEMMA RunBrowserStep ==
  ASSUME IInv, RunBrowserGate
  PROVE  IInv'
<1>0. /\ pc = "browser" /\ pc \in Judged /\ m \in Memories /\ mishaps \in 0..MaxMishaps
      /\ UNCHANGED <<disk, run, server>> /\ m.evidence = "none" /\ ~m.durable
      /\ m.gate > Boot /\ Seeded /\ m.gate \in 1..7
      /\ run \in strays => m.status = "failed"
  BY Fresh DEF RunBrowserGate, Judged, IInv, Typed, Local, Places, Evident, Memories
<1>1. PICK r \in Results :
        /\ Costs(Cost(r = Expected)) /\ Leaves(r.reaped)
        /\ Goes("stop", [m EXCEPT !.result = InvalidateResultForExitedServer(r)])
  BY DEF RunBrowserGate
<1> DEFINE result == InvalidateResultForExitedServer(r)
<1>2. result \in Results /\ result.timedOut = r.timedOut /\ (~r.reaped => r.timedOut)
  BY Failing
<1>4. mishaps' \in 0..MaxMishaps
  <2>1. Cost(r = Expected) \in Nat
    BY DEF Cost
  <2> QED
    BY <1>0, <1>1, <2>1, Counted
<1>5. /\ pc' = "stop" /\ m' = [m EXCEPT !.result = result]
      /\ strays' = IF r.reaped THEN strays ELSE strays \cup {run}
  BY <1>1 DEF Goes, Leaves
<1> HIDE DEF result
<1>6. /\ m'.mode = m.mode /\ m'.gate = m.gate /\ m'.phase = m.phase /\ m'.status = m.status
      /\ m'.attempt = m.attempt /\ m'.attributable = m.attributable /\ m'.durable = m.durable
      /\ m'.evidence = m.evidence /\ m'.result = result /\ m' \in Memories /\ pc' \in Judged
  BY <1>0, <1>2, <1>5 DEF Memories, Judged
<1>7. /\ Typed' /\ Normal' /\ Seeds' /\ Stories'
      /\ Gate' = Gate /\ Trial' = Trial /\ Seeded' = Seeded
  BY <1>0, <1>4, <1>5, <1>6, GoesOn DEF IInv, Typed
<1>8. Places' /\ Servers'
  BY <1>0, <1>5, <1>6, <1>7 DEF IInv, Local, Places, Servers, Transfer, Marking, Setup, Boot
<1>9. Left' /\ Evident'
  BY <1>0, <1>2, <1>5, <1>6, <1>7 DEF IInv, Local, Left, Evident, Transfer, Has, Working
<1> QED
  BY <1>7, <1>8, <1>9 DEF IInv, Local

LEMMA StopLiveServerStep ==
  ASSUME IInv, StopLiveServer
  PROVE  IInv'
<1>0. /\ pc = "stop" /\ pc \in Judged /\ m \in Memories /\ mishaps \in 0..MaxMishaps
      /\ UNCHANGED <<disk, run>> /\ server' = "none" /\ m.result \in Results
      /\ m.gate \in 1..7 /\ m.gate >= Boot /\ (~Seeded => m.gate = Boot)
      /\ (Gate = "boot" <=> m.gate = Boot) /\ Gate \in Gates
  BY GateOrder DEF StopLiveServer, Judged, IInv, Typed, Memories, Local, Places, Gate
<1>1. PICK reaped \in BOOLEAN :
       LET before == IF m.durable THEN m.result
                     ELSE IF Gate = "boot" THEN FailedBootResult(m.result)
                     ELSE InvalidateResultForExitedServer(m.result)
       IN  /\ reaped \in (IF server = "none" THEN {m.reaped} ELSE BOOLEAN)
           /\ Costs(Cost(reaped \/ server = "none")) /\ Leaves(reaped \/ server = "none")
           /\ Goes(IF Gate # "boot" THEN "browserEvidence"
                   ELSE IF m.durable /\ reaped THEN "returned" ELSE "rewrite",
                   [m EXCEPT !.reaped = reaped, !.durable = @ /\ reaped,
                             !.evidence = IF reaped THEN @ ELSE "none",
                             !.clean = IF Gate = "boot" /\ ~Seeded THEN reaped ELSE @,
                             !.result = IF reaped THEN before
                                        ELSE [before EXCEPT !.timedOut = TRUE]])
  BY <1>0 DEF StopLiveServer, Memories
<1> DEFINE before == IF m.durable THEN m.result
                     ELSE IF Gate = "boot" THEN FailedBootResult(m.result)
                     ELSE InvalidateResultForExitedServer(m.result)
           final  == IF reaped THEN before ELSE [before EXCEPT !.timedOut = TRUE]
<1>2. before \in Results /\ before.timedOut = m.result.timedOut
  BY <1>0, Failing
<1> HIDE DEF before
<1>3. final \in Results /\ (final.timedOut <=> ~reaped \/ m.result.timedOut)
  BY <1>2 DEF Results
<1>4. mishaps' \in 0..MaxMishaps
  <2>1. Cost(reaped \/ server = "none") \in Nat
    BY DEF Cost
  <2> QED
    BY <1>0, <1>1, <2>1, Counted
<1>5. /\ pc' = (IF m.gate # Boot THEN "browserEvidence"
                ELSE IF m.durable /\ reaped THEN "returned" ELSE "rewrite")
      /\ m' = [m EXCEPT !.reaped = reaped, !.durable = @ /\ reaped,
                        !.evidence = IF reaped THEN @ ELSE "none",
                        !.clean = IF Gate = "boot" /\ ~Seeded THEN reaped ELSE @,
                        !.result = final]
      /\ strays' \subseteq strays \cup {run} /\ (reaped => strays' = strays)
  BY <1>0, <1>1 DEF Goes, Leaves, before
<1> HIDE DEF final
<1>6. /\ m'.mode = m.mode /\ m'.gate = m.gate /\ m'.phase = m.phase /\ m'.status = m.status
      /\ m'.attempt = m.attempt /\ m'.attributable = m.attributable
      /\ m'.durable = (m.durable /\ reaped) /\ m'.evidence = (IF reaped THEN m.evidence ELSE "none")
      /\ m'.result = final /\ m' \in Memories /\ pc' \in Judged
  BY <1>0, <1>3, <1>5 DEF Memories, Judged
<1>7. /\ Typed' /\ Normal' /\ Seeds' /\ Stories'
      /\ Gate' = Gate /\ Trial' = Trial /\ Seeded' = Seeded
  BY <1>0, <1>4, <1>5, <1>6, GoesOn
<1>8. Places'
  BY <1>0, <1>5, <1>6, <1>7 DEF IInv, Local, Places, Transfer, Marking, Setup, Boot
<1>9. Servers' /\ Left'
  BY <1>0, <1>3, <1>5, <1>6 DEF IInv, Local, Servers, Left, Working
<1>10. Evident'
  <2>1. /\ InGate /\ (m.evidence = "passed" => Has(m.phase, Gate, "passed"))
        /\ m.durable => m.evidence = "passed" /\ Seeded
        /\ m.gate # Boot => m.evidence = "none"
    BY <1>0 DEF IInv, Local, Evident, InGate
  <2>2. Has(m.phase, Gate, "passed")' <=> Has(m.phase, Gate, "passed")
    BY <1>0, <1>6, <1>7 DEF Has
  <2>3. m'.evidence = "passed" => Has(m.phase, Gate, "passed")'
    BY <1>6, <2>1, <2>2
  <2>4. pc' = "returned" => m'.evidence = "passed"
    BY <1>5, <1>6, <2>1
  <2> QED
    BY <1>0, <1>5, <1>6, <1>7, <2>1, <2>3, <2>4 DEF Evident, Transfer, Marking
<1> QED
  BY <1>7, <1>8, <1>9, <1>10 DEF IInv, Local

LEMMA WriteBootEvidenceStep ==
  ASSUME IInv, WriteBootEvidence
  PROVE  IInv'
<1>1. PICK ok \in BOOLEAN :
        /\ Costs(Cost(ok)) /\ Writes(GateRecord(m.result), ok)
        /\ IF ok /\ server = "live"
           THEN Goes(IF Seeded THEN "stop" ELSE "stage",
                     [m EXCEPT !.evidence = "passed", !.durable = Seeded])
           ELSE Goes("stop", m)
  BY DEF WriteBootEvidence
<1>0. /\ pc = "evidence" /\ pc \in Working /\ m \in Memories /\ run \in Runs
      /\ UNCHANGED <<run, server, strays>> /\ mishaps' \in 0..MaxMishaps
      /\ m.evidence = "none" /\ ~m.durable /\ m.gate = Boot /\ m.result = Succeeded
      /\ m.phase \in {"normal", "baseline", "trial"} /\ m.result \in Results
      /\ run \in strays => m.status = "failed"
  BY <1>1, Fresh, Price, Counted
     DEF WriteBootEvidence, Working, IInv, Typed, Local, Places, Evident, Memories,
         Stories, Numbered
<1>2. /\ disk' \in Disks /\ Gate \in Gates
      /\ disk'.attempts = disk.attempts /\ disk'.mutated = disk.mutated
      /\ disk'.seeds = disk.seeds /\ disk'.result = disk.result
      /\ \A p \in {"normal", "baseline", "trial"}, g \in Gates :
           disk'.gates[p][g] = IF ok /\ p = m.phase /\ g = Gate
                               THEN [by |-> run, status |-> "passed"] ELSE disk.gates[p][g]
  BY <1>0, <1>1, RecordWrites, Meant, GateOrder DEF IInv, Typed, Memories, Gate
<1>3. /\ pc' = (IF ~(ok /\ server = "live") \/ Seeded THEN "stop" ELSE "stage")
      /\ m' \in Memories /\ m'.mode = m.mode /\ m'.gate = m.gate /\ m'.phase = m.phase
      /\ m'.status = m.status /\ m'.attempt = m.attempt /\ m'.attributable = m.attributable
      /\ m'.evidence = (IF ok /\ server = "live" THEN "passed" ELSE "none")
      /\ m'.durable = (ok /\ server = "live" /\ Seeded)
  BY <1>0, <1>1 DEF Goes, Memories, Statuses, Seeded
<1>4. /\ Gate' = Gate /\ Trial' = Trial /\ Seeded' = Seeded /\ pc' \in Working
      /\ InGate /\ ~Ending /\ InGate' /\ ~Ending'
  BY <1>0, <1>3 DEF Gate, Trial, Seeded, InGate, Ending, Outer, Marking, Judged, Transfer,
                    Working
<1>5. Typed'
  BY <1>0, <1>2, <1>3, <1>4 DEF IInv, Typed
<1>6. Places'
  BY <1>0, <1>3, <1>4 DEF IInv, Local, Places, Transfer, Marking, Setup, Boot
<1>7. Servers' /\ Left'
  BY <1>0, <1>3, <1>4 DEF Servers, Left, Transfer
<1>8. Evident'
  BY <1>0, <1>2, <1>3, <1>4 DEF Evident, Transfer, Has, Marking
<1>9. Normal'
  <2>1. \A i \in 1..7 : i < m.gate => GATE_IDS[i] # Gate /\ GATE_IDS[i] \in Gates
    BY <1>0, GateOrder DEF Gate, Boot
  <2>2. ~Seeded => m.phase = "normal"
    BY <1>0 DEF IInv, Local, Places, Seeded, Memories
  <2> QED
    BY <1>0, <1>2, <1>3, <1>4, <2>1, <2>2 DEF IInv, Local, Normal, Has, Boot
<1>10. Seeds'
  <2>1. Seeded => ~m.attributable
    BY <1>0 DEF IInv, Local, Seeds
  <2>2. Trial => m.phase # "baseline"
    BY DEF Trial
  <2> QED
    BY <1>0, <1>2, <1>3, <1>4, <2>1, <2>2 DEF IInv, Local, Seeds, Has, Counts
<1>11. Stories'
  BY <1>0, <1>2, <1>3, <1>4, OwnSeed, StoriesKept
<1> QED
  BY <1>5, <1>6, <1>7, <1>8, <1>9, <1>10, <1>11 DEF IInv, Local

LEMMA RewriteBootStep ==
  ASSUME IInv, RewriteBootEvidence
  PROVE  IInv'
<1>1. PICK ok \in BOOLEAN :
        /\ Costs(Cost(ok)) /\ Writes(GateRecord(FailedBootResult(m.result)), ok)
        /\ Goes("returned", [m EXCEPT !.result = FailedBootResult(m.result),
                                      !.evidence = IF ok \/ @ = "none" THEN "failed" ELSE @])
  BY DEF RewriteBootEvidence
<1>0. /\ pc = "rewrite" /\ pc \in Working /\ m \in Memories /\ m.result \in Results
      /\ UNCHANGED <<run, server, strays>> /\ mishaps' \in 0..MaxMishaps
      /\ m.gate = Boot /\ server = "none" /\ ~Ending /\ InGate
      /\ ~Seeded => m.attempt # "none"
      /\ m.evidence = "passed" => Has(m.phase, Gate, "passed")
      /\ run \in strays => m.status = "failed" \/ (m.evidence # "passed" /\ m.result.timedOut)
  BY <1>1, Price, Counted
     DEF RewriteBootEvidence, Working, IInv, Typed, Local, Places, Servers, Evident, Left,
         Normal, Memories,
         Ending, Outer, Marking, Transfer, InGate, Judged
<1> DEFINE r == FailedBootResult(m.result)
<1>2. r \in Results /\ Status(r) = "failed" /\ r.timedOut = m.result.timedOut
  BY <1>0, Failing
<1> HIDE DEF r
<1>3. /\ pc' = "returned" /\ m' \in Memories /\ m'.mode = m.mode /\ m'.gate = m.gate
      /\ m'.phase = m.phase /\ m'.status = m.status /\ m'.attempt = m.attempt
      /\ m'.attributable = m.attributable /\ m'.durable = m.durable /\ m'.result = r
      /\ m'.evidence = IF ok \/ m.evidence = "none" THEN "failed" ELSE m.evidence
  BY <1>0, <1>1, <1>2 DEF Goes, Memories, Statuses, r
<1>4. Writes(GateRecord(r), ok)
  BY <1>1 DEF r
<1> QED
  BY <1>0, <1>2, <1>3, <1>4, Recorded DEF Setup, Memories, Statuses, Boot

LEMMA WriteBrowserStep ==
  ASSUME IInv, WriteBrowserEvidence
  PROVE  IInv'
<1>1. PICK ok \in BOOLEAN :
        /\ Costs(Cost(ok)) /\ Writes(GateRecord(m.result), ok)
        /\ IF ok THEN Goes("returned", [m EXCEPT !.evidence = Status(m.result)]) ELSE Throws(m)
  BY DEF WriteBrowserEvidence
<1>0. /\ pc = "browserEvidence" /\ pc \in Working /\ m \in Memories /\ m.result \in Results
      /\ UNCHANGED <<run, server, strays>> /\ mishaps' \in 0..MaxMishaps
      /\ m.gate > Boot /\ server = "none" /\ ~Ending /\ Seeded
      /\ run \in strays => m.status = "failed" \/ m.result.timedOut
  BY <1>1, Price, Counted
     DEF WriteBrowserEvidence, Working, IInv, Typed, Local, Places, Servers, Left,
         Memories, Ending,
         Outer, Marking, Transfer
<1>2. CASE ok
  <2>1. /\ pc' = "returned" /\ m' = [m EXCEPT !.evidence = Status(m.result)]
        /\ Status(m.result) \in Statuses /\ (Status(m.result) = "passed" => ~m.result.timedOut)
    BY <1>0, <1>1, <1>2, Failing DEF Goes
  <2>2. /\ m' \in Memories /\ m'.mode = m.mode /\ m'.gate = m.gate /\ m'.phase = m.phase
        /\ m'.status = m.status /\ m'.attempt = m.attempt /\ m'.attributable = m.attributable
        /\ m'.durable = m.durable /\ m'.result = m.result /\ m'.evidence = Status(m.result)
    BY <1>0, <2>1 DEF Memories
  <2> QED
    BY <1>0, <1>1, <1>2, <2>1, <2>2, Recorded DEF Setup, Statuses
<1>3. CASE ~ok
  BY <1>0, <1>1, <1>3, Thrown DEF Outer, Marking, Writes
<1> QED
  BY <1>2, <1>3

LEMMA NoServerStep ==
  ASSUME IInv, NoServerToRunOn
  PROVE  IInv'
<1> DEFINE r == [exit |-> "none", timedOut |-> TRUE, reaped |-> FALSE]
<1>1. PICK ok \in BOOLEAN :
        /\ Costs(Cost(ok)) /\ Writes(GateRecord(r), ok)
        /\ IF ok THEN Goes("returned", [m EXCEPT !.result = r, !.evidence = "failed"])
           ELSE Throws(m)
  BY DEF NoServerToRunOn
<1>0. /\ pc = "gate" /\ pc \in Working /\ m \in Memories /\ m.gate \in 1..7
      /\ UNCHANGED <<run, server, strays>> /\ mishaps' \in 0..MaxMishaps
      /\ Gate \in Browser /\ server = "none" /\ ~Ending /\ ~Seeded
      /\ run \in strays => m.status = "failed"
  BY <1>1, Price, Counted, Fresh
     DEF NoServerToRunOn, Working, IInv, Typed, Memories, Ending, Outer, Marking
<1>2. m.gate > Boot /\ m.attempt # "none"
  BY <1>0, GateOrder DEF Gate, IInv, Local, Normal
<1>3. r \in Results /\ Status(r) = "failed"
  BY DEF Results, Status
<1> HIDE DEF r
<1>4. CASE ok
  <2>1. pc' = "returned" /\ m' = [m EXCEPT !.result = r, !.evidence = "failed"]
    BY <1>1, <1>4 DEF Goes
  <2>2. /\ m' \in Memories /\ m'.mode = m.mode /\ m'.gate = m.gate /\ m'.phase = m.phase
        /\ m'.status = m.status /\ m'.attempt = m.attempt /\ m'.attributable = m.attributable
        /\ m'.durable = m.durable /\ m'.result = r /\ m'.evidence = "failed"
    BY <1>0, <1>3, <2>1 DEF Memories, Statuses
  <2> QED
    BY <1>0, <1>1, <1>2, <1>3, <1>4, <2>1, <2>2, Recorded DEF Setup
<1>5. CASE ~ok
  BY <1>0, <1>1, <1>5, Thrown DEF Outer, Marking, Writes
<1> QED
  BY <1>4, <1>5

LEMMA BootFailedStep ==
  ASSUME IInv, BootFailed
  PROVE  IInv'
<1>1. PICK ok \in BOOLEAN :
        /\ Costs(Cost(ok)) /\ Writes(GateRecord(Failed), ok)
        /\ IF ok THEN Goes("returned", [m EXCEPT !.result = Failed, !.evidence = "failed",
                                                 !.reaped = TRUE])
           ELSE Throws(m)
  BY DEF BootFailed
<1>0. /\ pc = "bootFailed" /\ pc \in Working /\ m \in Memories
      /\ UNCHANGED <<run, server, strays>> /\ mishaps' \in 0..MaxMishaps
      /\ m.gate = Boot /\ server = "none" /\ ~Ending /\ ~Seeded /\ InGate
      /\ run \in strays => m.status = "failed"
  BY <1>1, Price, Counted, Fresh
     DEF BootFailed, Working, IInv, Typed, Memories, Local, Places, Servers, Ending, Outer,
         Marking, Transfer,
         InGate, Judged
<1>2. m.attempt # "none"
  BY <1>0 DEF IInv, Local, Normal
<1>3. CASE ok
  <2>1. pc' = "returned" /\ m' = [m EXCEPT !.result = Failed, !.evidence = "failed", !.reaped = TRUE]
    BY <1>1, <1>3 DEF Goes
  <2>2. /\ m' \in Memories /\ m'.mode = m.mode /\ m'.gate = m.gate /\ m'.phase = m.phase
        /\ m'.status = m.status /\ m'.attempt = m.attempt /\ m'.attributable = m.attributable
        /\ m'.durable = m.durable /\ m'.evidence = "failed"
    BY <1>0, <2>1, Meant DEF Memories, Statuses
  <2> QED
    BY <1>0, <1>1, <1>2, <1>3, <2>1, <2>2, Recorded, Meant DEF Setup, Boot
<1>4. CASE ~ok
  BY <1>0, <1>1, <1>4, Thrown DEF Outer, Marking, Writes
<1> QED
  BY <1>3, <1>4

(* A file of the attempt is of the attempt of this run.                      *)
LEMMA AttemptWrites ==
  ASSUME disk \in Disks, run \in Runs, NEW ok \in BOOLEAN,
         NEW a \in [authority : Statuses \cup {"none", "pending"},
                    terminal : Statuses \cup {"none"}, candidate : BOOLEAN],
         Writes([disk EXCEPT !.attempts[run] = a], ok)
  PROVE  /\ disk' \in Disks
         /\ disk'.gates = disk.gates /\ disk'.mutated = disk.mutated
         /\ disk'.seeds = disk.seeds /\ disk'.result = disk.result
         /\ \A r \in Runs : disk'.attempts[r] = IF ok /\ r = run THEN a ELSE disk.attempts[r]
<1>1. CASE ok
  <2>1. disk' = [disk EXCEPT !.attempts[run] = a]
    BY <1>1 DEF Writes
  <2>2. disk'.attempts = [disk.attempts EXCEPT ![run] = a]
    BY <2>1 DEF Disks
  <2> QED
    BY <1>1, <2>1, <2>2 DEF Disks
<1>2. CASE ~ok
  BY <1>2 DEF Writes
<1> QED
  BY <1>1, <1>2

(* The transfer of the server, one file after the other                      *)
LEMMA TransferSteps ==
  ASSUME IInv, \/ CreatePendingAttemptAuthority \/ StageAttemptCandidate
               \/ WriteTerminalAttemptResult \/ FinalizeAttemptAuthority
  PROVE  IInv'
<1>0. /\ pc \in {"pending", "stage", "terminal", "finalize"} /\ pc \in Judged /\ m \in Memories
      /\ UNCHANGED <<run, server, strays>> /\ ~Seeded /\ run \in Runs /\ disk \in Disks
      /\ m.gate = Boot /\ pc \in Working
      /\ pc = "pending" => server = "none" /\ m.evidence = "none"
      /\ run \in strays => m.status = "failed"
  BY DEF CreatePendingAttemptAuthority, StageAttemptCandidate, WriteTerminalAttemptResult,
         FinalizeAttemptAuthority, Judged, Transfer, Marking, Working, IInv, Typed, Local,
         Places, Servers,
         Evident, Left, Stories, Numbered
<1>1. mishaps' \in 0..MaxMishaps
  BY Price, Counted DEF CreatePendingAttemptAuthority, StageAttemptCandidate,
         WriteTerminalAttemptResult, FinalizeAttemptAuthority, IInv, Typed
<1>2. Mine \in [authority : Statuses \cup {"none", "pending"},
                terminal : Statuses \cup {"none"}, candidate : BOOLEAN]
  BY <1>0 DEF Mine, Disks
<1>3. CASE pc' = "markTerminal"
  <2>1. /\ disk' = disk
        /\ \/ pc \in {"pending", "serve"} /\ MarkAttemptFailed("bootFailed", m)
           \/ pc \in Transfer /\ MarkAttemptFailed("stop", m)
    BY <1>3 DEF CreatePendingAttemptAuthority, StageAttemptCandidate,
         WriteTerminalAttemptResult, FinalizeAttemptAuthority, Goes, Writes, Transfer
  <2> QED
    BY <1>0, <1>1, <2>1, MarkedInGate
<1>4. CASE pc' # "markTerminal"
  <2>1. /\ m' = m
        /\ pc' = CASE pc = "pending" -> "serve" [] pc = "stage" -> "terminal"
                   [] pc = "terminal" -> "finalize" [] pc = "finalize" -> "decide"
    BY <1>4 DEF CreatePendingAttemptAuthority, StageAttemptCandidate,
         WriteTerminalAttemptResult, FinalizeAttemptAuthority, Goes, MarkAttemptFailed
  <2>2. /\ pc' \in {"serve", "terminal", "finalize", "decide"} /\ pc' \in Judged
        /\ pc' = "serve" <=> pc = "pending"
    BY <1>0, <2>1 DEF Judged, Transfer
  <2>3. PICK a \in [authority : Statuses \cup {"none", "pending"},
                    terminal : Statuses \cup {"none"}, candidate : BOOLEAN], ok \in BOOLEAN :
          Writes([disk EXCEPT !.attempts[run] = a], ok)
    <3>1. CASE CreatePendingAttemptAuthority
      <4>1. [Mine EXCEPT !.authority = "pending"] \in
              [authority : Statuses \cup {"none", "pending"},
               terminal : Statuses \cup {"none"}, candidate : BOOLEAN]
        BY <1>2
      <4> QED
        BY <3>1, <4>1 DEF CreatePendingAttemptAuthority, Mine
    <3>2. CASE StageAttemptCandidate
      <4>1. [Mine EXCEPT !.candidate = TRUE] \in
              [authority : Statuses \cup {"none", "pending"},
               terminal : Statuses \cup {"none"}, candidate : BOOLEAN]
        BY <1>2
      <4> QED
        BY <3>2, <4>1 DEF StageAttemptCandidate, Mine
    <3>3. CASE WriteTerminalAttemptResult
      <4>1. [Mine EXCEPT !.terminal = "passed"] \in
              [authority : Statuses \cup {"none", "pending"},
               terminal : Statuses \cup {"none"}, candidate : BOOLEAN]
        BY <1>2 DEF Statuses
      <4> QED
        BY <3>3, <4>1 DEF WriteTerminalAttemptResult, Mine
    <3>4. CASE FinalizeAttemptAuthority
      <4>1. [Mine EXCEPT !.authority = "passed"] \in
              [authority : Statuses \cup {"none", "pending"},
               terminal : Statuses \cup {"none"}, candidate : BOOLEAN]
        BY <1>2 DEF Statuses
      <4> QED
        BY <3>4, <4>1 DEF FinalizeAttemptAuthority, Mine
    <3> QED
      BY <3>1, <3>2, <3>3, <3>4
  <2>4. /\ disk' \in Disks
        /\ disk'.gates = disk.gates /\ disk'.mutated = disk.mutated
        /\ disk'.seeds = disk.seeds /\ disk'.result = disk.result
    BY <1>0, <2>3, AttemptWrites
  <2>5. /\ Typed' /\ Normal' /\ Seeds' /\ Stories'
        /\ Gate' = Gate /\ Trial' = Trial /\ Seeded' = Seeded
    BY <1>0, <1>1, <2>1, <2>2, <2>4, GoesOnMarked DEF IInv, Typed
  <2>6. Places' /\ Servers' /\ Left'
    BY <1>0, <2>1, <2>2, <2>5
       DEF IInv, Local, Places, Servers, Left, Transfer, Marking, Setup, Boot
  <2>7. Evident'
    BY <1>0, <2>1, <2>2, <2>4, <2>5 DEF IInv, Local, Evident, Transfer, Has, InGate, Marking
  <2> QED
    BY <2>5, <2>6, <2>7 DEF IInv, Local
<1> QED
  BY <1>3, <1>4

LEMMA SelectPortStep ==
  ASSUME IInv, SelectPortFails
  PROVE  IInv'
<1>1. /\ pc = "serve" /\ pc \in Working /\ UNCHANGED <<disk, run, server, strays>>
      /\ server = "none" /\ mishaps' \in 0..MaxMishaps
  BY Counted DEF SelectPortFails, Working, IInv, Typed, Local, Servers, Transfer, Marking
<1>2. IF Seeded THEN Throws(m) ELSE MarkAttemptFailed("bootFailed", m)
  BY DEF SelectPortFails
<1>3. CASE Seeded
  BY <1>1, <1>2, <1>3, Thrown DEF Outer, Marking
<1>4. CASE ~Seeded
  BY <1>1, <1>2, <1>4, MarkedInGate
<1> QED
  BY <1>3, <1>4

(* The server is handed over: the gate returns with it.                      *)
LEMMA DecideTransferStep ==
  ASSUME IInv, DecideTransfer
  PROVE  IInv'
<1>0. /\ pc = "decide" /\ pc \in Working /\ m \in Memories /\ run \in Runs
      /\ UNCHANGED <<disk, run, server, strays>> /\ mishaps' \in 0..MaxMishaps
      /\ m.gate = Boot /\ ~Seeded /\ server # "none" /\ m.evidence = "passed"
      /\ Has(m.phase, Gate, "passed") /\ ~m.durable
      /\ run \in strays => m.status = "failed"
  BY Price, Counted DEF DecideTransfer, Working, IInv, Typed, Local, Places, Evident, Left,
                        InGate,
         Judged, Transfer, Stories, Numbered
<1>1. CASE pc' = "markTerminal"
  <2>1. MarkAttemptFailed("stop", m)
    BY <1>1 DEF DecideTransfer, Goes
  <2> QED
    BY <1>0, <2>1, MarkedInGate DEF Transfer
<1>2. CASE pc' # "markTerminal"
  <2>1. pc' = "returned" /\ m' = [m EXCEPT !.attempt = "passed", !.clean = FALSE]
    BY <1>2 DEF DecideTransfer, Goes, MarkAttemptFailed
  <2>2. /\ m' \in Memories /\ m'.mode = m.mode /\ m'.gate = m.gate /\ m'.phase = m.phase
        /\ m'.status = m.status /\ m'.attempt = "passed" /\ m'.durable = m.durable
        /\ m'.evidence = m.evidence /\ m'.attributable = m.attributable
    BY <1>0, <2>1 DEF Memories, Statuses
  <2>3. /\ Gate' = Gate /\ Trial' = Trial /\ Seeded' = Seeded /\ pc' \in Working
        /\ InGate /\ ~Ending /\ InGate' /\ ~Ending'
    BY <1>0, <2>1, <2>2 DEF Gate, Trial, Seeded, InGate, Ending, Outer, Marking, Judged,
                            Transfer, Working
  <2>4. Typed'
    BY <1>0, <2>2, <2>3 DEF IInv, Typed
  <2>5. Places' /\ Servers' /\ Left'
    BY <1>0, <2>1, <2>2, <2>3
       DEF IInv, Local, Places, Servers, Left, Transfer, Marking, Setup, Boot
  <2>6. Evident'
    BY <1>0, <2>1, <2>2, <2>3 DEF Evident, Transfer, Has, Marking
  <2>7. Normal' /\ Seeds'
    BY <1>0, <2>1, <2>2, <2>3 DEF IInv, Local, Normal, Seeds, Has, Boot
  <2>8. Stories'
    BY <1>0, <2>2, <2>3, StoriesKept DEF IInv, Typed
  <2> QED
    BY <2>4, <2>5, <2>6, <2>7, <2>8 DEF IInv, Local
<1> QED
  BY <1>1, <1>2

(* Both marks of a failed attempt, and back.                                 *)
LEMMA MarkSteps ==
  ASSUME IInv, MarkTerminal \/ MarkAuthority
  PROVE  IInv'
<1>0. /\ pc \in Marking /\ pc \in Working /\ m \in Memories /\ run \in Runs
      /\ UNCHANGED <<run, server, strays>> /\ disk \in Disks /\ ~Seeded
      /\ m.back \in {"stop", "bootFailed", "report", "reportAgain"} /\ m.attempt = "failed"
      /\ m.back \in {"stop", "bootFailed"} => m.gate = Boot
      /\ m.back = "reportAgain" => m.status = "failed"
      /\ pc' = IF pc = "markTerminal" THEN "markAuthority" ELSE m.back
      /\ m' = IF pc = "markTerminal" THEN m ELSE [m EXCEPT !.back = "begin"]
  BY DEF MarkTerminal, MarkAuthority, Goes, Marking, Working, IInv, Typed, Local, Places,
         Stories, Numbered
<1>1. mishaps' \in 0..MaxMishaps
  <2>1. \A ok \in BOOLEAN : Cost(ok \/ Mine.authority = "none") \in Nat
    BY DEF Cost
  <2> QED
    BY <2>1, Counted DEF MarkTerminal, MarkAuthority, IInv, Typed
<1>2. Mine \in [authority : Statuses \cup {"none", "pending"},
                terminal : Statuses \cup {"none"}, candidate : BOOLEAN]
  BY <1>0 DEF Mine, Disks
<1>3. PICK a \in [authority : Statuses \cup {"none", "pending"},
                  terminal : Statuses \cup {"none"}, candidate : BOOLEAN], ok \in BOOLEAN :
        Writes([disk EXCEPT !.attempts[run] = a], ok)
  <2>1. CASE MarkTerminal
    <3>1. [Mine EXCEPT !.terminal = "failed"] \in
            [authority : Statuses \cup {"none", "pending"},
             terminal : Statuses \cup {"none"}, candidate : BOOLEAN]
      BY <1>2 DEF Statuses
    <3> QED
      BY <2>1, <3>1 DEF MarkTerminal, Mine
  <2>2. CASE MarkAuthority
    <3>1. [Mine EXCEPT !.authority = "failed"] \in
            [authority : Statuses \cup {"none", "pending"},
             terminal : Statuses \cup {"none"}, candidate : BOOLEAN]
      BY <1>2 DEF Statuses
    <3> QED
      BY <2>2, <3>1 DEF MarkAuthority, Mine
  <2> QED
    BY <2>1, <2>2
<1>4. /\ disk' \in Disks
      /\ disk'.gates = disk.gates /\ disk'.mutated = disk.mutated
      /\ disk'.seeds = disk.seeds /\ disk'.result = disk.result
  BY <1>0, <1>3, AttemptWrites
<1>5. /\ m' \in Memories /\ m'.mode = m.mode /\ m'.gate = m.gate /\ m'.phase = m.phase
      /\ m'.status = m.status /\ m'.attempt = "failed" /\ m'.durable = m.durable
      /\ m'.evidence = m.evidence /\ m'.clean = m.clean
      /\ pc = "markTerminal" => m'.back = m.back
  BY <1>0 DEF Memories, Working
<1>6. /\ Gate' = Gate /\ Trial' = Trial /\ Seeded' = Seeded /\ pc' \in Working
      /\ pc' \in Marking => pc = "markTerminal" /\ pc' = "markAuthority"
      /\ InGate' = InGate /\ Ending' = Ending
      /\ InGate <=> m.back \in {"stop", "bootFailed"}
      /\ Ending <=> m.back \in {"report", "reportAgain"}
  BY <1>0, <1>5 DEF Gate, Trial, Seeded, InGate, Ending, Outer, Marking, Judged, Transfer,
                    Working
<1>7. run \in strays => m.status = "failed"
  BY <1>0 DEF IInv, Local, Left, Marking
<1>8. Ending => m.status = "failed"
  BY <1>0 DEF IInv, Local, Normal, Typed, Memories, Statuses
<1>9. Typed'
  BY <1>0, <1>1, <1>4, <1>5, <1>6 DEF IInv, Typed
<1>10. Places'
  BY <1>0, <1>5, <1>6 DEF IInv, Local, Places, Transfer, Marking, Setup, Boot
<1>11. Servers' /\ Left'
  BY <1>0, <1>5, <1>6, <1>7 DEF IInv, Local, Servers, Left, Transfer, Marking
<1>12. Evident'
  BY <1>0, <1>4, <1>5, <1>6 DEF IInv, Local, Evident, Transfer, Has, Marking
<1>13. Normal' /\ Seeds'
  BY <1>0, <1>4, <1>5, <1>6, <1>8 DEF IInv, Local, Normal, Seeds, Has, Boot, Marking
<1>14. Stories'
  BY <1>0, <1>4, <1>5, <1>6, StoriesKept
<1> QED
  BY <1>9, <1>10, <1>11, <1>12, <1>13, <1>14 DEF IInv, Local

(* After a gate *)
LEMMA NormalReturns ==
  ASSUME IInv, NormalGateReturns
  PROVE  IInv'
<1>0. /\ pc = "returned" /\ pc \in Working /\ m \in Memories /\ run \in Runs /\ m.gate \in 1..7
      /\ UNCHANGED <<disk, run, server, strays, mishaps>> /\ ~Seeded
      /\ m.phase = "normal" /\ m.evidence # "none" /\ ~m.durable /\ m.status = "passed"
      /\ m.evidence = "passed" => Has("normal", Gate, "passed")
      /\ run \in strays => m.evidence # "passed"
      /\ ~Ending /\ Len(GATE_IDS) = 7
      /\ m.gate >= Boot => m.attempt # "none"
      /\ m.gate > Boot /\ server = "none" => m.evidence = "failed"
      /\ server # "none" => m.gate >= Boot
      /\ \A i \in 1..7 : i < m.gate => Has("normal", GATE_IDS[i], "passed")
  BY GateOrder
     DEF NormalGateReturns, Working, IInv, Typed, Memories, Local, Places, Servers,
         Evident, Normal, Left,
         InGate, Judged, Ending, Outer, Marking, Transfer, Stories, Numbered, Boot, Seeded
<1>1. m.evidence \in {"passed", "failed"}
  BY <1>0 DEF Memories, Statuses
<1>2. /\ pc' = IF m.evidence = "failed" \/ m.gate = 7 THEN "finally" ELSE "gate"
      /\ m' = IF m.evidence = "failed" THEN [m EXCEPT !.status = "failed"]
              ELSE IF m.gate = 7 THEN m ELSE [m EXCEPT !.gate = @ + 1]
  BY <1>0 DEF NormalGateReturns, Goes
<1>3. /\ m'.mode = m.mode /\ m'.phase = m.phase /\ m'.attempt = m.attempt
      /\ m'.durable = m.durable /\ m' \in Memories
      /\ m'.status = IF m.evidence = "failed" THEN "failed" ELSE "passed"
      /\ m'.gate = IF m.evidence = "failed" \/ m.gate = 7 THEN m.gate ELSE m.gate + 1
  BY <1>0, <1>1, <1>2 DEF Memories, Statuses
<1>4. /\ Trial' = Trial /\ Seeded' = Seeded /\ pc' \in Working /\ ~InGate' /\ ~Ending'
  BY <1>2, <1>3 DEF Trial, Seeded, InGate, Ending, Outer, Marking, Judged, Transfer, Working
<1>5. Typed'
  BY <1>0, <1>3, <1>4 DEF IInv, Typed
<1>6. Places' /\ Servers' /\ Left' /\ Evident'
  BY <1>0, <1>1, <1>2, <1>3, <1>4
     DEF IInv, Local, Places, Servers, Left, Evident, Transfer, Marking, Setup, Boot
<1>7. Normal'
  <2>1. \A i \in 1..7 : i < m'.gate => Has("normal", GATE_IDS[i], "passed")
    BY <1>0, <1>1, <1>3 DEF Gate
  <2>2. m.evidence # "failed" /\ m.gate = 7 => \A g \in Gates : Has("normal", g, "passed")
    <3> SUFFICES ASSUME m.evidence = "passed", m.gate = 7, NEW g \in Gates
                 PROVE  Has("normal", g, "passed")
      BY <1>1
    <3>1. PICK i \in 1..7 : GATE_IDS[i] = g
      BY GateOrder
    <3> QED
      BY <1>0, <3>1 DEF Gate
  <2> QED
    <3>1. /\ m'.gate > Boot => m'.attempt # "none"
          /\ pc' \in {"finally", "gate"} /\ (pc' = "gate" => m'.status = "passed")
      BY <1>0, <1>1, <1>2, <1>3 DEF Boot
    <3>2. pc' = "finally" /\ m'.status = "passed" =>
            m.evidence # "failed" /\ m.gate = 7 /\ server' # "none" /\ m'.attempt # "none"
      BY <1>0, <1>1, <1>2, <1>3 DEF Boot
    <3>3. \A g \in Gates : Has("normal", g, "passed")' <=> Has("normal", g, "passed")
      BY <1>0 DEF Has
    <3>4. \A i \in 1..7 : i < m'.gate => Has("normal", GATE_IDS[i], "passed")'
      BY <1>0, <2>1 DEF Has
    <3>5. pc' = "finally" /\ m'.status = "passed" => \A g \in Gates : Has("normal", g, "passed")'
      BY <2>2, <3>2, <3>3
    <3> QED
      BY <1>4, <3>1, <3>2, <3>4, <3>5 DEF Normal, Marking
<1>8. Seeds'
  BY <1>0, <1>4 DEF Seeds
<1>9. Stories'
  BY <1>0, <1>3, <1>4, StoriesKept DEF IInv, Typed
<1> QED
  BY <1>5, <1>6, <1>7, <1>8, <1>9 DEF IInv, Local

LEMMA BaselineStep ==
  ASSUME IInv, BaselineReturns
  PROVE  IInv'
<1>0. /\ pc = "returned" /\ pc \in Working /\ m \in Memories /\ run \in Runs
      /\ UNCHANGED <<disk, run, server, strays, mishaps>> /\ Seeded /\ ~Trial /\ server = "none"
      /\ m.phase = "baseline" /\ InGate /\ mishaps \in 0..MaxMishaps
      /\ run \in strays => m.evidence # "passed" \/ m.status = "failed"
  BY DEF BaselineReturns, Working, IInv, Typed, Memories, Local, Places, Servers, Left,
         Trial, Seeded,
         InGate, Judged, Transfer, Marking, Stories, Numbered
<1>1. CASE m.evidence # "passed"
  BY <1>0, <1>1, Thrown DEF BaselineReturns, Outer, Marking
<1>2. CASE m.evidence = "passed"
  <2>1. pc' = "mutate" /\ m' = m /\ pc' \in Working /\ ~InGate' /\ ~Ending'
    BY <1>2 DEF BaselineReturns, Goes, Working, InGate, Ending, Outer, Marking, Judged, Transfer
  <2>2. Gate' = Gate /\ Trial' = Trial /\ Seeded' = Seeded
    BY <2>1 DEF Gate, Trial, Seeded
  <2>3. Has("baseline", Gate, "passed")
    BY <1>0, <1>2 DEF IInv, Local, Evident
  <2>4. Typed'
    BY <1>0, <2>1 DEF IInv, Typed
  <2>5. Places' /\ Servers' /\ Left' /\ Evident'
    BY <1>0, <1>2, <2>1, <2>2
       DEF IInv, Local, Places, Servers, Left, Evident, Transfer, Marking, Setup, Boot
  <2>6. Normal' /\ Seeds'
    BY <1>0, <2>1, <2>2, <2>3 DEF IInv, Local, Normal, Seeds, Has, Counts
  <2>7. Stories'
    BY <1>0, <2>1, StoriesKept DEF IInv, Typed
  <2> QED
    BY <2>4, <2>5, <2>6, <2>7 DEF IInv, Local
<1> QED
  BY <1>1, <1>2

LEMMA ApplyMutationStep ==
  ASSUME IInv, ApplyMutation
  PROVE  IInv'
<1>1. PICK ok \in BOOLEAN :
        /\ Costs(Cost(ok)) /\ Writes([disk EXCEPT !.mutated[Gate] = run], ok)
        /\ IF ok THEN Goes("gate", [m EXCEPT !.phase = "trial"]) ELSE Throws(m)
  BY DEF ApplyMutation
<1>0. /\ pc = "mutate" /\ pc \in Working /\ m \in Memories /\ run \in Runs /\ disk \in Disks
      /\ UNCHANGED <<run, server, strays>> /\ mishaps' \in 0..MaxMishaps
      /\ Seeded /\ server = "none" /\ ~InGate /\ ~Ending /\ m.mode = "seeded"
      /\ Has("baseline", Gate, "passed") /\ ~m.attributable /\ Gate \in Gates
      /\ run \in strays => m.status = "failed"
  BY <1>1, Price, Counted, OwnSeed
     DEF ApplyMutation, Working, IInv, Typed, Local, Places, Servers, Left, Seeds, Seeded,
         InGate, Ending,
         Outer, Judged, Transfer, Marking, Stories, Numbered
<1>2. CASE ok
  <2>1. /\ disk' = [disk EXCEPT !.mutated[Gate] = run]
        /\ pc' = "gate" /\ m' = [m EXCEPT !.phase = "trial"]
    BY <1>1, <1>2 DEF Writes, Goes
  <2>2. /\ disk' \in Disks /\ disk'.gates = disk.gates /\ disk'.seeds = disk.seeds
        /\ disk'.result = disk.result /\ disk'.attempts = disk.attempts
        /\ disk'.mutated = [disk.mutated EXCEPT ![Gate] = run]
    <3>1. disk'.mutated = [disk.mutated EXCEPT ![Gate] = run]
      BY <1>0, <2>1 DEF Disks
    <3>2. run \in 0..MaxRuns /\ disk.mutated \in [Gates -> 0..MaxRuns]
      BY <1>0 DEF Disks, IInv, Typed
    <3>3. disk'.mutated \in [Gates -> 0..MaxRuns]
      BY <3>1, <3>2
    <3> QED
      BY <1>0, <2>1, <3>1, <3>3 DEF Disks
  <2>3. /\ disk'.mutated[Gate] = run
        /\ \A g \in Gates : g # Gate => disk'.mutated[g] = disk.mutated[g]
    BY <1>0, <2>2 DEF Disks
  <2>4. /\ m' \in Memories /\ m'.mode = m.mode /\ m'.gate = m.gate /\ m'.phase = "trial"
        /\ m'.status = m.status /\ m'.attempt = m.attempt /\ m'.attributable = m.attributable
    BY <1>0, <2>1 DEF Memories
  <2>5. /\ Gate' = Gate /\ Trial' /\ Seeded' /\ pc' \in Working /\ ~InGate' /\ ~Ending'
    BY <1>0, <2>1, <2>4 DEF Gate, Trial, Seeded, Working, InGate, Ending, Outer, Marking,
                            Judged, Transfer
  <2>6. Typed'
    BY <1>0, <2>2, <2>4, <2>5 DEF IInv, Typed
  <2>7. Places' /\ Servers' /\ Left' /\ Evident'
    BY <1>0, <2>1, <2>4, <2>5
       DEF IInv, Local, Places, Servers, Left, Evident, Transfer, Marking, Setup, Boot
  <2>8. Normal' /\ Seeds'
    BY <1>0, <2>1, <2>2, <2>3, <2>4, <2>5 DEF IInv, Local, Normal, Seeds, Has, Counts
  <2>9. Stories'
    BY <1>0, <2>2, <2>3, <2>4, <2>5, OwnSeed, StoriesKept
  <2> QED
    BY <2>6, <2>7, <2>8, <2>9 DEF IInv, Local
<1>3. CASE ~ok
  BY <1>0, <1>1, <1>3, Thrown DEF Outer, Marking, Writes
<1> QED
  BY <1>2, <1>3

LEMMA TrialStep ==
  ASSUME IInv, TrialReturns
  PROVE  IInv'
<1>1. /\ pc = "returned" /\ pc \in Working /\ m \in Memories /\ run \in Runs /\ Trial
      /\ UNCHANGED <<disk, run, server, strays, mishaps>> /\ pc' = "seedEnd"
      /\ m' = [m EXCEPT !.attributable = /\ m.evidence = "failed"
                                         /\ m.result.exit = "1"
                                         /\ ~m.result.timedOut]
  BY DEF TrialReturns, Goes, Working, IInv, Typed, Stories, Numbered
<1>2. /\ m' \in Memories /\ m'.mode = m.mode /\ m'.gate = m.gate /\ m'.phase = m.phase
      /\ m'.status = m.status /\ m'.attempt = m.attempt /\ m'.durable = m.durable
      /\ m'.attributable => m.evidence = "failed" /\ ~m.result.timedOut
  BY <1>1 DEF Memories
<1>3. Seeded /\ server = "none" /\ m.phase = "trial"
  BY <1>1 DEF IInv, Typed, Memories, Local, Places, Servers, Seeded, Trial, Transfer, Marking
<1>4. /\ Gate' = Gate /\ Trial' /\ Seeded' /\ pc' \in Working /\ ~InGate' /\ ~Ending'
  BY <1>1, <1>2, <1>3 DEF Gate, Trial, Seeded, Working, InGate, Ending, Outer, Marking,
                          Judged, Transfer
<1>5. Typed'
  BY <1>1, <1>2, <1>4 DEF IInv, Typed
<1>6. Places' /\ Servers' /\ Left' /\ Evident'
  BY <1>1, <1>2, <1>3, <1>4
     DEF IInv, Local, Places, Servers, Left, Evident, Transfer, Marking, Setup, Boot
<1>7. Normal' /\ Seeds'
  <2>1. m'.attributable => m.gate = Boot \/ Has("trial", Gate, "failed")
    BY <1>1, <1>2, <1>3 DEF IInv, Local, Evident
  <2> QED
    BY <1>1, <1>2, <1>3, <1>4, <2>1 DEF IInv, Local, Normal, Seeds, Has, Counts
<1>8. Stories'
  BY <1>1, <1>2, <1>4, StoriesKept DEF IInv, Typed
<1> QED
  BY <1>5, <1>6, <1>7, <1>8 DEF IInv, Local

LEMMA EndSeedStep ==
  ASSUME IInv, EndSeed
  PROVE  IInv'
<1>1. PICK removed \in BOOLEAN, ok \in BOOLEAN :
       LET passed == m.attributable /\ removed /\ m.reaped
           status == IF passed THEN m.status ELSE "failed"
           next   == [Memory("seeded") EXCEPT !.status = status, !.gate = m.gate + 1]
       IN  /\ Costs(Cost(removed) + Cost(ok))
           /\ Writes([disk EXCEPT !.seeds[Gate] =
                        [by |-> run, status |-> IF passed THEN "passed" ELSE "failed"]], ok)
           /\ IF ~ok THEN Ends("exit1")
              ELSE IF m.gate < Len(GATE_IDS) THEN Goes("begin", next)
              ELSE Goes("report", [next EXCEPT !.gate = 1])
  BY DEF EndSeed
<1> DEFINE passed == m.attributable /\ removed /\ m.reaped
           status == IF passed THEN m.status ELSE "failed"
           R      == [by |-> run, status |-> IF passed THEN "passed" ELSE "failed"]
<1>2. mishaps' \in 0..MaxMishaps
  <2>1. Cost(removed) + Cost(ok) \in Nat
    BY DEF Cost
  <2> QED
    BY <1>1, <2>1, Counted DEF IInv, Typed
<1>0. /\ pc = "seedEnd" /\ pc \in Working /\ m \in Memories /\ run \in Runs /\ disk \in Disks
      /\ UNCHANGED <<run, server, strays>> /\ server = "none" /\ Seeded /\ m.gate \in 1..7
      /\ Gate \in Gates /\ disk.seeds[Gate].by # run
      /\ m.attributable => /\ Trial /\ Has("baseline", Gate, "passed") /\ disk.mutated[Gate] = run
                           /\ Gate = "boot" \/ Has("trial", Gate, "failed")
      /\ run \in strays => m.status = "failed" \/ ~m.attributable
      /\ Len(GATE_IDS) = 7
  BY OwnSeed, GateOrder
     DEF EndSeed, Working, IInv, Typed, Memories, Local, Places, Servers, Seeds, Left,
         Transfer, Marking,
         Stories, Numbered, Gate
<1>3. CASE ~ok
  BY <1>0, <1>1, <1>2, <1>3, Died DEF Writes
<1>4. CASE ok
  <2>1. /\ disk' = [disk EXCEPT !.seeds[Gate] = R]
        /\ pc' = IF m.gate < 7 THEN "begin" ELSE "report"
        /\ m' = [Memory("seeded") EXCEPT !.status = status,
                                         !.gate = IF m.gate < 7 THEN m.gate + 1 ELSE 1]
    BY <1>0, <1>1, <1>4 DEF Writes, Goes, Memory
  <2>2. R \in Records /\ status \in Statuses /\ (status = "passed" => passed /\ m.status = "passed")
    BY <1>0 DEF Records, Statuses, Runs, Memories
  <2>3. /\ run \in strays => status = "failed"
        /\ passed => m.attributable
        /\ R.by = run /\ (R.status = "passed" <=> passed)
    BY <1>0
  <2> HIDE DEF R, status, passed
  <2>4. /\ m' \in Memories /\ m'.mode = "seeded" /\ m'.phase = "baseline" /\ m'.status = status
        /\ m'.gate = (IF m.gate < 7 THEN m.gate + 1 ELSE 1)
        /\ m'.attempt = "none" /\ ~m'.attributable /\ ~m'.durable
    <3> DEFINE fresh == Memory("seeded")
    <3>1. /\ fresh \in Memories /\ fresh.mode = "seeded" /\ fresh.phase = "baseline"
          /\ fresh.attempt = "none" /\ ~fresh.attributable /\ ~fresh.durable
      BY Meant DEF Memory, Memories, Statuses, Working
    <3> HIDE DEF fresh
    <3> DEFINE n == IF m.gate < 7 THEN m.gate + 1 ELSE 1
    <3>2. m' = [fresh EXCEPT !.status = status, !.gate = n] /\ n \in 1..7
      BY <1>0, <2>1 DEF fresh
    <3> HIDE DEF n
    <3>3. m' \in Memories /\ m'.mode = "seeded" /\ m'.phase = "baseline" /\ m'.status = status
      BY <2>2, <3>1, <3>2 DEF Memories
    <3>4. m'.gate = n /\ m'.attempt = "none" /\ ~m'.attributable /\ ~m'.durable
      BY <3>1, <3>2 DEF Memories
    <3> QED
      BY <3>3, <3>4 DEF n
  <2>5. /\ disk' \in Disks /\ disk'.gates = disk.gates /\ disk'.attempts = disk.attempts
        /\ disk'.result = disk.result /\ disk'.mutated = disk.mutated
        /\ \A g \in Gates : disk'.seeds[g] = IF g = Gate THEN R ELSE disk.seeds[g]
    <3>1. disk'.seeds = [disk.seeds EXCEPT ![Gate] = R]
      BY <1>0, <2>1 DEF Disks
    <3> QED
      BY <1>0, <2>1, <2>2, <3>1 DEF Disks
  <2>6. /\ Seeded' /\ ~Trial' /\ pc' \in Working /\ ~InGate'
        /\ pc' \in {"begin", "report"} /\ (pc' = "report" <=> m.gate = 7)
    BY <1>0, <2>1, <2>4 DEF Seeded, Trial, Working, InGate, Judged, Transfer, Marking
  <2>7. Typed'
    BY <1>0, <1>2, <2>4, <2>5, <2>6 DEF IInv, Typed
  <2>8. Places' /\ Servers' /\ Left' /\ Evident'
    BY <1>0, <2>1, <2>3, <2>4, <2>6
       DEF Places, Servers, Left, Evident, Transfer, Marking, Setup, Boot, Seeded
  <2>9. Seeds'
    <3>1. \A i \in 1..7 : i < m.gate /\ m.status = "passed" => Counts(GATE_IDS[i])
      BY <1>0 DEF IInv, Local, Seeds
    <3>2. \A i \in 1..7 : i > m.gate => disk.seeds[GATE_IDS[i]].by # run
      BY <1>0 DEF IInv, Local, Seeds
    <3>3. \A i \in 1..7 : /\ GATE_IDS[i] \in Gates
                          /\ GATE_IDS[i] = Gate <=> i = m.gate
      BY <1>0, GateOrder DEF Gate
    <3>4. status = "passed" => disk'.seeds[Gate] = [by |-> run, status |-> "passed"]
      BY <1>0, <2>2, <2>5 DEF R
    <3>5. \A i \in 1..7 : i <= m.gate /\ status = "passed" => Counts(GATE_IDS[i])'
      BY <1>0, <2>2, <2>5, <3>1, <3>3, <3>4 DEF Counts
    <3>6. \A i \in 1..7 : i > m.gate => disk'.seeds[GATE_IDS[i]].by # run
      BY <1>0, <2>5, <3>2, <3>3
    <3>7. m.gate = 7 /\ status = "passed" => \A g \in Gates : Counts(g)'
      BY <1>0, <3>5, GateOrder
    <3> QED
      BY <1>0, <2>4, <2>6, <3>5, <3>6, <3>7 DEF Seeds
  <2>10. Normal'
    BY <2>6 DEF Normal
  <2>11. Numbered'
    BY <1>0, <2>3, <2>5, <2>6 DEF IInv, Stories, Numbered, Working, Ended, Runs
  <2>12. PassIsEarned' /\ ExitTellsEvidence' /\ NothingLeftBehind'
    BY <1>0, <2>5, <2>6
       DEF IInv, Stories, Numbered, PassIsEarned, ExitTellsEvidence, NothingLeftBehind
  <2>13. SeedCounts'
    BY <1>0, <2>3, <2>5 DEF IInv, Stories, SeedCounts, Has
  <2> QED
    BY <2>7, <2>8, <2>9, <2>10, <2>11, <2>12, <2>13 DEF IInv, Local, Stories
<1> QED
  BY <1>3, <1>4

(* The end of a run *)
LEMMA FinallyStep ==
  ASSUME IInv, Finally
  PROVE  IInv'
<1>1. PICK reaped \in BOOLEAN, removed \in BOOLEAN :
       /\ server = "none" => reaped
       /\ Costs(Cost(reaped) + Cost(removed)) /\ Leaves(reaped)
       /\ IF removed
          THEN Goes("settle", [m EXCEPT !.clean = IF server = "none" THEN @ ELSE reaped,
                                        !.status = IF reaped THEN @ ELSE "failed"])
          ELSE Ends("exit1")
  BY DEF Finally
<1>2. mishaps' \in 0..MaxMishaps
  <2>1. Cost(reaped) + Cost(removed) \in Nat
    BY DEF Cost
  <2> QED
    BY <1>1, <2>1, Counted DEF IInv, Typed
<1>0. /\ pc = "finally" /\ pc \in Working /\ m \in Memories /\ run \in Runs /\ ~Seeded
      /\ UNCHANGED <<disk, run>> /\ server' = "none" /\ ~m.durable
      /\ strays' \subseteq strays \cup {run} /\ (reaped => strays' = strays)
      /\ strays \subseteq Runs
      /\ run \in strays => m.status = "failed"
  BY <1>1 DEF Finally, Working, Leaves, IInv, Typed, Local, Places, Evident, Left, Stories,
              Numbered
<1>3. CASE ~removed
  BY <1>0, <1>1, <1>2, <1>3, Died
<1>4. CASE removed
  <2>1. /\ pc' = "settle"
        /\ m' = [m EXCEPT !.clean = IF server = "none" THEN @ ELSE reaped,
                          !.status = IF reaped THEN @ ELSE "failed"]
    BY <1>1, <1>4 DEF Goes
  <2>2. /\ m' \in Memories /\ m'.mode = m.mode /\ m'.gate = m.gate /\ m'.phase = m.phase
        /\ m'.attempt = m.attempt /\ m'.durable = m.durable
        /\ m'.status = (IF reaped THEN m.status ELSE "failed")
        /\ m'.clean = IF server = "none" THEN m.clean ELSE reaped
    BY <1>0, <2>1 DEF Memories, Statuses
  <2>3. /\ Trial' = Trial /\ Seeded' = Seeded /\ pc' \in Working /\ ~InGate' /\ ~InGate
        /\ Ending' /\ ~Ending
    BY <1>0, <2>1, <2>2
       DEF Trial, Seeded, Working, InGate, Ending, Outer, Marking, Judged, Transfer
  <2>4. Typed'
    BY <1>0, <1>2, <2>2, <2>3 DEF IInv, Typed
  <2>5. Places' /\ Servers' /\ Left' /\ Evident'
    BY <1>0, <2>1, <2>2, <2>3
       DEF IInv, Local, Places, Servers, Left, Evident, Transfer, Marking, Setup, Boot
  <2>6. Normal' /\ Seeds'
    BY <1>0, <2>1, <2>2, <2>3 DEF IInv, Local, Normal, Seeds, Has, Marking
  <2>7. Stories'
    BY <1>0, <2>2, <2>3, StoriesKept DEF IInv, Typed
  <2> QED
    BY <2>4, <2>5, <2>6, <2>7 DEF IInv, Local
<1> QED
  BY <1>3, <1>4

LEMMA SettleStep ==
  ASSUME IInv, SettleAttempt
  PROVE  IInv'
<1>0. /\ pc = "settle" /\ pc \in Working /\ m \in Memories /\ run \in Runs /\ ~Seeded
      /\ UNCHANGED <<disk, run, server, strays>> /\ server = "none" /\ ~m.durable
      /\ mishaps' \in 0..MaxMishaps /\ Ending /\ m.status \in Statuses
      /\ run \in strays => m.status = "failed"
  BY Price, Counted
     DEF SettleAttempt, Working, IInv, Typed, Memories, Local, Places, Servers, Evident,
         Left, Stories,
         Numbered, Ending, Outer, Marking, Transfer
<1>1. m.status = "passed" => /\ m.clean /\ m.attempt # "none"
                             /\ \A g \in Gates : Has("normal", g, "passed")
  BY <1>0 DEF IInv, Local, Normal
<1>2. CASE pc' = "markTerminal"
  <2>1. PICK n \in {m, [m EXCEPT !.status = "failed"]} :
          n.status = "failed" /\ MarkAttemptFailed("report", n) /\ m.attempt # "none"
    <3>1. CASE m.status = "failed"
      BY <1>0, <1>2, <3>1 DEF SettleAttempt, Goes
    <3>2. CASE m.status # "failed"
      <4>1. m.clean /\ m.attempt # "none"
        BY <1>0, <1>1, <3>2 DEF Statuses
      <4>2. MarkAttemptFailed("report", [m EXCEPT !.status = "failed"])
        BY <1>2, <3>2, <4>1 DEF SettleAttempt, Goes
      <4>3. [m EXCEPT !.status = "failed"].status = "failed"
        BY <1>0 DEF Memories
      <4> QED
        BY <4>1, <4>2, <4>3
    <3> QED
      BY <3>1, <3>2
  <2> QED
    BY <1>0, <2>1, MarkedAtEnd
<1>3. CASE pc' # "markTerminal"
  <2>1. /\ pc' = "report"
        /\ \/ m.attempt = "none" /\ m' = m
           \/ /\ m.status # "failed" /\ m.clean /\ Accepted(Mine)
              /\ m' = [m EXCEPT !.attempt = "passed"]
    BY <1>3 DEF SettleAttempt, Goes, MarkAttemptFailed, Evaluates
  <2>2. /\ m' \in Memories /\ m'.mode = m.mode /\ m'.gate = m.gate /\ m'.phase = m.phase
        /\ m'.durable = m.durable /\ m'.status = m.status /\ m'.clean = m.clean
        /\ \/ m.attempt = "none" /\ m'.attempt = "none"
           \/ m.status # "failed" /\ m.clean /\ Accepted(Mine) /\ m'.attempt = "passed"
    BY <1>0, <2>1 DEF Memories, Statuses
  <2>3. /\ Trial' = Trial /\ Seeded' = Seeded /\ pc' \in Working /\ ~InGate'
        /\ Ending' /\ Mine' = Mine
    BY <1>0, <2>1, <2>2
       DEF Trial, Seeded, Working, InGate, Ending, Outer, Marking, Judged, Transfer, Mine
  <2>4. Typed'
    BY <1>0, <2>2, <2>3 DEF IInv, Typed
  <2>5. Places' /\ Servers' /\ Left' /\ Evident'
    BY <1>0, <2>1, <2>2, <2>3
       DEF IInv, Local, Places, Servers, Left, Evident, Transfer, Marking, Setup, Boot
  <2>6. Normal' /\ Seeds'
    <3>1. Accepted(Mine) => Accepted(Mine)'
      BY <2>3 DEF Accepted
    <3>2. m.gate > Boot => m'.attempt # "none"
      BY <1>0, <2>2 DEF IInv, Local, Normal
    <3>3. \A i \in 1..7 : i < m.gate => Has("normal", GATE_IDS[i], "passed")
      BY <1>0 DEF IInv, Local, Normal
    <3> QED
      BY <1>0, <1>1, <2>1, <2>2, <2>3, <3>1, <3>2, <3>3 DEF Normal, Seeds, Has, Marking
  <2>7. Stories'
    BY <1>0, <2>2, <2>3, StoriesKept DEF IInv, Typed
  <2> QED
    BY <2>4, <2>5, <2>6, <2>7 DEF IInv, Local
<1> QED
  BY <1>2, <1>3

(* The summary is written, and the run ends with the code that fits it.      *)
LEMMA Written ==
  ASSUME IInv, pc \in {"report", "reportAgain"}, NEW status \in Statuses,
         disk' = Summary(status), UNCHANGED <<run, server, strays>>,
         mishaps' \in 0..MaxMishaps, status = "failed" => m.attempt # "passed",
         status = "passed" => pc = "report" /\ m.status = "passed",
         Ends(IF status = "passed" THEN "exit0" ELSE "exit1")
  PROVE  IInv'
<1>0. /\ pc \in Working /\ m \in Memories /\ run \in Runs /\ disk \in Disks /\ server = "none"
      /\ Ending /\ strays \subseteq Runs
      /\ run \in strays => m.status = "failed"
      /\ m' = Memory("normal") /\ pc' = IF status = "passed" THEN "exit0" ELSE "exit1"
  BY DEF Working, IInv, Typed, Local, Servers, Left, Stories, Numbered, Ends, Ending,
         Outer, Marking, Transfer
<1>1. m'.mode = "normal" /\ m'.phase = "normal" /\ ~m'.durable /\ m' \in Memories
  BY <1>0 DEF Memory, Memories, Results, Succeeded, Statuses, Working
<1>2. /\ disk'.gates = disk.gates /\ disk'.attempts = disk.attempts
      /\ disk'.mutated = disk.mutated /\ disk'.seeds = disk.seeds
      /\ disk'.result = [by |-> run, mode |-> m.mode, status |-> status,
                         accepted |-> m.attempt = "passed"]
  BY <1>0 DEF Summary, Disks
<1>11. disk'.result.accepted <=> m.attempt = "passed"
  <2>1. disk'.result.accepted = (m.attempt = "passed")
    BY <1>2
  <2> QED
    BY <2>1
<1>3. disk' \in Disks
  <2>1. disk'.result \in [by : 0..MaxRuns, mode : {"none", "normal", "seeded"},
                          status : Statuses \cup {"none"}, accepted : BOOLEAN]
    BY <1>0, <1>2 DEF IInv, Typed, Memories
  <2> QED
    BY <1>0, <1>2, <2>1 DEF Summary, Disks
<1>4. Typed'
  BY <1>0, <1>1, <1>3 DEF IInv, Typed, Ended
<1>5. Places' /\ Servers' /\ Evident' /\ Left'
  BY <1>0, <1>1 DEF Places, Servers, Evident, Left, Seeded, Trial, InGate, Judged, Marking,
                    Transfer,
                    Setup, Working
<1>6. Normal' /\ Seeds'
  BY <1>0 DEF Normal, Seeds, Working
<1>7. Numbered'
  BY <1>0, <1>2 DEF IInv, Stories, Numbered, Working, Runs
<1>8. PassIsEarned'
  <2>0. /\ disk'.result.by = run' /\ disk'.result.status = status /\ disk'.result.mode = m.mode
        /\ disk'.result.accepted <=> m.attempt = "passed"
        /\ Accepted(Mine)' <=> Accepted(Mine)
    BY <1>2, <1>11 DEF Mine, Accepted
  <2> SUFFICES ASSUME status = "passed"
               PROVE  IF m.mode = "normal"
                      THEN /\ \A g \in Gates : disk.gates["normal"][g] = [by |-> run, status |-> "passed"]
                           /\ m.attempt = "passed" /\ Accepted(Mine)
                      ELSE \A g \in Gates : disk.seeds[g] = [by |-> run, status |-> "passed"]
    BY <1>2, <2>0 DEF PassIsEarned
  <2>1. CASE m.mode = "normal"
    BY <1>0, <2>1 DEF IInv, Local, Normal, Seeded, Has
  <2>2. CASE m.mode # "normal"
    BY <1>0, <2>2 DEF IInv, Local, Seeds, Seeded, Counts, Memories
  <2> QED
    BY <2>1, <2>2
<1>9. ExitTellsEvidence' /\ NothingLeftBehind'
  <2>1. /\ disk'.result.by = run' /\ disk'.result.status = status
        /\ disk'.result.accepted => m.attempt = "passed"
    BY <1>2, <1>11
  <2>2. status = "passed" \/ status = "failed"
    BY DEF Statuses
  <2>3. /\ pc' = "exit0" <=> status = "passed"
        /\ status # "passed" => ~disk'.result.accepted
    BY <1>0, <2>1, <2>2
  <2> QED
    BY <1>0, <2>1, <2>3 DEF ExitTellsEvidence, NothingLeftBehind
<1>10. SeedCounts'
  BY <1>2 DEF IInv, Stories, SeedCounts
<1> QED
  BY <1>4, <1>5, <1>6, <1>7, <1>8, <1>9, <1>10 DEF IInv, Local, Stories

LEMMA ReportSteps ==
  ASSUME IInv, Report \/ ReportAgain
  PROVE  IInv'
<1>0. /\ pc \in {"report", "reportAgain"} /\ pc \in Working /\ m \in Memories /\ run \in Runs
      /\ UNCHANGED <<run, server, strays>> /\ server = "none"
      /\ ~Seeded => ~m.durable
  BY DEF Report, ReportAgain, Working, IInv, Typed, Local, Servers, Evident, Stories, Numbered,
         Marking, Transfer
<1>1. /\ mishaps' \in 0..MaxMishaps /\ UNCHANGED <<run, server, strays>> /\ server = "none"
      /\ m.status \in Statuses
  BY Price, Counted DEF Report, ReportAgain, IInv, Typed, Memories, Local, Servers,
                        Marking, Transfer
<1>2. /\ m.status = "failed" => m.attempt # "passed"
      /\ pc = "reportAgain" => m.status = "failed" /\ ~Seeded
      /\ run \in strays => m.status = "failed"
  BY <1>0 DEF IInv, Local, Normal, Seeds, Places, Left, Seeded, Typed, Memories
<1>3. CASE Report
  <2>1. PICK ok \in BOOLEAN :
          /\ Writes(Summary(m.status), ok)
          /\ IF ok THEN Ends(IF m.status = "passed" THEN "exit0" ELSE "exit1")
             ELSE IF Seeded THEN Ends("exit1")
             ELSE IF m.attempt = "none" THEN Goes("reportAgain", [m EXCEPT !.status = "failed"])
             ELSE MarkAttemptFailed("reportAgain", [m EXCEPT !.status = "failed"])
    BY <1>3 DEF Report
  <2>2. pc = "report"
    BY <1>3 DEF Report
  <2>3. CASE ok
    BY <1>0, <1>1, <1>2, <2>1, <2>2, <2>3, Written DEF Writes
  <2>4. CASE ~ok /\ Seeded
    BY <1>0, <1>1, <2>1, <2>4, Died DEF Writes
  <2>5. CASE ~ok /\ ~Seeded /\ m.attempt # "none"
    <3>1. [m EXCEPT !.status = "failed"].status = "failed"
      BY <1>0 DEF Memories
    <3> QED
      BY <1>0, <1>1, <2>1, <2>2, <2>5, <3>1, MarkedAtEnd DEF Writes
  <2>6. CASE ~ok /\ ~Seeded /\ m.attempt = "none"
    <3>1. disk' = disk /\ pc' = "reportAgain" /\ m' = [m EXCEPT !.status = "failed"]
      BY <2>1, <2>6 DEF Writes, Goes
    <3>2. /\ m' \in Memories /\ m'.mode = m.mode /\ m'.gate = m.gate /\ m'.phase = m.phase
          /\ m'.durable = m.durable /\ m'.status = "failed" /\ m'.attempt = "none"
      BY <1>0, <2>6, <3>1 DEF Memories, Statuses
    <3>3. /\ Trial' = Trial /\ ~Seeded' /\ pc' \in Working /\ ~InGate' /\ Ending'
      BY <2>6, <3>1, <3>2
         DEF Trial, Seeded, Working, InGate, Ending, Outer, Marking, Judged, Transfer
    <3>4. Typed'
      BY <1>0, <1>1, <3>1, <3>2, <3>3 DEF IInv, Typed
    <3>5. Places' /\ Servers' /\ Left' /\ Evident'
      BY <1>1, <2>6, <3>1, <3>2, <3>3
         DEF IInv, Local, Places, Servers, Left, Evident, Transfer, Marking, Setup, Boot
    <3>6. Normal' /\ Seeds'
      <4>1. \A i \in 1..7 : i < m.gate => Has("normal", GATE_IDS[i], "passed")
        BY <1>0, <2>6 DEF IInv, Local, Normal
      <4>2. ~(m.gate > Boot)
        BY <1>0, <2>6 DEF IInv, Local, Normal
      <4> QED
        BY <1>0, <3>1, <3>2, <3>3, <4>1, <4>2 DEF Normal, Seeds, Has
    <3>7. Stories'
      BY <1>0, <1>1, <3>1, <3>2, <3>3, StoriesKept DEF IInv, Typed
    <3> QED
      BY <3>4, <3>5, <3>6, <3>7 DEF IInv, Local
  <2> QED
    BY <2>3, <2>4, <2>5, <2>6
<1>4. CASE ReportAgain
  <2>1. PICK ok \in BOOLEAN : Writes(Summary("failed"), ok)
    BY <1>4 DEF ReportAgain
  <2>2. pc = "reportAgain" /\ Ends("exit1")
    BY <1>4 DEF ReportAgain
  <2>3. CASE ok
    BY <1>0, <1>1, <1>2, <2>1, <2>2, <2>3, Written DEF Writes, Statuses
  <2>4. CASE ~ok
    BY <1>0, <1>1, <2>1, <2>2, <2>4, Died DEF Writes
  <2> QED
    BY <2>3, <2>4
<1> QED
  BY <1>3, <1>4

(* What happens to a run *)
LEMMA MishapSteps ==
  ASSUME IInv, ServerExits \/ Crash \/ LeaseReaps
  PROVE  IInv'
<1>1. CASE Crash
  BY <1>1, Counted, Died DEF Crash, IInv, Typed
<1>2. CASE ServerExits
  <2>1. /\ server = "live" /\ server' = "exited" /\ UNCHANGED <<disk, run, pc, m, strays>>
        /\ mishaps' \in 0..MaxMishaps
    BY <1>2, Counted DEF ServerExits, IInv, Typed
  <2>2. /\ Gate' = Gate /\ Trial' = Trial /\ Seeded' = Seeded /\ InGate' = InGate
        /\ Ending' = Ending /\ Mine' = Mine
    BY <2>1 DEF Gate, Trial, Seeded, InGate, Ending, Mine
  <2>3. Typed' /\ Places' /\ Servers' /\ Evident' /\ Left'
    BY <2>1, <2>2 DEF IInv, Typed, Local, Places, Servers, Evident, Left, Has
  <2>4. Normal' /\ Seeds'
    BY <2>1, <2>2 DEF IInv, Local, Normal, Seeds, Has, Counts, Accepted
  <2>5. Stories'
    <3>1. pc \notin Ended
      BY <2>1 DEF IInv, Stories, Numbered
    <3> QED
      BY <2>1, <2>2, <3>1 DEF IInv, Stories, Numbered, PassIsEarned, ExitTellsEvidence,
                              NothingLeftBehind, SeedCounts, Accepted, Ended
  <2> QED
    BY <2>3, <2>4, <2>5 DEF IInv, Local
<1>3. CASE LeaseReaps
  <2>1. strays' \subseteq strays /\ UNCHANGED <<disk, run, pc, m, server, mishaps>>
    BY <1>3 DEF LeaseReaps
  <2>2. /\ Gate' = Gate /\ Trial' = Trial /\ Seeded' = Seeded /\ InGate' = InGate
        /\ Ending' = Ending /\ Mine' = Mine
    BY <2>1 DEF Gate, Trial, Seeded, InGate, Ending, Mine
  <2>3. Typed' /\ Places' /\ Servers' /\ Evident' /\ Left'
    BY <2>1, <2>2 DEF IInv, Typed, Local, Places, Servers, Evident, Left, Has
  <2>4. Normal' /\ Seeds'
    BY <2>1, <2>2 DEF IInv, Local, Normal, Seeds, Has, Counts, Accepted
  <2>5. Stories'
    BY <2>1, <2>2 DEF IInv, Stories, Numbered, PassIsEarned, ExitTellsEvidence,
                      NothingLeftBehind, SeedCounts, Accepted
  <2> QED
    BY <2>3, <2>4, <2>5 DEF IInv, Local
<1> QED
  BY <1>1, <1>2, <1>3

(* A run begins: nothing on disk is its own.                                 *)
LEMMA StartStep ==
  ASSUME IInv, Start
  PROVE  IInv'
<1>1. /\ pc \in Ended /\ run' = run + 1 /\ run' \in Runs /\ pc' = "begin" /\ pc' \in Working
      /\ UNCHANGED <<disk, server, strays, mishaps>> /\ server = "none" /\ run \in 0..MaxRuns
      /\ run' \in 0..MaxRuns
  BY HarnessAssumption DEF Start, Goes, Runs, Working, IInv, Typed, Stories, Numbered
<1>2. PICK mode \in {"normal", "seeded"} : m' = Memory(mode)
  BY DEF Start, Goes
<1>3. /\ m' \in Memories /\ m'.mode = mode /\ m'.gate = 1 /\ m'.status = "passed"
      /\ m'.phase = (IF mode = "normal" THEN "normal" ELSE "baseline")
      /\ m'.attempt = "none" /\ ~m'.attributable /\ ~m'.durable
  BY <1>2, Meant DEF Memory, Memories, Statuses, Working
<1>4. /\ disk.result.by # run' /\ run' \notin strays /\ \A r \in strays : r <= run'
      /\ \A g \in Gates : disk.seeds[g].by # run' /\ disk.seeds[g].by <= run'
      /\ disk.result.by <= run'
  <2>1. /\ disk.result.by \in Nat /\ \A g \in Gates : disk.seeds[g].by \in Nat
    BY HarnessAssumption DEF IInv, Typed, Disks, Records
  <2>2. \A r \in strays : r \in Nat
    BY DEF IInv, Typed, Runs
  <2> QED
    BY <1>1, <2>1, <2>2 DEF IInv, Stories, Numbered
<1>5. ~InGate' /\ ~Ending' /\ ~Trial'
  BY <1>1, <1>3 DEF InGate, Ending, Trial, Outer, Marking, Judged, Transfer
<1>6. Typed'
  BY <1>1, <1>3 DEF IInv, Typed
<1>7. Places' /\ Servers' /\ Evident' /\ Left'
  BY <1>1, <1>3, <1>4, <1>5 DEF Places, Servers, Evident, Left, Seeded, Transfer, Marking, Setup
<1>8. Normal' /\ Seeds'
  BY <1>1, <1>3, <1>4, <1>5, GateOrder DEF Normal, Seeds, Seeded, Boot
<1>9. Stories'
  BY <1>1, <1>4 DEF IInv, Stories, Numbered, PassIsEarned, ExitTellsEvidence,
                    NothingLeftBehind, SeedCounts, Working, Ended
<1> QED
  BY <1>6, <1>7, <1>8, <1>9 DEF IInv, Local

-----------------------------------------------------------------------------
LEMMA Begins == Init => IInv
<1> SUFFICES ASSUME Init PROVE IInv
  OBVIOUS
<1>1. m = Memory("normal") /\ pc = "none" /\ run = 0 /\ server = "none" /\ strays = {} /\ mishaps = 0
  BY DEF Init
<1>2. m \in Memories /\ m.mode = "normal" /\ m.phase = "normal" /\ ~m.durable
  BY <1>1, Meant DEF Memory, Memories, Statuses, Working
<1>3. NoRecord \in Records
  BY HarnessAssumption DEF NoRecord, Records, Statuses
<1>4. disk \in Disks
  BY <1>3, HarnessAssumption DEF Init, Disks
<1>5. /\ disk.result.by = 0 /\ disk.result.status = "none" /\ disk.result.accepted = FALSE
      /\ \A g \in Gates : disk.seeds[g].by = 0 /\ disk.seeds[g].status = "none"
  BY DEF Init, NoRecord
<1>6. Typed
  BY <1>1, <1>2, <1>4, HarnessAssumption DEF Typed, Ended
<1>7. Local
  BY <1>1, <1>2 DEF Local, Places, Servers, Evident, Normal, Seeds, Left, Seeded, Trial, InGate,
                    Working, Transfer, Marking, Setup, Judged
<1>8. Stories
  BY <1>1, <1>5 DEF Stories, Numbered, PassIsEarned, ExitTellsEvidence, NothingLeftBehind,
                    SeedCounts,
                    Working
<1> QED
  BY <1>6, <1>7, <1>8 DEF IInv

LEMMA EveryStep == IInv /\ [Next]_vars => IInv'
<1> SUFFICES ASSUME IInv, [Next]_vars PROVE IInv'
  OBVIOUS
<1>1. CASE Frame
  BY <1>1, StartStep, FrameSteps DEF Frame
<1>2. CASE GateStep
  BY <1>2, ChooseGateStep, SimpleGateStep, NoServerStep, TransferSteps, BootFailedStep,
     SelectPortStep, StartLiveServerStep, RunHealthStep, WriteBootEvidenceStep,
     StopLiveServerStep, RewriteBootStep, RunBrowserStep, WriteBrowserStep DEF GateStep
<1>3. CASE Attempt
  BY <1>3, TransferSteps, DecideTransferStep, MarkSteps DEF Attempt
<1>4. CASE Returned
  BY <1>4, NormalReturns, BaselineStep, ApplyMutationStep, TrialStep, EndSeedStep DEF Returned
<1>5. CASE Closing
  BY <1>5, FinallyStep, SettleStep, ReportSteps DEF Closing
<1>6. CASE ServerExits \/ Crash \/ LeaseReaps
  BY <1>6, MishapSteps
<1>7. CASE UNCHANGED vars
  <2>1. UNCHANGED <<disk, run, pc, m, server, strays, mishaps>>
    BY <1>7 DEF vars
  <2>2. /\ Gate' = Gate /\ Trial' = Trial /\ Seeded' = Seeded /\ InGate' = InGate
        /\ Ending' = Ending /\ Mine' = Mine
    BY <2>1 DEF Gate, Trial, Seeded, InGate, Ending, Mine
  <2>3. Typed' /\ Places' /\ Servers' /\ Evident' /\ Left'
    BY <2>1, <2>2 DEF IInv, Typed, Local, Places, Servers, Evident, Left, Has
  <2>4. Normal' /\ Seeds'
    BY <2>1, <2>2 DEF IInv, Local, Normal, Seeds, Has, Counts, Accepted
  <2>5. Stories'
    BY <2>1, <2>2 DEF IInv, Stories, Numbered, PassIsEarned, ExitTellsEvidence,
                      NothingLeftBehind, SeedCounts, Accepted
  <2> QED
    BY <2>3, <2>4, <2>5 DEF IInv, Local
<1> QED
  BY <1>1, <1>2, <1>3, <1>4, <1>5, <1>6, <1>7 DEF Next

(* The inductive invariant of the harness: where a step belongs, who has a   *)
(* server, what the memory says of the disk, and what is on disk of a run.   *)
THEOREM Invariant == Spec => []IInv
  BY Begins, EveryStep, PTL DEF Spec

-----------------------------------------------------------------------------
(* Acceptance *)
LEMMA Untouched ==
  ASSUME IInv, Next,
         ~(\/ CreatePendingAttemptAuthority \/ StageAttemptCandidate \/ WriteTerminalAttemptResult
           \/ FinalizeAttemptAuthority \/ MarkTerminal \/ MarkAuthority)
  PROVE  disk'.attempts = disk.attempts
<1>0. disk \in Disks
  BY DEF IInv, Typed
<1>1. ASSUME NEW r \in Results, NEW ok \in BOOLEAN, Writes(GateRecord(r), ok)
      PROVE  disk'.attempts = disk.attempts
  BY <1>0, <1>1 DEF Writes, GateRecord, Disks
<1>2. CASE \/ RunSimpleGate \/ NoServerToRunOn \/ BootFailed \/ WriteBootEvidence
           \/ RewriteBootEvidence \/ WriteBrowserEvidence
  <2>1. m.result \in Results
    BY DEF IInv, Typed, Memories
  <2>2. [exit |-> "none", timedOut |-> TRUE, reaped |-> FALSE] \in Results
    BY DEF Results
  <2>3. PICK r \in Results, ok \in BOOLEAN : Writes(GateRecord(r), ok)
    BY <1>2, <2>1, <2>2, Failing, Meant
       DEF RunSimpleGate, NoServerToRunOn, BootFailed, WriteBootEvidence, RewriteBootEvidence,
           WriteBrowserEvidence
  <2> QED
    BY <1>1, <2>3
<1>3. CASE ApplyMutation \/ EndSeed \/ Report \/ ReportAgain
  BY <1>0, <1>3 DEF ApplyMutation, EndSeed, Report, ReportAgain, Writes, Summary, Disks
<1> QED
  BY <1>2, <1>3
     DEF Next, Frame, GateStep, Attempt, Returned, Closing, Start, Begin, GenerateProject,
         InitializeRepository, RunInstall, PrepareSeed, ChooseGate, SelectPortFails,
         StartLiveServer, RunHealth, StopLiveServer, RunBrowserGate, DecideTransfer,
         NormalGateReturns, BaselineReturns, TrialReturns, Finally, SettleAttempt, ServerExits,
         Crash, LeaseReaps

LEMMA Acceptance ==
  ASSUME IInv, Next, NEW r \in Runs, ~Accepted(disk.attempts[r]), Accepted(disk.attempts'[r])
  PROVE  disk.gates["normal"]["boot"] = [by |-> r, status |-> "passed"] /\ server # "none"
<1>1. disk'.attempts # disk.attempts
  OBVIOUS
<1>2. CASE StageAttemptCandidate \/ WriteTerminalAttemptResult \/ FinalizeAttemptAuthority
  <2>1. /\ pc \in Transfer /\ m.gate = Boot /\ m.phase = "normal" /\ server # "none"
        /\ Has(m.phase, Gate, "passed") /\ Gate = "boot"
    BY <1>2, GateOrder
       DEF StageAttemptCandidate, WriteTerminalAttemptResult, FinalizeAttemptAuthority,
           Transfer, IInv, Typed,
           Memories, Local, Places, Evident, InGate, Judged, Seeded, Gate
  <2>2. r = run
    <3>1. run \in Runs /\ disk \in Disks
      BY <2>1 DEF IInv, Typed, Stories, Numbered, Transfer, Working
    <3>2. ASSUME NEW a, disk' = [disk EXCEPT !.attempts[run] = a], r # run
          PROVE  disk'.attempts[r] = disk.attempts[r]
      BY <3>1, <3>2 DEF Disks
    <3> QED
      BY <1>2, <3>2 DEF StageAttemptCandidate, WriteTerminalAttemptResult,
                        FinalizeAttemptAuthority, Writes
  <2> QED
    BY <2>1, <2>2 DEF Has
<1>3. CASE CreatePendingAttemptAuthority \/ MarkTerminal \/ MarkAuthority
  <2>1. run \in Runs /\ disk \in Disks
    BY <1>3 DEF IInv, Typed, Stories, Numbered, CreatePendingAttemptAuthority,
                MarkTerminal, MarkAuthority,
                Working
  <2>2. \/ disk' = disk
        \/ disk' = [disk EXCEPT !.attempts[run].authority = "pending"]
        \/ disk' = [disk EXCEPT !.attempts[run].terminal = "failed"]
        \/ disk' = [disk EXCEPT !.attempts[run].authority = "failed"]
    BY <1>3 DEF CreatePendingAttemptAuthority, MarkTerminal, MarkAuthority, Writes
  <2>3. \/ disk'.attempts[r] = disk.attempts[r]
        \/ disk'.attempts[r].authority # "passed"
        \/ disk'.attempts[r].terminal # "passed"
    BY <2>1, <2>2 DEF Disks
  <2> QED
    BY <2>3 DEF Accepted
<1> QED
  BY <1>1, <1>2, <1>3, Untouched

-----------------------------------------------------------------------------
(* What the harness keeps in memory and on disk has the shape the code gives *)
(* it, whatever fails.                                                       *)
THEOREM TypeCorrect == Spec => []TypeOK
<1>1. IInv => TypeOK
  BY Types DEF IInv
<1> QED
  BY <1>1, Invariant, PTL

(* PassIsEarned: a summary that says passed rests on records of the same     *)
(* run, of all its gates or of all its seeds, and on its accepted attempt.   *)
THEOREM PassSafety == Spec => []PassIsEarned
<1>1. IInv => PassIsEarned
  BY DEF IInv, Stories
<1> QED
  BY <1>1, Invariant, PTL

(* ExitTellsEvidence: the exit code is 0 exactly when the run left a summary *)
(* that says passed, and a summary that says failed claims no attempt.       *)
THEOREM ExitSafety == Spec => []ExitTellsEvidence
<1>1. IInv => ExitTellsEvidence
  BY DEF IInv, Stories
<1> QED
  BY <1>1, Invariant, PTL

(* NothingLeftBehind: every process group of a run that returns 0 was proven *)
(* absent.                                                                   *)
THEOREM ReapingSafety == Spec => []NothingLeftBehind
<1>1. IInv => NothingLeftBehind
  BY DEF IInv, Stories
<1> QED
  BY <1>1, Invariant, PTL

(* SeedCounts: a seed that counts had its baseline passed, its mutation      *)
(* recorded and its gate failed after it, all by the run that says so.       *)
THEOREM SeedSafety == Spec => []SeedCounts
<1>1. IInv => SeedCounts
  BY DEF IInv, Stories
<1> QED
  BY <1>1, Invariant, PTL

(* BootBehindAcceptance: an attempt is accepted while its boot's record says *)
(* on disk that it passed, and with its server, exited or not, in hand.      *)
THEOREM AcceptanceSafety == Spec => BootBehindAcceptance
<1>1. IInv /\ [Next]_vars =>
        [\A r \in Runs : ~Accepted(disk.attempts[r]) /\ Accepted(disk.attempts'[r]) =>
           /\ disk.gates["normal"]["boot"] = [by |-> r, status |-> "passed"]
           /\ server # "none"]_vars
  BY Acceptance
<1> QED
  BY <1>1, Invariant, PTL DEF Spec, BootBehindAcceptance

=============================================================================
