--------------------------- MODULE DigestProofs ----------------------------
(***************************************************************************)
(* Safety of Digest for any number of processes and renders, any sizes of  *)
(* documents, and any number of commits, kills and failed writes.          *)
(***************************************************************************)
EXTENDS Digest, TLAPS

LEMMA InitInv == Init => DigestInv
  <1> SUFFICES ASSUME Init PROVE DigestInv
    OBVIOUS
  <1>1. Size[0] \in Nat \ {0} /\ 0 \in 0..MaxCommits
    BY SizeAssumption, BoundAssumption
  <1>2. Doc(0) \in Seq(Blocks) /\ Doc(0) \in Whole
    BY <1>1 DEF Doc, Blocks, Whole
  <1>3. TypeOK
    BY <1>1, <1>2, BoundAssumption DEF Init, TypeOK, Stages
  <1>4. Progress /\ Exclusive /\ Overlaps /\ OwnBlocks /\ FreshBlocks
    BY DEF Init, Progress, Exclusive, Overlaps, OwnBlocks, FreshBlocks, Active
  <1>5. ProcessFile
    BY <1>2 DEF Init, ProcessFile
  <1>6. WholeInOneProcess
    BY DEF Init, WholeInOneProcess, TornServed
  <1>7. QED
    BY <1>3, <1>4, <1>5, <1>6 DEF DigestInv

-----------------------------------------------------------------------------
(* Blocks.                                                                 *)

LEMMA PutTypes ==
    ASSUME NEW blocks \in Seq(Blocks), NEW k \in Nat \ {0}, NEW v \in Blocks
    PROVE  /\ Put(blocks, k, v) \in Seq(Blocks)
           /\ \A i \in DOMAIN Put(blocks, k, v) :
                \/ Put(blocks, k, v)[i] = v
                \/ Put(blocks, k, v)[i] = Hole
                \/ i \in DOMAIN blocks /\ Put(blocks, k, v)[i] = blocks[i]
  <1> DEFINE n == IF k > Len(blocks) THEN k ELSE Len(blocks)
             f == [i \in 1..n |-> IF i = k THEN v ELSE IF i <= Len(blocks) THEN blocks[i] ELSE Hole]
  <1>1. Len(blocks) \in Nat /\ DOMAIN blocks = 1..Len(blocks) /\ n \in Nat
    OBVIOUS
  <1>2. Hole \in Blocks
    BY DEF Blocks
  <1>3. \A i \in 1..n : \/ f[i] = v
                        \/ f[i] = Hole
                        \/ i \in DOMAIN blocks /\ f[i] = blocks[i]
    BY <1>1
  <1>4. \A i \in 1..n : f[i] \in Blocks
    BY <1>2, <1>3
  <1>5. f \in [1..n -> Blocks]
    BY <1>4
  <1>6. f \in Seq(Blocks) /\ DOMAIN f = 1..n
    BY <1>1, <1>5
  <1>7. QED
    BY <1>3, <1>6 DEF Put

(* The next block after a prefix makes a longer prefix.                    *)
LEMMA PutNext ==
    ASSUME NEW w \in Nat, NEW v
    PROVE  Put([k \in 1..w |-> v], w + 1, v) = [k \in 1..(w + 1) |-> v]
  <1> DEFINE blocks == [k \in 1..w |-> v]
  <1>1. Len(blocks) = w
    OBVIOUS
  <1>2. (IF w + 1 > Len(blocks) THEN w + 1 ELSE Len(blocks)) = w + 1
    BY <1>1
  <1>3. \A i \in 1..(w + 1) : (IF i = w + 1 THEN v ELSE IF i <= Len(blocks) THEN blocks[i] ELSE Hole) = v
    <2>1. ASSUME NEW i \in 1..(w + 1), i # w + 1 PROVE i \in 1..w /\ i <= Len(blocks)
      BY <1>1, <2>1
    <2>2. QED
      BY <2>1
  <1>4. QED
    BY <1>2, <1>3 DEF Put

-----------------------------------------------------------------------------
(* The three ways in which a render ends early, with what they leave alone.*)
Ends == \/ \E r \in Renders : Cancel(r) \/ WriteFails(r)
        \/ \E p \in Processes : Kill(p)

LEMMA EndsKeep ==
    ASSUME DigestInv, Ends
    PROVE  /\ UNCHANGED <<commits, file, base, snap, written, rivals, served>>
           /\ stage' \in [Renders -> Stages] /\ faults' \in 0..MaxFaults
           /\ faults' = 0 => faults = 0
           /\ \A r \in Renders :
                \/ stage'[r] = stage[r]
                \/ r \in Active /\ stage'[r] \in {"cancelled", "OSError", "killed"}
           /\ \A r \in Renders : stage[r] = "writing" /\ stage'[r] # "writing" => faults' # 0
  <1>0. /\ stage \in [Renders -> Stages] /\ faults \in 0..MaxFaults /\ faults \in Nat /\ MaxFaults \in Nat
    BY BoundAssumption DEF DigestInv, TypeOK
  <1>1. ASSUME NEW r \in Renders, Cancel(r)
        PROVE  /\ UNCHANGED <<commits, file, base, snap, written, rivals, served, faults>>
               /\ stage' = [stage EXCEPT ![r] = "cancelled"] /\ r \in Active /\ stage[r] # "writing"
    BY <1>1 DEF Cancel, To, Active
  <1>2. ASSUME NEW r \in Renders, WriteFails(r)
        PROVE  /\ UNCHANGED <<commits, file, base, snap, written, rivals, served>>
               /\ stage' = [stage EXCEPT ![r] = "OSError"] /\ r \in Active
               /\ faults' = faults + 1 /\ faults < MaxFaults
    BY <1>2 DEF WriteFails, To, Active
  <1>3. ASSUME NEW p \in Processes, Kill(p)
        PROVE  /\ UNCHANGED <<commits, file, base, snap, written, rivals, served>>
               /\ stage' = [r \in Renders |-> IF Home[r] = p /\ r \in Active THEN "killed" ELSE stage[r]]
               /\ faults' = faults + 1 /\ faults < MaxFaults
    BY <1>3 DEF Kill
  <1>4. ASSUME faults' = faults + 1, faults < MaxFaults
        PROVE  faults' \in 0..MaxFaults /\ faults' # 0
    BY <1>0, <1>4
  <1>5. CASE \E r \in Renders : Cancel(r)
    BY <1>0, <1>1, <1>5 DEF Stages
  <1>6. CASE \E r \in Renders : WriteFails(r)
    BY <1>0, <1>2, <1>4, <1>6 DEF Stages
  <1>7. CASE \E p \in Processes : Kill(p)
    BY <1>0, <1>3, <1>4, <1>7 DEF Stages
  <1>8. QED
    BY <1>5, <1>6, <1>7 DEF Ends

LEMMA TypesStep == DigestInv /\ [Next]_vars => TypeOK'
  <1> SUFFICES ASSUME DigestInv, [Next]_vars PROVE TypeOK'
    OBVIOUS
  <1> USE DEF To, renderVars
  <1>0. TypeOK
    BY DEF DigestInv
  <1>1. ASSUME NEW r \in Renders, Invoke(r) PROVE TypeOK'
    <2>1. Active \in SUBSET Renders
      BY DEF Active
    <2>2. rivals' \in [Renders -> SUBSET Renders]
      BY <1>0, <1>1, <2>1 DEF Invoke, TypeOK
    <2>3. stage' \in [Renders -> Stages] /\ base' \in [Renders -> 0..MaxCommits]
      BY <1>0, <1>1 DEF Invoke, TypeOK, Stages
    <2>4. QED
      BY <1>0, <1>1, <2>2, <2>3 DEF Invoke, TypeOK
  <1>2. ASSUME NEW r \in Renders, Query(r) PROVE TypeOK'
    <2>1. stage' \in [Renders -> Stages] /\ snap' \in [Renders -> 0..MaxCommits]
      BY <1>0, <1>2 DEF Query, TypeOK, Stages
    <2>2. written[r] = 0
      BY <1>2 DEF DigestInv, Progress, Query
    <2>3. \A a \in Renders : written[a] <= Size[snap'[a]]
      <3>1. snap'[r] \in 0..MaxCommits /\ Size[snap'[r]] \in Nat
        BY <2>1, SizeAssumption
      <3>2. 0 <= Size[snap'[r]]
        BY <3>1
      <3>3. \A a \in Renders \ {r} : snap'[a] = snap[a]
        BY <1>0, <1>2 DEF Query, TypeOK
      <3>4. QED
        BY <1>0, <2>2, <3>2, <3>3 DEF TypeOK
    <2>4. QED
      BY <1>0, <1>2, <2>1, <2>3 DEF Query, TypeOK
  <1>3. ASSUME NEW r \in Renders, Open(r) PROVE TypeOK'
    <2>1. stage' \in [Renders -> Stages] /\ file' \in Seq(Blocks)
      BY <1>0, <1>3 DEF Open, TypeOK, Stages
    <2>2. QED
      BY <1>0, <1>3, <2>1 DEF Open, TypeOK
  <1>4. ASSUME NEW r \in Renders, WriteBlock(r) PROVE TypeOK'
    <2>1. file \in Seq(Blocks)
      BY <1>0, <1>4 DEF WriteBlock, TypeOK, DigestInv, FreshBlocks
    <2>2. written[r] \in Nat /\ snap[r] \in Blocks /\ snap[r] \in 0..MaxCommits
      BY <1>0 DEF TypeOK, Blocks
    <2>3. file' \in Seq(Blocks)
      <3>1. written[r] + 1 \in Nat \ {0}
        BY <2>2
      <3>2. QED
        BY <1>4, <2>1, <2>2, <3>1, PutTypes DEF WriteBlock
    <2>4. written' \in [Renders -> Nat] /\ \A a \in Renders : written'[a] <= Size[snap[a]]
      <3>1. written[r] + 1 \in Nat /\ written[r] + 1 <= Size[snap[r]]
        BY <1>4, <2>2, SizeAssumption DEF WriteBlock
      <3>2. QED
        BY <1>0, <1>4, <3>1 DEF WriteBlock, TypeOK
    <2>5. QED
      BY <1>0, <1>4, <2>3, <2>4 DEF WriteBlock, TypeOK
  <1>5. ASSUME NEW r \in Renders, Finish(r) PROVE TypeOK'
    <2>1. stage' \in [Renders -> Stages]
      BY <1>0, <1>5 DEF Finish, TypeOK, Stages
    <2>2. QED
      BY <1>0, <1>5, <2>1 DEF Finish, TypeOK
  <1>6. CASE Ends
    BY <1>0, <1>6, EndsKeep DEF TypeOK
  <1>7. ASSUME NEW p \in Processes, DigestCurrent(p) PROVE TypeOK'
    BY <1>0, <1>7 DEF DigestCurrent, TypeOK
  <1>8. CASE CommitScore
    <2>1. commits' \in 0..MaxCommits
      BY <1>0, <1>8, BoundAssumption DEF CommitScore, TypeOK
    <2>2. QED
      BY <1>0, <1>8, <2>1 DEF CommitScore, TypeOK
  <1>9. CASE UNCHANGED vars
    BY <1>0, <1>9 DEF vars, TypeOK
  <1>10. QED
    BY <1>1, <1>2, <1>3, <1>4, <1>5, <1>6, <1>7, <1>8, <1>9 DEF Next, Ends

LEMMA ProgressStep == DigestInv /\ [Next]_vars => Progress'
  <1> SUFFICES ASSUME DigestInv, [Next]_vars PROVE Progress'
    OBVIOUS
  <1> USE DEF To, renderVars
  <1>0. /\ Progress /\ commits \in Int
        /\ stage \in [Renders -> Stages] /\ base \in [Renders -> 0..MaxCommits]
        /\ snap \in [Renders -> 0..MaxCommits] /\ written \in [Renders -> Nat]
    BY DEF DigestInv, TypeOK
  <1>00. \A r \in Renders : base[r] \in Int /\ snap[r] \in Int
    BY <1>0
  <1>1. ASSUME NEW r \in Renders, Invoke(r) PROVE Progress'
    BY <1>0, <1>1 DEF Invoke, Progress
  <1>2. ASSUME NEW r \in Renders, Query(r) PROVE Progress'
    BY <1>0, <1>2 DEF Query, Progress
  <1>3. ASSUME NEW r \in Renders, Open(r) PROVE Progress'
    BY <1>0, <1>3 DEF Open, Progress
  <1>4. ASSUME NEW r \in Renders, WriteBlock(r) PROVE Progress'
    BY <1>0, <1>4 DEF WriteBlock, Progress
  <1>5. ASSUME NEW r \in Renders, Finish(r) PROVE Progress'
    BY <1>0, <1>5 DEF Finish, Progress
  <1>6. CASE Ends
    BY <1>0, <1>6, EndsKeep DEF Progress
  <1>7. ASSUME NEW p \in Processes, DigestCurrent(p) PROVE Progress'
    BY <1>0, <1>7 DEF DigestCurrent, Progress
  <1>8. CASE CommitScore
    <2>1. \A r \in Renders : base[r] <= commits' /\ snap[r] <= commits'
      BY <1>0, <1>00, <1>8 DEF CommitScore, Progress
    <2>2. QED
      BY <1>0, <1>8, <2>1 DEF CommitScore, Progress
  <1>9. CASE UNCHANGED vars
    BY <1>0, <1>9 DEF vars, Progress
  <1>10. QED
    BY <1>1, <1>2, <1>3, <1>4, <1>5, <1>6, <1>7, <1>8, <1>9 DEF Next, Ends

(* Nothing but Open brings a render into its synchronous part.             *)
LEMMA ExclusiveStep == DigestInv /\ [Next]_vars => Exclusive'
  <1> SUFFICES ASSUME DigestInv, [Next]_vars PROVE Exclusive'
    OBVIOUS
  <1> USE DEF To, renderVars
  <1>0. Exclusive /\ stage \in [Renders -> Stages]
    BY DEF DigestInv, TypeOK
  <1>1. ASSUME \A r \in Renders : stage'[r] = "writing" => stage[r] = "writing" PROVE Exclusive'
    BY <1>0, <1>1 DEF Exclusive
  <1>2. ASSUME NEW r \in Renders, Open(r) PROVE Exclusive'
    <2>1. \A a \in Renders : Home[a] = Home[r] => stage[a] # "writing"
      BY <1>2 DEF Open, LoopFree
    <2>2. stage' = [stage EXCEPT ![r] = "writing"]
      BY <1>2 DEF Open
    <2>3. QED
      BY <1>0, <2>1, <2>2 DEF Exclusive
  <1>3. ASSUME NEW r \in Renders, Invoke(r) \/ Query(r) \/ WriteBlock(r) \/ Finish(r)
        PROVE  Exclusive'
    BY <1>0, <1>1, <1>3 DEF Invoke, Query, WriteBlock, Finish
  <1>4. CASE Ends
    BY <1>1, <1>4, EndsKeep
  <1>5. ASSUME NEW p \in Processes, DigestCurrent(p) PROVE Exclusive'
    BY <1>1, <1>5 DEF DigestCurrent
  <1>6. CASE CommitScore \/ UNCHANGED vars
    BY <1>1, <1>6 DEF CommitScore, vars
  <1>7. QED
    BY <1>2, <1>3, <1>4, <1>5, <1>6 DEF Next, Ends

LEMMA OverlapsStep == DigestInv /\ [Next]_vars => Overlaps'
  <1> SUFFICES ASSUME DigestInv, [Next]_vars PROVE Overlaps'
    OBVIOUS
  <1> USE DEF To, renderVars
  <1>0. /\ Overlaps /\ Progress /\ stage \in [Renders -> Stages]
        /\ rivals \in [Renders -> SUBSET Renders] /\ base \in [Renders -> 0..MaxCommits]
    BY DEF DigestInv, TypeOK
  <1>1. ASSUME UNCHANGED <<rivals, base>>,
               \A r \in Renders : /\ r \in Active' => r \in Active
                                  /\ stage'[r] # "idle" => stage[r] # "idle"
        PROVE  Overlaps'
    <2> SUFFICES ASSUME NEW r \in Renders, NEW a \in Active' \ {r}, stage'[r] # "idle"
                 PROVE  a \in rivals[r] \/ (r \notin Active' /\ base[r] <= base[a])
      BY <1>1 DEF Overlaps
    <2>1. a \in Renders /\ a \in Active' /\ a # r
      BY DEF Active
    <2>2. a \in Active \ {r} /\ stage[r] # "idle"
      BY <1>1, <2>1
    <2>3. a \in rivals[r] \/ (r \notin Active /\ base[r] <= base[a])
      BY <1>0, <2>2 DEF Overlaps
    <2>4. QED
      BY <1>1, <2>3
  <1>2. ASSUME NEW i \in Renders, Invoke(i) PROVE Overlaps'
    <2>1. /\ stage[i] = "idle" /\ stage' = [stage EXCEPT ![i] = "querying"]
          /\ base' = [base EXCEPT ![i] = commits]
          /\ rivals' = [a \in Renders |-> IF a = i THEN Active
                                         ELSE IF a \in Active THEN rivals[a] \cup {i}
                                         ELSE rivals[a]]
      BY <1>2 DEF Invoke
    <2>2. i \notin Active /\ Active' = Active \cup {i}
      BY <1>0, <2>1 DEF Active
    <2>3. SUFFICES ASSUME NEW r \in Renders, NEW a \in Active' \ {r}, stage'[r] # "idle"
                   PROVE  a \in rivals'[r] \/ (r \notin Active' /\ base'[r] <= base'[a])
      BY DEF Overlaps
    <2>4. CASE r = i
      BY <2>1, <2>2, <2>3, <2>4
    <2>5. CASE r # i /\ a = i
      <3>1. CASE r \in Active
        BY <2>1, <2>5, <3>1
      <3>2. CASE r \notin Active
        <4>1. base'[r] = base[r] /\ base'[i] = commits
          BY <1>0, <2>1, <2>5
        <4>2. base[r] <= commits
          BY <1>0 DEF Progress
        <4>3. QED
          BY <2>2, <2>5, <3>2, <4>1, <4>2
      <3>3. QED
        BY <3>1, <3>2
    <2>6. CASE r # i /\ a # i
      <3>1. a \in Active \ {r} /\ stage[r] # "idle" /\ a \in Renders
        BY <1>0, <2>1, <2>2, <2>3, <2>6 DEF Active
      <3>2. base'[r] = base[r] /\ base'[a] = base[a]
        BY <1>0, <2>1, <2>6, <3>1
      <3>3. QED
        BY <1>0, <2>1, <2>2, <2>6, <3>1, <3>2 DEF Overlaps
    <2>7. QED
      BY <2>4, <2>5, <2>6
  <1>3. ASSUME NEW r \in Renders, Query(r) \/ Open(r) \/ WriteBlock(r) \/ Finish(r)
        PROVE  Overlaps'
    <2>1. UNCHANGED <<rivals, base>>
      BY <1>3 DEF Query, Open, WriteBlock, Finish
    <2>2. \A a \in Renders : /\ a \in Active' => a \in Active
                             /\ stage'[a] # "idle" => stage[a] # "idle"
      BY <1>0, <1>3 DEF Query, Open, WriteBlock, Finish, Active
    <2>3. QED
      BY <1>1, <2>1, <2>2
  <1>4. CASE Ends
    <2>1. UNCHANGED <<rivals, base>>
      BY <1>4, EndsKeep
    <2>2. \A a \in Renders : /\ a \in Active' => a \in Active
                             /\ stage'[a] # "idle" => stage[a] # "idle"
      BY <1>4, EndsKeep DEF Active
    <2>3. QED
      BY <1>1, <2>1, <2>2
  <1>5. ASSUME NEW p \in Processes, DigestCurrent(p) PROVE Overlaps'
    BY <1>1, <1>5 DEF DigestCurrent, Active
  <1>6. CASE CommitScore \/ UNCHANGED vars
    BY <1>1, <1>6 DEF CommitScore, vars, Active
  <1>7. QED
    BY <1>2, <1>3, <1>4, <1>5, <1>6 DEF Next, Ends

-----------------------------------------------------------------------------
(* A prefix that its own writer lengthens.                                 *)
LEMMA PrefixGrows ==
    ASSUME DigestInv, NEW r \in Renders, WriteBlock(r), file = Prefix(r)
    PROVE  file' = Prefix(r)'
  <1>1. written[r] \in Nat /\ written'[r] = written[r] + 1 /\ snap'[r] = snap[r]
    BY DEF WriteBlock, DigestInv, TypeOK
  <1>2. file' = Put([k \in 1..written[r] |-> snap[r]], written[r] + 1, snap[r])
    BY DEF WriteBlock, Prefix
  <1>3. file' = [k \in 1..(written[r] + 1) |-> snap[r]]
    BY <1>1, <1>2, PutNext
  <1>4. QED
    BY <1>1, <1>3 DEF Prefix

LEMMA PrefixStarts ==
    ASSUME DigestInv, NEW r \in Renders, Open(r)
    PROVE  file' = Prefix(r)'
  <1>1. file' = <<>> /\ written'[r] = 0
    BY DEF Open, DigestInv, Progress
  <1>2. 1..0 = {}
    OBVIOUS
  <1>3. Prefix(r)' = [k \in 1..0 |-> snap'[r]]
    BY <1>1 DEF Prefix
  <1>4. QED
    BY <1>1, <1>2, <1>3

LEMMA OwnBlocksStep == DigestInv /\ [Next]_vars => OwnBlocks'
  <1> SUFFICES ASSUME DigestInv, [Next]_vars,
                      NEW r \in Renders, stage'[r] = "writing", rivals'[r] = {}
               PROVE  file' = Prefix(r)'
    BY DEF OwnBlocks
  <1> USE DEF To, renderVars
  <1>0. OwnBlocks /\ Overlaps /\ stage \in [Renders -> Stages]
    BY DEF DigestInv, TypeOK
  <1>1. ASSUME stage[r] = "writing", rivals[r] = {},
               file' = file, written'[r] = written[r], snap'[r] = snap[r]
        PROVE  file' = Prefix(r)'
    BY <1>0, <1>1 DEF OwnBlocks, Prefix
  <1>2. ASSUME NEW a \in Renders \ {r}, a \in Active, stage[r] = "writing", rivals[r] = {}
        PROVE  FALSE
    BY <1>0, <1>2 DEF Overlaps, Active
  <1>3. ASSUME NEW a \in Renders, Invoke(a) PROVE file' = Prefix(r)'
    <2>1. a # r /\ stage[r] = "writing" /\ r \in Active
      BY <1>0, <1>3 DEF Invoke, Active
    <2>2. a \in rivals'[r]
      BY <1>3, <2>1 DEF Invoke
    <2>3. QED
      BY <2>2
  <1>4. ASSUME NEW a \in Renders, Query(a) PROVE file' = Prefix(r)'
    <2>1. a # r /\ stage[r] = "writing" /\ rivals[r] = {} /\ a \in Active
      BY <1>0, <1>4 DEF Query, Active
    <2>2. QED
      BY <1>2, <2>1
  <1>5. ASSUME NEW a \in Renders, Open(a) PROVE file' = Prefix(r)'
    <2>1. CASE a = r
      BY <1>5, <2>1, PrefixStarts
    <2>2. CASE a # r
      <3>1. stage[r] = "writing" /\ rivals[r] = {} /\ a \in Active
        BY <1>0, <1>5, <2>2 DEF Open, Active
      <3>2. QED
        BY <1>2, <2>2, <3>1
    <2>3. QED
      BY <2>1, <2>2
  <1>6. ASSUME NEW a \in Renders, WriteBlock(a) PROVE file' = Prefix(r)'
    <2>1. stage[r] = "writing" /\ rivals[r] = {} /\ a \in Active
      BY <1>6 DEF WriteBlock, Active
    <2>2. a = r
      BY <1>2, <2>1
    <2>3. QED
      BY <1>0, <1>6, <2>1, <2>2, PrefixGrows DEF OwnBlocks
  <1>7. ASSUME NEW a \in Renders, Finish(a) PROVE file' = Prefix(r)'
    <2>1. stage[r] = "writing" /\ UNCHANGED <<file, written, snap, rivals>>
      BY <1>0, <1>7 DEF Finish
    <2>2. QED
      BY <1>1, <2>1
  <1>8. CASE Ends
    <2>1. stage[r] = "writing" /\ UNCHANGED <<file, written, snap, rivals>>
      BY <1>8, EndsKeep
    <2>2. QED
      BY <1>1, <2>1
  <1>9. ASSUME NEW p \in Processes, DigestCurrent(p) PROVE file' = Prefix(r)'
    BY <1>1, <1>9 DEF DigestCurrent
  <1>10. CASE CommitScore \/ UNCHANGED vars
    BY <1>1, <1>10 DEF CommitScore, vars
  <1>11. QED
    BY <1>3, <1>4, <1>5, <1>6, <1>7, <1>8, <1>9, <1>10 DEF Next, Ends

-----------------------------------------------------------------------------
(* Renders do not become idle again and faults are not undone.             *)
LEMMA GoesOn ==
    ASSUME DigestInv, [Next]_vars
    PROVE  /\ \A r \in Renders : stage[r] # "idle" => stage'[r] # "idle"
           /\ faults' = 0 => faults = 0
  <1> USE DEF To, renderVars
  <1>0. stage \in [Renders -> Stages]
    BY DEF DigestInv, TypeOK
  <1>1. ASSUME NEW a \in Renders, Invoke(a) \/ Query(a) \/ Open(a) \/ WriteBlock(a) \/ Finish(a)
        PROVE  /\ \A r \in Renders : stage[r] # "idle" => stage'[r] # "idle"
               /\ faults' = faults
    BY <1>0, <1>1 DEF Invoke, Query, Open, WriteBlock, Finish
  <1>2. CASE Ends
    BY <1>2, EndsKeep
  <1>3. ASSUME NEW p \in Processes, DigestCurrent(p) PROVE UNCHANGED <<stage, faults>>
    BY <1>3 DEF DigestCurrent
  <1>4. CASE CommitScore \/ UNCHANGED vars
    BY <1>4 DEF CommitScore, vars
  <1>5. QED
    BY <1>1, <1>2, <1>3, <1>4 DEF Next, Ends

LEMMA AllInStays ==
    ASSUME DigestInv, [Next]_vars, NEW p \in Processes, AllIn(p)'
    PROVE  AllIn(p)
  BY GoesOn DEF AllIn

(* While all renders run in p there is one writer at most.                 *)
LEMMA OneWriter ==
    ASSUME DigestInv, NEW p \in Processes, AllIn(p),
           NEW r \in Renders, stage[r] = "writing", NEW a \in Renders, stage[a] = "writing"
    PROVE  r = a
  BY DEF DigestInv, Exclusive, AllIn

LEMMA FinishedIsWhole ==
    ASSUME DigestInv, NEW r \in Renders, Finish(r), file = Prefix(r)
    PROVE  file' = Doc(snap[r]) /\ Doc(snap[r]) \in Whole
  <1>1. file' = file /\ written[r] = Size[snap[r]]
    BY DEF Finish
  <1>2. snap[r] \in 0..MaxCommits
    BY DEF DigestInv, TypeOK
  <1>3. QED
    BY <1>1, <1>2 DEF Prefix, Doc, Whole

LEMMA ProcessFileStep == DigestInv /\ [Next]_vars => ProcessFile'
  <1> SUFFICES ASSUME DigestInv, [Next]_vars, NEW p \in Processes, AllIn(p)'
               PROVE  /\ \A r \in Renders : stage'[r] = "writing" => file' = Prefix(r)'
                      /\ (\A r \in Renders : stage'[r] # "writing")
                            => file' = NoFile \/ file' \in Whole
    <2>1. Whole' = Whole
      BY DEF Whole, Doc
    <2>2. QED
      BY <2>1 DEF ProcessFile
  <1> USE DEF To, renderVars
  <1> DEFINE Goal == /\ \A r \in Renders : stage'[r] = "writing" => file' = Prefix(r)'
                     /\ (\A r \in Renders : stage'[r] # "writing")
                           => file' = NoFile \/ file' \in Whole
  <1>0. /\ stage \in [Renders -> Stages] /\ snap \in [Renders -> 0..MaxCommits]
        /\ AllIn(p)
    BY AllInStays DEF DigestInv, TypeOK
  <1>00. /\ \A r \in Renders : stage[r] = "writing" => file = Prefix(r)
         /\ (\A r \in Renders : stage[r] # "writing") => file = NoFile \/ file \in Whole
    BY <1>0 DEF DigestInv, ProcessFile
  <1>1. ASSUME file' = file, written' = written,
               \A r \in Renders : /\ stage'[r] = "writing" <=> stage[r] = "writing"
                                  /\ stage[r] = "writing" => snap'[r] = snap[r]
        PROVE  Goal
    BY <1>00, <1>1 DEF Prefix
  <1>2. ASSUME NEW a \in Renders, Invoke(a) \/ Query(a) PROVE Goal
    <2>1. file' = file /\ written' = written
      BY <1>2 DEF Invoke, Query
    <2>2. \A r \in Renders : /\ stage'[r] = "writing" <=> stage[r] = "writing"
                             /\ stage[r] = "writing" => snap'[r] = snap[r]
      BY <1>0, <1>2 DEF Invoke, Query
    <2>3. QED
      BY <1>1, <2>1, <2>2
  <1>3. ASSUME NEW a \in Renders, Open(a) PROVE Goal
    <2>1. stage' = [stage EXCEPT ![a] = "writing"]
      BY <1>3 DEF Open
    <2>2. Home[a] = p
      BY <1>0, <2>1 DEF AllIn
    <2>3. \A r \in Renders : stage[r] # "writing"
      BY <1>0, <1>3, <2>2 DEF Open, LoopFree, AllIn
    <2>4. \A r \in Renders : stage'[r] = "writing" => r = a
      BY <1>0, <2>1, <2>3
    <2>5. stage'[a] = "writing"
      BY <1>0, <2>1
    <2>6. QED
      BY <1>3, <2>4, <2>5, PrefixStarts
  <1>4. ASSUME NEW a \in Renders, WriteBlock(a) PROVE Goal
    <2>1. stage[a] = "writing" /\ stage' = stage
      BY <1>4 DEF WriteBlock
    <2>2. file' = Prefix(a)'
      BY <1>00, <1>4, <2>1, PrefixGrows
    <2>3. \A r \in Renders : stage[r] = "writing" => r = a
      BY <1>0, <2>1, OneWriter
    <2>4. QED
      BY <2>1, <2>2, <2>3
  <1>5. ASSUME NEW a \in Renders, Finish(a) PROVE Goal
    <2>1. stage[a] = "writing" /\ stage' = [stage EXCEPT ![a] = "done"]
      BY <1>5 DEF Finish
    <2>2. \A r \in Renders : stage'[r] # "writing"
      BY <1>0, <2>1, OneWriter
    <2>3. file' \in Whole
      BY <1>00, <1>5, <2>1, FinishedIsWhole
    <2>4. QED
      BY <2>2, <2>3
  <1>6. CASE Ends
    <2>1. faults' = 0
      BY DEF AllIn
    <2>2. \A r \in Renders : stage'[r] = "writing" <=> stage[r] = "writing"
      BY <1>6, <2>1, EndsKeep
    <2>3. UNCHANGED <<file, written, snap>>
      BY <1>6, EndsKeep
    <2>4. QED
      BY <1>1, <2>2, <2>3
  <1>7. ASSUME NEW q \in Processes, DigestCurrent(q) PROVE Goal
    BY <1>1, <1>7 DEF DigestCurrent
  <1>8. CASE CommitScore \/ UNCHANGED vars
    BY <1>1, <1>8 DEF CommitScore, vars
  <1>9. QED
    BY <1>2, <1>3, <1>4, <1>5, <1>6, <1>7, <1>8 DEF Next, Ends

(* What a reader is given.                                                 *)
LEMMA ServedStep == DigestInv /\ [Next]_vars => WholeInOneProcess'
  <1> SUFFICES ASSUME DigestInv, [Next]_vars, TornServed'
               PROVE  \/ faults' > 0
                      \/ \E r \in Renders : stage'[r] # "idle" /\ Home[r] # served'.by
    BY DEF WholeInOneProcess
  <1> USE DEF To, renderVars
  <1>0. /\ WholeInOneProcess /\ TypeOK' /\ TypeOK /\ Whole' = Whole
    BY TypesStep DEF DigestInv, Whole, Doc
  <1>1. faults \in Nat /\ faults' \in Nat
    BY <1>0, BoundAssumption DEF TypeOK
  <1>2. ASSUME served' = served
        PROVE  faults' > 0 \/ \E r \in Renders : stage'[r] # "idle" /\ Home[r] # served'.by
    <2>1. TornServed
      BY <1>0, <1>2 DEF TornServed
    <2>2. faults > 0 \/ \E r \in Renders : stage[r] # "idle" /\ Home[r] # served.by
      BY <1>0, <2>1 DEF WholeInOneProcess
    <2>3. faults > 0 => faults' > 0
      BY <1>1, GoesOn
    <2>4. QED
      BY <1>2, <2>2, <2>3, GoesOn
  <1>3. ASSUME NEW p \in Processes, DigestCurrent(p)
        PROVE  faults' > 0 \/ \E r \in Renders : stage'[r] # "idle" /\ Home[r] # served'.by
    <2>1. /\ LoopFree(p) /\ served' = [by |-> p, blocks |-> file]
          /\ UNCHANGED <<stage, faults>>
      BY <1>3 DEF DigestCurrent
    <2>2. served'.by = p /\ served'.blocks = file
      BY <2>1
    <2>3. file # NoFile /\ file \notin Whole
      BY <1>0, <2>2 DEF TornServed
    <2>4. CASE AllIn(p)
      <3>1. \A r \in Renders : stage[r] # "writing"
        BY <2>1, <2>4 DEF LoopFree, AllIn
      <3>2. QED
        BY <2>3, <2>4, <3>1 DEF DigestInv, ProcessFile
    <2>5. CASE ~AllIn(p)
      <3>1. faults # 0 \/ \E r \in Renders : stage[r] # "idle" /\ Home[r] # p
        BY <2>5 DEF AllIn
      <3>2. faults # 0 => faults' > 0
        BY <1>1, <2>1
      <3>3. QED
        BY <2>1, <2>2, <3>1, <3>2
    <2>6. QED
      BY <2>4, <2>5
  <1>4. ASSUME NEW r \in Renders, Invoke(r) \/ Query(r) \/ Open(r) \/ WriteBlock(r) \/ Finish(r)
        PROVE  served' = served
    BY <1>4 DEF Invoke, Query, Open, WriteBlock, Finish
  <1>5. ASSUME Ends \/ CommitScore \/ UNCHANGED vars PROVE served' = served
    BY <1>5, EndsKeep DEF CommitScore, vars
  <1>6. QED
    BY <1>2, <1>3, <1>4, <1>5 DEF Next, Ends

-----------------------------------------------------------------------------
(* What is found in the file after a render has opened it.                 *)
LEMMA FreshBlocksStep == DigestInv /\ [Next]_vars => FreshBlocks'
  <1> SUFFICES ASSUME DigestInv, [Next]_vars,
                      NEW r \in Renders, stage'[r] \in {"writing", "done"}
               PROVE  /\ file' # NoFile
                      /\ \A k \in DOMAIN file' :
                           \/ file'[k] = Hole
                           \/ file'[k] >= base'[r]
                           \/ \E a \in rivals'[r] : written'[a] > 0 /\ snap'[a] = file'[k]
    BY DEF FreshBlocks
  <1> USE DEF To, renderVars
  <1> DEFINE Left(blocks, k) == \/ blocks[k] = Hole
                                \/ blocks[k] >= base'[r]
                                \/ \E a \in rivals'[r] : written'[a] > 0 /\ snap'[a] = blocks[k]
             Goal == file' # NoFile /\ \A k \in DOMAIN file' : Left(file', k)
  <1>0. /\ Progress /\ Overlaps /\ FreshBlocks /\ TypeOK /\ TypeOK'
        /\ stage \in [Renders -> Stages] /\ written \in [Renders -> Nat]
        /\ snap \in [Renders -> 0..MaxCommits] /\ base \in [Renders -> 0..MaxCommits]
        /\ rivals \in [Renders -> SUBSET Renders]
    BY TypesStep DEF DigestInv, TypeOK
  <1>1. ASSUME stage[r] \in {"writing", "done"}, base'[r] = base[r], rivals[r] \subseteq rivals'[r],
               \A a \in Renders : written[a] > 0 => written'[a] > 0 /\ snap'[a] = snap[a]
        PROVE  file # NoFile /\ \A k \in DOMAIN file : Left(file, k)
    BY <1>0, <1>1 DEF FreshBlocks
  <1>2. ASSUME NEW a \in Renders, Invoke(a) PROVE Goal
    <2>1. a # r /\ stage[r] \in {"writing", "done"} /\ file' = file
      BY <1>0, <1>2 DEF Invoke
    <2>2. base'[r] = base[r] /\ rivals[r] \subseteq rivals'[r]
      BY <1>0, <1>2, <2>1 DEF Invoke
    <2>3. QED
      BY <1>1, <1>2, <2>1, <2>2 DEF Invoke
  <1>3. ASSUME NEW a \in Renders, Query(a) PROVE Goal
    <2>1. a # r /\ stage[r] \in {"writing", "done"} /\ UNCHANGED <<file, base, rivals, written>>
      BY <1>0, <1>3 DEF Query
    <2>2. written[a] = 0 /\ \A b \in Renders \ {a} : snap'[b] = snap[b]
      BY <1>0, <1>3 DEF Query, Progress
    <2>3. \A b \in Renders : written[b] > 0 => b # a
      BY <2>2
    <2>4. QED
      BY <1>1, <2>1, <2>2, <2>3
  <1>4. ASSUME NEW a \in Renders, Open(a) PROVE Goal
    <2>1. file' = <<>> /\ DOMAIN file' = {}
      BY <1>4 DEF Open
    <2>2. <<>> \in Seq(Blocks)
      OBVIOUS
    <2>3. QED
      BY <2>1, <2>2, NoFileAssumption
  <1>5. ASSUME NEW a \in Renders, WriteBlock(a) PROVE Goal
    <2>1. /\ stage[a] = "writing" /\ stage[r] \in {"writing", "done"}
          /\ UNCHANGED <<base, rivals, snap, stage>>
          /\ written' = [written EXCEPT ![a] = @ + 1]
          /\ file' = Put(file, written[a] + 1, snap[a])
      BY <1>5 DEF WriteBlock
    <2>2. /\ written[a] \in Nat /\ snap[a] \in Blocks /\ base[r] \in Int /\ base[a] \in Int
          /\ snap[a] \in Int /\ written[a] + 1 \in Nat \ {0}
      <3>1. written[a] \in Nat /\ snap[a] \in 0..MaxCommits /\ base[r] \in 0..MaxCommits /\ base[a] \in 0..MaxCommits
        BY <1>0
      <3>2. QED
        BY <3>1 DEF Blocks
    <2>3. file # NoFile /\ file \in Seq(Blocks)
      BY <1>0, <2>1 DEF FreshBlocks, TypeOK
    <2>4. file' \in Seq(Blocks) /\ file' # NoFile
      BY <2>1, <2>2, <2>3, PutTypes, NoFileAssumption
    <2>5. written'[a] > 0 /\ \A b \in Renders : written[b] > 0 => written'[b] > 0
      <3>1. written'[a] = written[a] + 1 /\ \A b \in Renders \ {a} : written'[b] = written[b]
        BY <1>0, <2>1
      <3>2. QED
        BY <2>2, <3>1
    <2>6. \A k \in DOMAIN file : Left(file, k)
      BY <1>1, <2>1, <2>5
    <2>7. snap[a] >= base'[r] \/ \E b \in rivals'[r] : written'[b] > 0 /\ snap'[b] = snap[a]
      <3>1. base[a] <= snap[a]
        BY <1>0, <2>1 DEF Progress
      <3>2. CASE a = r
        BY <2>1, <2>2, <3>1, <3>2
      <3>3. CASE a # r
        <4>1. a \in Active \ {r} /\ stage[r] # "idle"
          BY <2>1, <3>3 DEF Active
        <4>2. a \in rivals[r] \/ base[r] <= base[a]
          BY <1>0, <4>1 DEF Overlaps
        <4>3. CASE a \in rivals[r]
          BY <2>1, <2>5, <4>3
        <4>4. CASE base[r] <= base[a]
          BY <2>1, <2>2, <3>1, <4>4
        <4>5. QED
          BY <4>2, <4>3, <4>4
      <3>4. QED
        BY <3>2, <3>3
    <2>8. \A k \in DOMAIN file' : \/ file'[k] = snap[a]
                                  \/ file'[k] = Hole
                                  \/ k \in DOMAIN file /\ file'[k] = file[k]
      BY <2>1, <2>2, <2>3, PutTypes
    <2>9. \A k \in DOMAIN file' : Left(file', k)
      BY <2>6, <2>7, <2>8
    <2>10. QED
      BY <2>4, <2>9
  <1>6. ASSUME NEW a \in Renders, Finish(a) PROVE Goal
    <2>1. stage[r] \in {"writing", "done"} /\ UNCHANGED <<file, base, rivals, written, snap>>
      BY <1>0, <1>6 DEF Finish
    <2>2. QED
      BY <1>1, <2>1
  <1>7. CASE Ends
    <2>1. stage[r] \in {"writing", "done"} /\ UNCHANGED <<file, base, rivals, written, snap>>
      BY <1>7, EndsKeep
    <2>2. QED
      BY <1>1, <2>1
  <1>8. ASSUME NEW p \in Processes, DigestCurrent(p) PROVE Goal
    BY <1>1, <1>8 DEF DigestCurrent
  <1>9. CASE CommitScore \/ UNCHANGED vars
    BY <1>1, <1>9 DEF CommitScore, vars
  <1>10. QED
    BY <1>2, <1>3, <1>4, <1>5, <1>6, <1>7, <1>8, <1>9 DEF Next, Ends

-----------------------------------------------------------------------------
(* THEOREM: the invariant the digest's guarantees rest on holds.           *)
THEOREM DigestInvariance == Spec => []DigestInv
  <1>1. DigestInv /\ [Next]_vars => DigestInv'
    BY TypesStep, ProgressStep, ExclusiveStep, OverlapsStep, OwnBlocksStep,
       ProcessFileStep, FreshBlocksStep, ServedStep DEF DigestInv
  <1>2. QED
    BY InitInv, <1>1, PTL DEF Spec

(* THEOREM: every variable keeps its type, and no render writes more       *)
(* blocks than its document has.                                           *)
THEOREM DigestTypeCorrect == Spec => []TypeOK
  <1>1. DigestInv => TypeOK
    BY DEF DigestInv
  <1>2. QED
    BY DigestInvariance, <1>1, PTL

(* THEOREM: in one process that is not killed and does not run out of disk *)
(* digest_current never serves half a document.                            *)
THEOREM ReadersSeeWholeFiles == Spec => []WholeInOneProcess
  <1>1. DigestInv => WholeInOneProcess
    BY DEF DigestInv
  <1>2. QED
    BY DigestInvariance, <1>1, PTL

(* THEOREM: a render that overlapped no other leaves its own document,     *)
(* whole.                                                                  *)
THEOREM AloneRendersAreComplete == Spec => AloneRenderIsComplete
  <1> DEFINE Alone == \A r \in Renders :
                         /\ stage[r] = "writing" /\ stage'[r] = "done"
                         /\ rivals[r] = {}
                         => file' = Doc(snap[r])
  <1>1. ASSUME DigestInv, [Next]_vars PROVE [Alone]_vars
    <2> SUFFICES ASSUME NEW r \in Renders, stage[r] = "writing", stage'[r] = "done", rivals[r] = {}
                 PROVE  file' = Doc(snap[r])
      OBVIOUS
    <2> USE DEF To, renderVars
    <2>1. stage \in [Renders -> Stages] /\ file = Prefix(r)
      BY <1>1 DEF DigestInv, TypeOK, OwnBlocks
    <2>2. ASSUME NEW a \in Renders, Invoke(a) \/ Query(a) \/ Open(a) \/ WriteBlock(a) PROVE FALSE
      BY <2>1, <2>2 DEF Invoke, Query, Open, WriteBlock
    <2>3. ~Ends
      BY <1>1, EndsKeep
    <2>4. ASSUME NEW p \in Processes, DigestCurrent(p) PROVE FALSE
      BY <2>4 DEF DigestCurrent
    <2>5. ~(CommitScore \/ UNCHANGED vars)
      BY DEF CommitScore, vars
    <2>6. PICK a \in Renders : Finish(a)
      BY <1>1, <2>2, <2>3, <2>4, <2>5 DEF Next, Ends
    <2>7. a = r
      BY <2>1, <2>6 DEF Finish
    <2>8. QED
      BY <1>1, <2>1, <2>6, <2>7, FinishedIsWhole
  <1>2. QED
    BY DigestInvariance, <1>1, PTL DEF Spec, AloneRenderIsComplete

(* THEOREM: a whole document is never older than the scores that were      *)
(* committed before a finished render was invoked, unless a render that    *)
(* overlapped it wrote it.                                                 *)
THEOREM DigestsKeepUp == Spec => []DigestKeepsUp
  <1>1. ASSUME DigestInv, NEW r \in Renders, NEW s \in 0..MaxCommits,
               stage[r] = "done", file = Doc(s)
        PROVE  s >= base[r] \/ \E a \in rivals[r] : snap[a] = s
    <2>1. Size[s] \in Nat \ {0}
      BY SizeAssumption
    <2>2. 1 \in DOMAIN file /\ file[1] = s
      BY <1>1, <2>1 DEF Doc
    <2>3. s # Hole
      BY DEF Hole
    <2>4. QED
      BY <1>1, <2>2, <2>3 DEF DigestInv, FreshBlocks
  <1>2. DigestInv => DigestKeepsUp
    BY <1>1 DEF DigestKeepsUp
  <1>3. QED
    BY DigestInvariance, <1>2, PTL
=============================================================================
