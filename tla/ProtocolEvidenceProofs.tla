------------------------ MODULE ProtocolEvidenceProofs ------------------------
(***************************************************************************)
(* Proofs about the files of protocol-mine and what Stage 4 makes of them, *)
(* for every project, every answer of a model and every kill.              *)
(*                                                                         *)
(* The files rest on the order in which they are written (FilesInv), the   *)
(* vote on majorities that meet, and the plan on what the evidence keeps   *)
(* from the answers to the disk (EvidenceInv) and on the projection that   *)
(* the plan was compared with (PlanInv).  The frame rests on where the     *)
(* miner finds one load per offset (MinedInv), and the confidence on how   *)
(* far apart two rounded shares can be.                                    *)
(***************************************************************************)
EXTENDS ProtocolEvidenceProps, FoldLemmas

(* The five files by name.                                                  *)
LEMMA FileFacts ==
    /\ ToSet(Files) = FileNames
    /\ Files \in Remainders
    /\ Written(Files) = {}
  BY DEF ToSet, Files, FileNames, Remainders, Written

(* Writing the next file leaves the rest of them.                           *)
LEMMA NextFile ==
    ASSUME NEW rest \in Remainders
    PROVE  /\ Head(rest) \in FileNames
           /\ Tail(rest) \in Remainders \cup {<<>>}
           /\ Tail(rest) # Files
           /\ rest # <<>>
           /\ Tail(rest) # <<>> => Written(Tail(rest)) = Written(rest) \cup {Head(rest)}
           /\ Tail(rest) = <<>> => FileNames = Written(rest) \cup {Head(rest)}
  <1> USE DEF Written, Files, FileNames, Remainders
  <1>1. CASE rest = Files
    <2>1. Head(rest) = "facts" /\ Tail(rest) = <<"conventions", "ir", "protocol", "contract">>
      BY <1>1
    <2>2. QED
      BY <1>1, <2>1
  <1>2. CASE rest = <<"conventions", "ir", "protocol", "contract">>
    <2>1. Head(rest) = "conventions" /\ Tail(rest) = <<"ir", "protocol", "contract">>
      BY <1>2
    <2>2. QED
      BY <1>2, <2>1
  <1>3. CASE rest = <<"ir", "protocol", "contract">>
    <2>1. Head(rest) = "ir" /\ Tail(rest) = <<"protocol", "contract">>
      BY <1>3
    <2>2. QED
      BY <1>3, <2>1
  <1>4. CASE rest = <<"protocol", "contract">>
    <2>1. Head(rest) = "protocol" /\ Tail(rest) = <<"contract">>
      BY <1>4
    <2>2. QED
      BY <1>4, <2>1
  <1>5. CASE rest = <<"contract">>
    <2>1. Head(rest) = "contract" /\ Tail(rest) = <<>>
      BY <1>5
    <2>2. QED
      BY <1>5, <2>1
  <1>6. QED
    BY <1>1, <1>2, <1>3, <1>4, <1>5

(* What is no plan yet, or refused, is not accepted.                        *)
LEMMA NoneAccepted ==
    NoPlan.accepted = FALSE /\ Refused.accepted = FALSE
  BY DEF NoPlan, Refused

(* A command starts with the directory as it is. *)
LEMMA InitFiles ==
    ASSUME Init
    PROVE  FilesInv
  BY FileFacts DEF Init, FilesInv, OfOneCommand, NoPlan

(* What a plan rests on does not change while the directory does not.       *)
LEMMA OrderKept ==
    ASSUME InOrder, UNCHANGED <<disk, mined, project>>
    PROVE  InOrder'
  BY DEF InOrder, Reconciled, Contract, Scope

(* Every step of either command keeps the files as FilesInv says.           *)
LEMMA FilesStep ==
    ASSUME FilesInv, [Next]_vars
    PROVE  FilesInv'
  <1>1. CASE Mine \/ MineFails
    <2>1. /\ phase = "idle" /\ phase' \in {"idle", "sampling", "merging"} /\ plan' = NoPlan
          /\ UNCHANGED <<disk, interrupted>>
      BY <1>1 DEF Mine, MineFails, Start, diskVars
    <2>2. QED
      BY <2>1, NoneAccepted DEF FilesInv, OfOneCommand
  <1>2. CASE Sample \/ SampleFails \/ Vote
    BY <1>2 DEF Sample, SampleFails, Vote, End, diskVars, FilesInv, OfOneCommand
  <1>3. CASE Merge
    <2>1. /\ phase = "merging" /\ disk' = disk /\ interrupted' = interrupted /\ plan' = plan
          /\ \/ phase' = "writing" /\ pending' = Files
             \/ phase' = "idle"
      BY <1>3 DEF Merge, Store, ToWrite, End
    <2>2. QED
      BY <2>1, FileFacts DEF FilesInv, OfOneCommand
  <1>4. CASE WriteFile
    <2>1. /\ phase = "writing" /\ pending \in Remainders
          /\ disk' = [disk EXCEPT ![Head(pending)] = Len(mined)]
          /\ pending' = Tail(pending) /\ mined' = mined /\ plan' = plan
      BY <1>4 DEF WriteFile, FilesInv
    <2>2. ~plan.accepted
      BY <2>1 DEF FilesInv
    <2>3. DOMAIN disk' = FileNames
      BY <2>1 DEF FilesInv
    <2>4. \A f \in Written(pending) \cup {Head(pending)} : disk'[f] = Len(mined)
      BY <2>1, NextFile DEF FilesInv, Written
    <2>5. CASE Tail(pending) = <<>>
      <3>1. \A f \in FileNames : disk'[f] = Len(mined)
        BY <2>1, <2>4, <2>5, NextFile
      <3>2. phase' = "idle"
        BY <1>4, <2>5 DEF WriteFile, End
      <3>3. QED
        BY <2>1, <2>2, <2>3, <3>1, <3>2 DEF FilesInv, OfOneCommand
    <2>6. CASE Tail(pending) # <<>>
      <3>1. phase' = "writing" /\ pending' \in Remainders /\ pending' # Files
        BY <1>4, <2>1, <2>6, NextFile DEF WriteFile
      <3>2. Written(pending') = Written(pending) \cup {Head(pending)}
        BY <2>1, <2>6, NextFile
      <3>3. QED
        BY <2>1, <2>2, <2>3, <2>4, <3>1, <3>2 DEF FilesInv
    <2>7. QED
      BY <2>5, <2>6
  <1>5. CASE Kill
    BY <1>5 DEF Kill, End, FilesInv, OfOneCommand
  <1>6. CASE Load
    <2>1. /\ phase = "idle" /\ UNCHANGED <<project, disk, mined, interrupted>>
          /\ \/ InOrder /\ phase' = "planning" /\ plan' = NoPlan
             \/ phase' = "idle" /\ plan' = Refused
      BY <1>6 DEF Load, diskVars, InOrder
    <2>2. ~plan'.accepted
      BY <2>1, NoneAccepted
    <2>3. QED
      BY <2>1, <2>2, OrderKept DEF FilesInv, OfOneCommand
  <1>7. CASE Answer
    <2>1. /\ phase = "planning" /\ phase' = "idle"
          /\ UNCHANGED <<project, disk, mined, interrupted, pending>>
      BY <1>7 DEF Answer, diskVars
    <2>2. QED
      BY <2>1, OrderKept DEF FilesInv, OfOneCommand
  <1>8. CASE UNCHANGED vars
    <2>1. UNCHANGED <<phase, project, plan, disk, mined, interrupted, pending>>
      BY <1>8 DEF vars, diskVars
    <2>2. QED
      BY <2>1, OrderKept DEF FilesInv, OfOneCommand
  <1>9. QED
    BY <1>1, <1>2, <1>3, <1>4, <1>5, <1>6, <1>7, <1>8 DEF Next

(* In every reachable state the files already written are of the command at *)
(* work, all five are of one command once it is done, and a plan is asked   *)
(* for or taken only on an IR and a contract that were found in order       *)
(* (write_protocol, Stage4Generator.run).                                   *)
THEOREM FilesCorrect == Spec => []FilesInv
  BY InitFiles, FilesStep, PTL DEF Spec

(* Whatever the parsers, the answers and the kills: the files on disk are   *)
(* of one command unless the last one that wrote was killed, and a plan     *)
(* that is taken has its IR, its contract and its triplet about one         *)
(* function (write_protocol, Stage4Generator.run).                          *)
THEOREM WholeOrInterrupted == Spec => []WholeUnlessInterrupted
  <1>1. ASSUME FilesInv, phase # "writing", ~interrupted
        PROVE  Cardinality({disk[f] : f \in DOMAIN disk}) = 1
    <2>1. {disk[f] : f \in DOMAIN disk} = {disk["ir"]}
      BY <1>1 DEF FilesInv, OfOneCommand, FileNames
    <2>2. QED
      BY <2>1, FS_Singleton
  <1>2. ASSUME FilesInv, plan.accepted, disk["ir"] # 0
        PROVE  IR.entry = Scope.isf /\ Contract.entry = Scope.isf
    <2>1. Diagnostics(mined[disk["ir"]], Scope.isf, Scope.rows) = {} /\ Contract.entry = Scope.isf
      BY <1>2 DEF FilesInv, InOrder, Reconciled
    <2>2. mined[disk["ir"]].entry = Scope.isf
      BY <2>1 DEF Diagnostics
    <2>3. QED
      BY <2>1, <2>2 DEF IR
  <1>3. FilesInv => WholeUnlessInterrupted
    BY <1>1, <1>2 DEF WholeUnlessInterrupted
  <1>4. QED
    BY FilesCorrect, <1>3, PTL

---------------------------------------------------------------------------
(* The vote.                                                                *)

(* The samples that make a claim.                                           *)
Backers(samples, claim) == {i \in DOMAIN samples : claim \in Claims(samples[i])}

(* What reaches a threshold was offered by that many samples.               *)
LEMMA ReachingBacked ==
    ASSUME NEW offers, NEW threshold, NEW c \in Reaching(Tally(offers), threshold)
    PROVE  Cardinality({i \in DOMAIN offers : c \in offers[i]}) >= threshold
  BY DEF Reaching, Tally

(* An operation is named as it was voted.                                   *)
LEMMA OperationNamed ==
    ASSUME NEW opcode, NEW evidence
    PROVE  StatefulOperation(opcode, evidence).opcode = opcode
  BY DEF StatefulOperation

(* Only opcodes that reach the threshold become operations.                 *)
LEMMA OperationsReach ==
    ASSUME NEW samples, NEW o \in StatefulOperations(samples)
    PROVE  o.opcode \in Reaching(Tally(OpcodeOffers(samples)), Threshold(samples))
  <1> DEFINE reaching == Reaching(Tally(OpcodeOffers(samples)), Threshold(samples))
             evidence(opcode) ==
                UNION {x.evidence : x \in {y \in UNION {s.operations : s \in ToSet(samples)} :
                                               y.opcode = opcode}}
  <1>1. o \in {StatefulOperation(p, evidence(p)) : p \in {q \in reaching : evidence(q) # {}}}
    BY DEF StatefulOperations
  <1> HIDE DEF reaching, evidence
  <1>2. PICK p \in reaching : o = StatefulOperation(p, evidence(p))
    BY <1>1
  <1>3. o.opcode = p
    BY <1>2, OperationNamed
  <1>4. QED
    BY <1>2, <1>3 DEF reaching

(* Backers of a part of the claims are backers of the whole.                *)
LEMMA BackersCount ==
    ASSUME NEW S, NEW samples \in Seq(S), NEW claim,
           NEW some \in SUBSET Backers(samples, claim), Cardinality(some) >= Threshold(samples)
    PROVE  Cardinality(Backers(samples, claim)) >= Threshold(samples)
  <1>1. IsFiniteSet(DOMAIN samples)
    BY FS_Interval
  <1>2. IsFiniteSet(Backers(samples, claim))
    BY <1>1, FS_Subset DEF Backers
  <1>3. /\ IsFiniteSet(some) /\ Cardinality(some) <= Cardinality(Backers(samples, claim))
    BY <1>2, FS_Subset
  <1>4. Cardinality(some) \in Nat /\ Cardinality(Backers(samples, claim)) \in Nat
    BY <1>2, <1>3, FS_CardinalityType
  <1>5. Threshold(samples) \in Nat
    BY DEF Threshold
  <1>6. QED
    BY <1>3, <1>4, <1>5

(* Every claim of a vote has a majority behind it.                          *)
LEMMA ClaimsBacked ==
    ASSUME NEW S, NEW samples \in Seq(S), NEW rejections,
           NEW claim \in Claims(VoteConventions(samples, rejections))
    PROVE  Cardinality(Backers(samples, claim)) >= Threshold(samples)
  <1> DEFINE c == VoteConventions(samples, rejections)
             backing(offers, x) == {i \in DOMAIN offers : x \in offers[i]}
  <1>1. /\ c.steps = MajorityFrom(Tally(StepOffers(samples)), Threshold(samples))
        /\ c.source = MajorityFrom(Tally(SourceOffers(samples)), Threshold(samples))
        /\ c.sequence = Supported(samples, LAMBDA s : s.sequence)
        /\ c.evidence = Supported(samples, LAMBDA s : s.evidence)
        /\ c.operations = StatefulOperations(samples)
    BY DEF VoteConventions
  <1>2. CASE \E o \in c.operations : claim = <<"opcode", o.opcode>>
    <2>1. PICK o \in c.operations : claim = <<"opcode", o.opcode>>
      BY <1>2
    <2>2. o.opcode \in Reaching(Tally(OpcodeOffers(samples)), Threshold(samples))
      BY <1>1, <2>1, OperationsReach
    <2>3. Cardinality(backing(OpcodeOffers(samples), o.opcode)) >= Threshold(samples)
      BY <2>2, ReachingBacked
    <2>4. backing(OpcodeOffers(samples), o.opcode) \subseteq Backers(samples, claim)
      BY <2>1 DEF OpcodeOffers, Offers, Backers, Claims
    <2>5. QED
      BY <2>3, <2>4, BackersCount
  <1>3. CASE \E n \in c.steps : claim = <<"steps", n>>
    <2>1. PICK n \in c.steps : claim = <<"steps", n>>
      BY <1>3
    <2>2. n \in Reaching(Tally(StepOffers(samples)), Threshold(samples))
      BY <1>1, <2>1 DEF MajorityFrom
    <2>3. Cardinality(backing(StepOffers(samples), n)) >= Threshold(samples)
      BY <2>2, ReachingBacked
    <2>4. backing(StepOffers(samples), n) \subseteq Backers(samples, claim)
      BY <2>1 DEF StepOffers, Offers, Backers, Claims
    <2>5. QED
      BY <2>3, <2>4, BackersCount
  <1>4. CASE \E x \in c.evidence : claim = <<"snippet", x>>
    <2>1. PICK x \in c.evidence : claim = <<"snippet", x>>
      BY <1>4
    <2> DEFINE offers == [i \in DOMAIN samples |-> samples[i].evidence]
    <2>2. x \in Reaching(Tally(offers), Threshold(samples))
      BY <1>1, <2>1 DEF Supported, Offers
    <2>3. Cardinality(backing(offers, x)) >= Threshold(samples)
      BY <2>2, ReachingBacked
    <2>4. backing(offers, x) \subseteq Backers(samples, claim)
      BY <2>1 DEF Backers, Claims
    <2>5. QED
      BY <2>3, <2>4, BackersCount
  <1>5. CASE \E x \in c.sequence : claim = <<"snippet", x>>
    <2>1. PICK x \in c.sequence : claim = <<"snippet", x>>
      BY <1>5
    <2> DEFINE offers == [i \in DOMAIN samples |-> samples[i].sequence]
    <2>2. x \in Reaching(Tally(offers), Threshold(samples))
      BY <1>1, <2>1 DEF Supported, Offers
    <2>3. Cardinality(backing(offers, x)) >= Threshold(samples)
      BY <2>2, ReachingBacked
    <2>4. backing(offers, x) \subseteq Backers(samples, claim)
      BY <2>1 DEF Backers, Claims
    <2>5. QED
      BY <2>3, <2>4, BackersCount
  <1>6. CASE \E x \in c.source : claim = <<"source", x>>
    <2>1. PICK x \in c.source : claim = <<"source", x>>
      BY <1>6
    <2>2. x \in Reaching(Tally(SourceOffers(samples)), Threshold(samples))
      BY <1>1, <2>1 DEF MajorityFrom
    <2>3. Cardinality(backing(SourceOffers(samples), x)) >= Threshold(samples)
      BY <2>2, ReachingBacked
    <2>4. backing(SourceOffers(samples), x) \subseteq Backers(samples, claim)
      BY <2>1 DEF SourceOffers, Offers, Backers, Claims
    <2>5. QED
      BY <2>3, <2>4, BackersCount
  <1>7. QED
    BY <1>2, <1>3, <1>4, <1>5, <1>6 DEF Claims

(* Two majorities have a sample in common.                                  *)
LEMMA MajoritiesMeet ==
    ASSUME NEW S, NEW samples \in Seq(S), NEW a, NEW b,
           Cardinality(Backers(samples, a)) >= Threshold(samples),
           Cardinality(Backers(samples, b)) >= Threshold(samples)
    PROVE  \E sample \in ToSet(samples) : {a, b} \subseteq Claims(sample)
  <1>1. /\ IsFiniteSet(1..Len(samples)) /\ Cardinality(1..Len(samples)) = Len(samples)
        /\ DOMAIN samples = 1..Len(samples) /\ Len(samples) \in Nat
    <2>1. DOMAIN samples = 1..Len(samples) /\ Len(samples) \in Nat
      OBVIOUS
    <2>2. IsFiniteSet(1..Len(samples))
      BY <2>1, FS_Interval
    <2>3. Cardinality(1..Len(samples)) = Len(samples)
      BY SMTT(30), <2>1, FS_Interval
    <2>4. QED
      BY <2>1, <2>2, <2>3
  <1>2. Backers(samples, a) \cap Backers(samples, b) # {}
    <2>1. /\ Backers(samples, a) \subseteq 1..Len(samples)
          /\ Backers(samples, b) \subseteq 1..Len(samples)
      BY <1>1 DEF Backers
    <2>2. /\ Cardinality(Backers(samples, a)) \in Nat
          /\ Cardinality(Backers(samples, b)) \in Nat
      BY <1>1, <2>1, FS_Subset, FS_CardinalityType
    <2>3. Cardinality(Backers(samples, a)) + Cardinality(Backers(samples, b)) > Len(samples)
      BY <1>1, <2>2 DEF Threshold
    <2>4. QED
      BY <1>1, <2>1, <2>3, FS_MajoritiesIntersect
  <1>3. PICK i \in DOMAIN samples : a \in Claims(samples[i]) /\ b \in Claims(samples[i])
    BY <1>2 DEF Backers
  <1>4. QED
    BY <1>3 DEF ToSet

(* The inductive strengthening: the conventions that go into the merge are  *)
(* the vote of the samples that are kept, or there are none.                *)
SamplesInv ==
    /\ \E S : accepted \in Seq(S)
    /\ phase = "merging" => conventions \in {NoConventions, VoteConventions(accepted, rejected)}

(* Every step keeps the samples and their vote together.                    *)
LEMMA SamplesStep ==
    ASSUME SamplesInv, [Next]_vars
    PROVE  SamplesInv'
  <1>1. CASE Sample
    <2>1. PICK answer : accepted' = Append(accepted, answer)
      BY <1>1 DEF Sample
    <2>2. PICK S : accepted \in Seq(S)
      BY DEF SamplesInv
    <2>3. accepted \in Seq(S \cup {answer})
      BY <2>2
    <2>4. accepted' \in Seq(S \cup {answer})
      BY <2>1, <2>3
    <2>5. phase' # "merging"
      BY <1>1 DEF Sample
    <2>6. QED
      BY <2>4, <2>5 DEF SamplesInv
  <1>2. CASE End /\ phase' = "idle"
    <2>1. accepted' \in Seq({}) /\ phase' # "merging"
      BY <1>2 DEF End
    <2>2. QED
      BY <2>1 DEF SamplesInv
  <1>3. CASE accepted' = accepted /\ phase' # "merging"
    BY <1>3 DEF SamplesInv
  <1>4. CASE UNCHANGED <<accepted, phase, conventions, rejected>>
    BY <1>4 DEF SamplesInv
  <1>5. CASE Mine
    BY <1>5 DEF Mine, Start, SamplesInv
  <1>6. CASE Vote
    BY <1>2, <1>6 DEF Vote, End, SamplesInv
  <1>7. QED
    BY <1>1, <1>2, <1>3, <1>4, <1>5, <1>6
    DEF Next, MineFails, Start, SampleFails, Merge, Store, WriteFile, Kill, Load, Answer, End,
        miningVars, vars

(* The conventions stay the vote of the samples.                            *)
THEOREM SamplesKept == Spec => []SamplesInv
  <1>1. Init => SamplesInv
    <2>1. <<>> \in Seq({})
      OBVIOUS
    <2>2. QED
      BY <2>1 DEF Init, SamplesInv
  <1>2. QED
    BY <1>1, SamplesStep, PTL DEF Spec

(* Any two claims that pass the vote were made together by one sample,      *)
(* whatever the samples are and how many there are: a majority is asked of  *)
(* each (_vote_conventions).                                                *)
THEOREM ClaimsTogether == Spec => []ClaimsShareASample
  <1>1. ASSUME SamplesInv
        PROVE  ClaimsShareASample
    BY <1>1, ClaimsBacked, MajoritiesMeet DEF SamplesInv, ClaimsShareASample
  <1>2. QED
    BY <1>1, SamplesKept, PTL

---------------------------------------------------------------------------
(* What a plan is held to.                                                  *)

(* What reaches a threshold was offered by one of the samples.              *)
LEMMA ReachingOffered ==
    ASSUME NEW offers, NEW threshold, NEW c \in Reaching(Tally(offers), threshold)
    PROVE  \E i \in DOMAIN offers : c \in offers[i]
  BY DEF Reaching, Tally, ToSet

(* The opcodes of a sample are in the alphabet, and its snippets mention    *)
(* what they call.                                                          *)
SoundSample(s) ==
    /\ \A o \in s.operations : o.opcode \in ToSet(Alphabet)
    /\ \A t \in Snippets(s) : t.calls \subseteq t.names

(* So are conventions, if there are any; and an opcode has one operation.   *)
SoundConventions(c) ==
    c # NoConventions =>
        /\ SoundSample(c)
        /\ \A o, p \in c.operations : o.opcode = p.opcode => o = p

(* A vote on such samples makes one, with every opcode once.                *)
LEMMA VotedSound ==
    ASSUME NEW A, NEW samples \in Seq(A), \A a \in A : SoundSample(a), NEW rejections
    PROVE  SoundConventions(VoteConventions(samples, rejections))
  <1> DEFINE c == VoteConventions(samples, rejections)
             reaching == Reaching(Tally(OpcodeOffers(samples)), Threshold(samples))
             evidence(opcode) ==
                UNION {x.evidence : x \in {y \in UNION {s.operations : s \in ToSet(samples)} :
                                               y.opcode = opcode}}
  <1>1. /\ c.sequence = Supported(samples, LAMBDA s : s.sequence)
        /\ c.evidence = Supported(samples, LAMBDA s : s.evidence)
        /\ c.operations = StatefulOperations(samples)
    BY DEF VoteConventions
  <1>2. \A i \in DOMAIN samples : samples[i] \in A /\ SoundSample(samples[i])
    OBVIOUS
  <1>3. \A o \in c.operations : \E p \in reaching : o = StatefulOperation(p, evidence(p))
    <2>1. c.operations = {StatefulOperation(p, evidence(p)) : p \in {q \in reaching : evidence(q) # {}}}
      BY <1>1 DEF StatefulOperations
    <2> HIDE DEF c, reaching, evidence
    <2>2. QED
      BY <2>1
  <1>4. \A o \in c.operations : o.opcode \in reaching /\ o = StatefulOperation(o.opcode, evidence(o.opcode))
    <2> HIDE DEF c, reaching, evidence
    <2>1. QED
      BY <1>3, OperationNamed
  <1>5. \A o \in c.operations : o.evidence = evidence(o.opcode)
    <2>1. \A p : StatefulOperation(p, evidence(p)).evidence = evidence(p)
      BY DEF StatefulOperation
    <2> HIDE DEF c, reaching, evidence
    <2>2. QED
      BY <1>4, <2>1
  <1>6. ASSUME NEW o \in c.operations
        PROVE  o.opcode \in ToSet(Alphabet)
    <2>1. PICK i \in DOMAIN OpcodeOffers(samples) : o.opcode \in OpcodeOffers(samples)[i]
      <3> HIDE DEF c
      <3>1. QED
        BY <1>4, ReachingOffered
    <2>2. i \in DOMAIN samples /\ \E x \in samples[i].operations : o.opcode = x.opcode
      BY <2>1 DEF OpcodeOffers, Offers
    <2>3. QED
      BY <1>2, <2>2 DEF SoundSample
  <1>7. ASSUME NEW t \in Snippets(c)
        PROVE  \E i \in DOMAIN samples : t \in Snippets(samples[i])
    <2>1. CASE t \in c.evidence
      <3> DEFINE offers == [i \in DOMAIN samples |-> samples[i].evidence]
      <3>1. t \in Reaching(Tally(offers), Threshold(samples))
        BY <1>1, <2>1 DEF Supported, Offers
      <3>2. PICK i \in DOMAIN offers : t \in offers[i]
        BY <3>1, ReachingOffered
      <3>3. QED
        BY <3>2 DEF Snippets
    <2>2. CASE t \in c.sequence
      <3> DEFINE offers == [i \in DOMAIN samples |-> samples[i].sequence]
      <3>1. t \in Reaching(Tally(offers), Threshold(samples))
        BY <1>1, <2>2 DEF Supported, Offers
      <3>2. PICK i \in DOMAIN offers : t \in offers[i]
        BY <3>1, ReachingOffered
      <3>3. QED
        BY <3>2 DEF Snippets
    <2>3. CASE \E o \in c.operations : t \in o.evidence
      <3>1. PICK o \in c.operations : t \in o.evidence
        BY <2>3
      <3>2. t \in evidence(o.opcode)
        <4> HIDE DEF c, evidence
        <4>1. QED
          BY <1>5, <3>1
      <3>3. PICK i \in DOMAIN samples : \E x \in samples[i].operations : t \in x.evidence
        BY <3>2 DEF ToSet
      <3>4. QED
        BY <3>3 DEF Snippets
    <2>4. t \in c.evidence \cup c.sequence \cup UNION {o.evidence : o \in c.operations}
      BY <1>7 DEF Snippets
    <2> HIDE DEF c
    <2>5. QED
      BY <2>1, <2>2, <2>3, <2>4
  <1>8. \A t \in Snippets(c) : t.calls \subseteq t.names
    <2> HIDE DEF c
    <2>1. QED
      BY <1>2, <1>7 DEF SoundSample
  <1>9. \A o, p \in c.operations : o.opcode = p.opcode => o = p
    <2> HIDE DEF c, reaching, evidence
    <2>1. QED
      BY <1>4
  <1>10. QED
    <2> HIDE DEF c
    <2>1. SoundConventions(c)
      BY <1>6, <1>8, <1>9 DEF SoundConventions, SoundSample
    <2>2. QED
      BY <2>1 DEF c

(* What a plan that was accepted keeps of the projection. Its context is    *)
(* that of the projection or none at all: nothing else is made of it.       *)
KeptOf(b, wanted) ==
    /\ b.context \in {wanted.context, NoContext}
    /\ DOMAIN b.opcodes \in SUBSET Int
    /\ FrameKept(b, wanted) /\ ContextKept(b, wanted)
    /\ StatefulKept(b, wanted) /\ HelpersKept(b, wanted)

(* The samples are answers of the model, whatever was voted or stored is    *)
(* sound, and a file is of one of the IRs that were stored.                 *)
EvidenceInv ==
    /\ project \in DOMAIN Projects
    /\ accepted \in Seq(Scope.answers)
    /\ phase = "merging" => SoundConventions(conventions)
    /\ \E S : mined \in Seq(S)
    /\ \A k \in DOMAIN mined : SoundConventions(mined[k].conventions)
    /\ \A f \in FileNames : disk[f] \in 0..Len(mined)

(* A plan is asked for with the projection of what is on the disk, and one  *)
(* that was accepted keeps it still: no command writes as long as the plan  *)
(* stands.                                                                  *)
PlanInv ==
    /\ phase = "planning" => projection = Projected
    /\ plan.accepted /\ disk["ir"] # 0 => KeptOf(plan.bindings, Projected)

(* Every step keeps the evidence sound: the vote by VotedSound, the merge   *)
(* because it takes the conventions over as they are.                       *)
LEMMA EvidenceStep ==
    ASSUME FilesInv, EvidenceInv, [Next]_vars
    PROVE  EvidenceInv'
  <1>1. project' = project /\ Scope' = Scope
    BY DEF Next, Mine, MineFails, Start, Sample, SampleFails, Vote, Merge, WriteFile, Kill, Load,
           Answer, vars, Scope
  <1>2. \A a \in Scope.answers : SoundSample(a)
    BY ProtocolEvidenceAssumption DEF EvidenceInv, Scope, SoundSample
  <1>3. accepted' \in Seq(Scope.answers)
    <2>1. CASE Sample
      BY <2>1 DEF Sample, EvidenceInv
    <2>2. CASE accepted' \in {accepted, <<>>}
      <3>1. <<>> \in Seq(Scope.answers) /\ accepted \in Seq(Scope.answers)
        BY DEF EvidenceInv
      <3>2. QED
        BY <2>2, <3>1
    <2>3. QED
      BY <2>1, <2>2 DEF Next, Mine, MineFails, Start, SampleFails, Vote, Merge, Store, WriteFile,
                        Kill, Load, Answer, End, miningVars, vars
  <1>4. phase' = "merging" => SoundConventions(conventions')
    <2>1. CASE Vote
      <3>1. accepted \in Seq(Scope.answers)
        BY DEF EvidenceInv
      <3>2. SoundConventions(VoteConventions(accepted, rejected))
        BY <1>2, <3>1, VotedSound
      <3>3. QED
        BY <2>1, <3>2 DEF Vote, End
    <2>2. CASE Mine
      BY <2>2 DEF Mine, SoundConventions
    <2>3. CASE phase' # "merging" \/ (phase' = phase /\ conventions' = conventions)
      BY <2>3 DEF EvidenceInv
    <2>4. QED
      BY <2>1, <2>2, <2>3 DEF Next, MineFails, Start, Sample, SampleFails, Merge, Store, WriteFile,
                              Kill, Load, Answer, End, miningVars, vars
  <1>5. /\ \E S : mined' \in Seq(S)
        /\ Len(mined) <= Len(mined')
        /\ \A k \in DOMAIN mined' : SoundConventions(mined'[k].conventions)
        /\ Len(mined) \in Nat /\ Len(mined') \in Nat
    <2>1. PICK S : mined \in Seq(S)
      BY DEF EvidenceInv
    <2>2. CASE mined' = mined
      BY <2>1, <2>2 DEF EvidenceInv
    <2>3. CASE Merge /\ mined' # mined
      <3> DEFINE ir == MergedIR(parser, facts, conventions)
      <3>1. mined' = Append(mined, ir) /\ SoundConventions(conventions)
        BY <2>3 DEF Merge, Store, EvidenceInv
      <3>2. ir.conventions = conventions
        BY DEF MergedIR
      <3> HIDE DEF ir
      <3>3. mined \in Seq(S \cup {ir})
        BY <2>1
      <3>4. /\ mined' \in Seq(S \cup {ir}) /\ DOMAIN mined' = 1..(Len(mined) + 1)
            /\ mined'[Len(mined) + 1] = ir /\ \A k \in 1..Len(mined) : mined'[k] = mined[k]
            /\ Len(mined') = Len(mined) + 1 /\ Len(mined) \in Nat
        BY <3>1, <3>3
      <3>5. \A k \in 1..Len(mined) : SoundConventions(mined[k].conventions)
        BY <2>1 DEF EvidenceInv
      <3>6. QED
        BY <3>1, <3>2, <3>4, <3>5
    <2>4. QED
      BY <2>2, <2>3 DEF Next, Mine, MineFails, Start, Sample, SampleFails, Vote, WriteFile,
                        Kill, Load, Answer, diskVars, vars
  <1>6. \A f \in FileNames : disk'[f] \in 0..Len(mined')
    <2>1. \A f \in FileNames : disk[f] \in 0..Len(mined)
      BY DEF EvidenceInv
    <2>2. CASE disk' = disk
      BY <1>5, <2>1, <2>2
    <2>3. CASE WriteFile
      <3>1. disk' = [disk EXCEPT ![Head(pending)] = Len(mined)] /\ mined' = mined
        BY <2>3 DEF WriteFile
      <3>2. DOMAIN disk = FileNames
        BY DEF FilesInv
      <3>3. \A f \in FileNames : disk'[f] \in {disk[f], Len(mined)}
        BY <3>1, <3>2
      <3>4. QED
        BY <1>5, <2>1, <3>1, <3>3
    <2>4. QED
      BY <2>2, <2>3 DEF Next, Mine, MineFails, Start, Sample, SampleFails, Vote, Merge, Store,
                        Kill, Load, Answer, diskVars, vars
  <1>7. QED
    BY <1>1, <1>3, <1>4, <1>5, <1>6 DEF EvidenceInv

(* A projection has these parts.                                            *)
IsProjection(p) ==
    p = [frame |-> p.frame, multi |-> p.multi, steps |-> p.steps, repairs |-> p.repairs,
         sampling |-> p.sampling, context |-> p.context, opcodes |-> p.opcodes,
         dependencies |-> p.dependencies, helpers |-> p.helpers]

(* What Projection makes is one.                                            *)
LEMMA ProjectionParts ==
    ASSUME NEW ir, NEW helpers
    PROVE  IsProjection(Projection(ir, helpers))
  BY DEF IsProjection, Projection

(* A projection is neither of the two that stand for none.                  *)
LEMMA NoneOfIt ==
    ASSUME NEW p, IsProjection(p)
    PROVE  p # NoProjection /\ p # NoBindings
  <1>1. DOMAIN p = {"frame", "multi", "steps", "repairs", "sampling", "context", "opcodes",
                    "dependencies", "helpers"}
    BY DEF IsProjection
  <1>2. DOMAIN NoProjection = {"frame"} /\ DOMAIN NoBindings = {"declares"}
    BY DEF NoProjection, NoBindings
  <1>3. QED
    BY <1>1, <1>2

(* A model keeps the context or drops it.                                   *)
LEMMA ContextOfChange ==
    ASSUME IsProjection(projection), NEW change
    PROVE  Changed(change).context \in {projection.context, NoContext}
  <1>1. projection = [frame |-> projection.frame, multi |-> projection.multi,
         steps |-> projection.steps, repairs |-> projection.repairs,
         sampling |-> projection.sampling, context |-> projection.context,
         opcodes |-> projection.opcodes,
         dependencies |-> projection.dependencies, helpers |-> projection.helpers]
    BY DEF IsProjection
  <1> DEFINE p == projection
  <1>2. /\ [p EXCEPT !.frame.payload = {}].context = p.context
        /\ [p EXCEPT !.steps = {OtherCap}].context = p.context
        /\ [p EXCEPT !.repairs = {}].context = p.context
        /\ [p EXCEPT !.context = NoContext].context = NoContext
        /\ [p EXCEPT !.helpers = @ \cup StrongSources(mined[disk["ir"]])].context = p.context
        /\ [p EXCEPT !.dependencies = {}].context = p.context
        /\ [p EXCEPT !.opcodes = IF @ = <<>> THEN @ ELSE Tail(@)].context = p.context
    BY <1>1
  <1>3. QED
    BY <1>2 DEF Changed

(* A word of the alphabet has a place in it.                                *)
LEMMA PositionFacts ==
    ASSUME NEW t \in ToSet(Alphabet)
    PROVE  /\ Position(t) \in 1..Len(Alphabet) /\ Alphabet[Position(t)] = t
           /\ Len(Alphabet) \in Nat
  <1>1. Alphabet \in Seq(ToSet(Alphabet))
    BY ProtocolEvidenceAssumption
  <1>2. DOMAIN Alphabet = 1..Len(Alphabet) /\ Len(Alphabet) \in Nat
    BY <1>1
  <1>3. \E i \in DOMAIN Alphabet : Alphabet[i] = t
    BY DEF ToSet
  <1>4. Position(t) \in DOMAIN Alphabet /\ Alphabet[Position(t)] = t
    BY <1>3 DEF Position
  <1>5. QED
    BY <1>2, <1>4

(* Sorted lists a set of words: all of them, and nothing else. A word       *)
(* stands at its rank, and no two have the same (RankFacts).                *)
LEMMA SortedFacts ==
    ASSUME NEW S \in SUBSET ToSet(Alphabet)
    PROVE  /\ IsFiniteSet(S) /\ Cardinality(S) \in Nat
           /\ Sorted(S) \in Seq(S) /\ ToSet(Sorted(S)) = S
  <1> DEFINE key == [x \in S |-> Position(x)]
             n == Cardinality(S)
             rank(x) == Cardinality({y \in S : Position(y) < Position(x)})
  <1>1. /\ \A x \in S : Position(x) \in 1..Len(Alphabet) /\ Alphabet[Position(x)] = x
        /\ S # {} => Len(Alphabet) \in Nat
    BY PositionFacts
  <1>2. IsFiniteSet(S)
    <2>1. CASE S = {}
      BY <2>1, FS_EmptySet
    <2>2. CASE S # {}
      <3>1. key \in Injection(S, 1..Len(Alphabet))
        BY <1>1 DEF Injection, IsInjective
      <3>2. IsFiniteSet(1..Len(Alphabet))
        BY <1>1, <2>2, FS_Interval
      <3> HIDE DEF key
      <3>3. QED
        BY <3>1, <3>2, FS_Injection
    <2>3. QED
      BY <2>1, <2>2
  <1>3. \A x \in S : Rank(S, key, x) = rank(x)
    <2>1. ASSUME NEW x \in S
          PROVE  {y \in S : key[y] < key[x]} = {y \in S : Position(y) < Position(x)}
      OBVIOUS
    <2>2. QED
      BY <2>1 DEF Rank
  <1>4. /\ n \in Nat
        /\ \A x \in S : rank(x) \in 0..(n - 1)
        /\ \A k \in 1..n : \E x \in S : rank(x) = k - 1
        /\ \A x, y \in S : rank(x) = rank(y) => x = y
    <2>1. Numbered(S, key)
      BY <1>1, <1>2 DEF Numbered
    <2> HIDE DEF key, rank
    <2>2. IsRanking(S, key)
      BY <2>1, RankFacts
    <2>3. QED
      BY <2>2, <1>3 DEF IsRanking
  <1> DEFINE s == Sorted(S)
  <1>5. s = [k \in 1..n |-> CHOOSE x \in S : rank(x) = k - 1]
    BY DEF Sorted
  <1> HIDE DEF n, rank, s
  <1>6. \A k \in 1..n : s[k] \in S /\ rank(s[k]) = k - 1
    BY <1>4, <1>5
  <1>7. s \in [1..n -> S] /\ DOMAIN s = 1..n
    BY <1>5, <1>6
  <1>8. ASSUME NEW x \in S
        PROVE  \E k \in 1..n : s[k] = x
    <2> DEFINE k == rank(x) + 1
    <2>1. k \in 1..n /\ k - 1 = rank(x)
      BY <1>4
    <2> HIDE DEF k
    <2>2. rank(s[k]) = rank(x) /\ s[k] \in S
      BY <2>1, <1>6
    <2>3. QED
      BY <2>1, <2>2, <1>4
  <1>9. s \in Seq(S)
    BY <1>4, <1>7
  <1>10. ToSet(s) = S
    BY <1>6, <1>7, <1>8 DEF ToSet
  <1>11. QED
    BY <1>2, <1>4, <1>9, <1>10 DEF n, s

(* The opcodes of an IR.                                                    *)
OpcodesOf(ir) == {o.opcode : o \in OperationsOf(ir)}

(* The projection of a sound IR lists its opcodes, and has the dependencies *)
(* of its operations.                                                       *)
LEMMA ProjectedOpcodes ==
    ASSUME NEW ir, SoundConventions(ir.conventions), NEW helpers
    PROVE  /\ OpcodesOf(ir) \in SUBSET ToSet(Alphabet)
           /\ Projection(ir, helpers).opcodes \in Seq(OpcodesOf(ir))
           /\ ToSet(Projection(ir, helpers).opcodes) = OpcodesOf(ir)
           /\ Projection(ir, helpers).dependencies = Dependencies(OperationsOf(ir))
           /\ \A o, p \in OperationsOf(ir) : o.opcode = p.opcode => o = p
           /\ Projection(ir, helpers).frame = ir.frame
  <1> DEFINE c == ir.conventions
             p == Projection(ir, helpers)
  <1>1. OpcodesOf(ir) \in SUBSET ToSet(Alphabet)
    BY DEF OpcodesOf, OperationsOf, SoundConventions, SoundSample
  <1>2. /\ p.opcodes = IF c # NoConventions THEN Sorted({o.opcode : o \in c.operations}) ELSE <<>>
        /\ p.dependencies = IF c # NoConventions THEN Dependencies(c.operations) ELSE {}
        /\ p.frame = ir.frame
    BY DEF Projection
  <1>3. CASE c # NoConventions
    <2>1. OperationsOf(ir) = c.operations /\ OpcodesOf(ir) = {o.opcode : o \in c.operations}
      BY <1>3 DEF OperationsOf, OpcodesOf
    <2>2. p.opcodes = Sorted(OpcodesOf(ir)) /\ p.dependencies = Dependencies(OperationsOf(ir))
      BY <1>2, <1>3, <2>1
    <2> HIDE DEF p
    <2>3. QED
      BY <1>1, <1>2, <1>3, <2>1, <2>2, SortedFacts DEF SoundConventions, p
  <1>4. CASE c = NoConventions
    <2>1. OperationsOf(ir) = {} /\ OpcodesOf(ir) = {}
      BY <1>4 DEF OperationsOf, OpcodesOf
    <2>2. Dependencies(OperationsOf(ir)) = {}
      BY <2>1 DEF Dependencies
    <2>3. <<>> \in Seq(OpcodesOf(ir)) /\ ToSet(<<>>) = {}
      BY DEF ToSet
    <2>4. QED
      BY <1>1, <1>2, <1>4, <2>1, <2>2, <2>3
  <1>5. QED
    BY <1>3, <1>4

(* A model changes the list of opcodes into one of the same.                *)
LEMMA OpcodesOfChange ==
    ASSUME IsProjection(projection), NEW S, projection.opcodes \in Seq(S), NEW change
    PROVE  Changed(change).opcodes \in Seq(S)
  <1>1. projection = [frame |-> projection.frame, multi |-> projection.multi,
         steps |-> projection.steps, repairs |-> projection.repairs,
         sampling |-> projection.sampling, context |-> projection.context,
         opcodes |-> projection.opcodes,
         dependencies |-> projection.dependencies, helpers |-> projection.helpers]
    BY DEF IsProjection
  <1> DEFINE p == projection
  <1>2. /\ [p EXCEPT !.frame.payload = {}].opcodes = p.opcodes
        /\ [p EXCEPT !.steps = {OtherCap}].opcodes = p.opcodes
        /\ [p EXCEPT !.repairs = {}].opcodes = p.opcodes
        /\ [p EXCEPT !.context = NoContext].opcodes = p.opcodes
        /\ [p EXCEPT !.helpers = @ \cup StrongSources(mined[disk["ir"]])].opcodes = p.opcodes
        /\ [p EXCEPT !.dependencies = {}].opcodes = p.opcodes
        /\ [p EXCEPT !.opcodes = IF @ = <<>> THEN @ ELSE Tail(@)].opcodes
               = IF p.opcodes = <<>> THEN p.opcodes ELSE Tail(p.opcodes)
    BY <1>1
  <1>3. (IF p.opcodes = <<>> THEN p.opcodes ELSE Tail(p.opcodes)) \in Seq(S)
    OBVIOUS
  <1>4. QED
    BY <1>2, <1>3 DEF Changed

(* A change leaves the fields what they are.                                *)
LEMMA ShapeOfChange ==
    ASSUME IsProjection(projection), NEW change
    PROVE  DOMAIN Changed(change) = DOMAIN projection
  BY DEF Changed

(* The IR that Stage 4 reads is sound.                                      *)
LEMMA SoundOnDisk ==
    ASSUME EvidenceInv, disk["ir"] # 0
    PROVE  SoundConventions(mined[disk["ir"]].conventions)
  <1>1. disk["ir"] \in 1..Len(mined)
    BY DEF EvidenceInv, FileNames
  <1>2. PICK S : mined \in Seq(S)
    BY DEF EvidenceInv
  <1>3. disk["ir"] \in DOMAIN mined
    BY <1>1, <1>2
  <1>4. QED
    BY <1>3 DEF EvidenceInv

(* Every step keeps the plan to the projection: Load makes it, Answer       *)
(* compares with it, and a command that could write starts by forgetting    *)
(* the plan.                                                                *)
LEMMA PlanStep ==
    ASSUME FilesInv, EvidenceInv, PlanInv, [Next]_vars
    PROVE  PlanInv'
  <1>1. CASE Mine \/ MineFails
    <2>1. plan' = NoPlan /\ phase' # "planning"
      BY <1>1 DEF Mine, MineFails, Start
    <2>2. QED
      BY <2>1, NoneAccepted DEF PlanInv
  <1>2. CASE Load
    <2>1. /\ UNCHANGED <<project, disk, mined>> /\ phase = "idle"
          /\ \/ projection' = Projected /\ plan' = plan
             \/ phase' = phase /\ plan' = Refused
          /\ plan = NoPlan
      BY <1>2 DEF Load, diskVars
    <2>2. Projected' = Projected
      BY <2>1 DEF Projected, Scope
    <2>3. QED
      BY <2>1, <2>2, NoneAccepted DEF PlanInv
  <1>3. CASE Answer
    <2>1. /\ UNCHANGED <<project, disk, mined>> /\ phase' = "idle"
          /\ projection = Projected
      BY <1>3 DEF Answer, diskVars, PlanInv
    <2>2. Projected' = Projected
      BY <2>1 DEF Projected, Scope
    <2>3. ASSUME plan'.accepted, disk'["ir"] # 0
          PROVE  KeptOf(plan'.bindings, Projected')
      <3>1. projection = Projection(mined[disk["ir"]], CallableHelpers(mined[disk["ir"]], Scope.rows))
        BY <2>1, <2>3 DEF Projected
      <3>2. IsProjection(projection) /\ projection # NoProjection
        BY <3>1, ProjectionParts, NoneOfIt
      <3>3. PICK change \in Changes : \E order \in Orders(Changed(change).opcodes) :
               Judge([Changed(change) EXCEPT !.opcodes = order], StrategyFor(Changed(change), change), change)
        BY <1>3, <3>2 DEF Answer
      <3>9. PICK order \in Orders(Changed(change).opcodes) :
               Judge([Changed(change) EXCEPT !.opcodes = order], StrategyFor(Changed(change), change), change)
        BY <3>3
      <3> DEFINE b == [Changed(change) EXCEPT !.opcodes = order]
      <3>4. plan'.bindings = b /\ Conforms(b, StrategyFor(Changed(change), change), projection)
        BY <3>9, <2>3 DEF Judge
      <3>5. b.context = Changed(change).context
        OBVIOUS
      <3>6. b.context \in {projection.context, NoContext}
        BY <3>2, <3>5, ContextOfChange
      <3>10. DOMAIN b.opcodes \in SUBSET Int
        <4> DEFINE ir == mined[disk["ir"]]
        <4>1. SoundConventions(ir.conventions)
          BY <2>1, <2>3, SoundOnDisk
        <4> HIDE DEF ir
        <4>2. projection.opcodes \in Seq(OpcodesOf(ir))
          BY <3>1, <4>1, ProjectedOpcodes DEF ir
        <4>3. Changed(change).opcodes \in Seq(OpcodesOf(ir))
          BY <3>2, <4>2, OpcodesOfChange
        <4>4. DOMAIN order = DOMAIN Changed(change).opcodes
          BY <3>9 DEF Orders
        <4>5. DOMAIN order \in SUBSET Int
          BY <4>3, <4>4
        <4>6. b.opcodes = order
          <5>1. DOMAIN Changed(change) = DOMAIN projection
            BY <3>2, ShapeOfChange
          <5>2. "opcodes" \in DOMAIN projection
            BY <3>2 DEF IsProjection
          <5>3. QED
            BY <5>1, <5>2
        <4>7. QED
          BY <4>5, <4>6
      <3> HIDE DEF b
      <3>7. KeptOf(b, projection)
        BY <3>2, <3>4, <3>6, <3>10 DEF KeptOf, Conforms
      <3>8. QED
        BY <3>4, <3>7, <2>1, <2>2
    <2>4. QED
      BY <2>1, <2>3 DEF PlanInv
  <1>4. CASE Sample \/ SampleFails \/ Vote \/ Merge \/ WriteFile \/ Kill
    <2>1. plan' = plan /\ phase # "idle" /\ phase' # "planning"
      BY <1>4 DEF Sample, SampleFails, Vote, Merge, Store, WriteFile, Kill, End
    <2>2. ~plan.accepted
      BY <2>1 DEF FilesInv
    <2>3. QED
      BY <2>1, <2>2 DEF PlanInv
  <1>5. CASE UNCHANGED vars
    <2>1. UNCHANGED <<phase, projection, plan, disk, mined, project>>
      BY <1>5 DEF vars, diskVars
    <2>2. Projected' = Projected
      BY <2>1 DEF Projected, Scope
    <2>3. QED
      BY <2>1, <2>2 DEF PlanInv
  <1>6. QED
    BY <1>1, <1>2, <1>3, <1>4, <1>5 DEF Next

(* What is callable has one definition to link to.                          *)
LEMMA OneLinkable ==
    ASSUME NEW rows, NEW name, Callable(rows, name)
    PROVE  Cardinality({r \in rows : r.name = name /\ r.defined /\ ~r.static}) = 1
  <1> DEFINE named == {r \in rows : r.name = name}
             linkable == {r \in named : Linkable(r)}
  <1>1. linkable = {r \in rows : r.name = name /\ r.defined /\ ~r.static}
    BY DEF Linkable
  <1>2. Resolve(rows, name) = "linkable"
    BY DEF Callable
  <1>3. Resolve(rows, name) =
           CASE named = {} -> "absent"
             [] Cardinality(linkable) > 1 -> "ambiguous"
             [] Cardinality(linkable) = 1 -> "linkable"
             [] linkable = {} /\ (\E r \in named : r.defined) -> "internal"
             [] OTHER -> "declared"
    BY DEF Resolve
  <1> HIDE DEF named, linkable
  <1>4. QED
    BY <1>1, <1>2, <1>3

(* A slot with no problem names what can be called and what was seen.       *)
LEMMA SlotSettled ==
    ASSUME NEW context, NEW evidence, NEW rows, NEW role,
           SlotProblems(context, evidence, rows, role) = {},
           context[role] # NoText, context[role].form \in {"call", "name"}
    PROVE  /\ Callable(rows, context[role].name) \/ FromLibrary(rows, context[role].name)
           /\ Backed(evidence, context[role].name)
  <1> DEFINE slot == context[role]
             U == IF Callable(rows, slot.name) \/ FromLibrary(rows, slot.name) THEN {} ELSE {"unlinkable"}
             B == IF Backed(evidence, slot.name) THEN {} ELSE {"unbacked"}
  <1>1. SlotProblems(context, evidence, rows, role) = {<<role, x>> : x \in U \cup B}
    BY DEF SlotProblems
  <1>2. U \cup B = {}
    BY <1>1
  <1>3. QED
    BY <1>2

(* The name was quoted from the source, or a snippet of the evidence        *)
(* mentions it.                                                             *)
BackedBy(ir, name) == name \in ir.quoted \/ \E s \in Evidence(ir) : name \in s.names

(* A strong source is backed: a snippet mentions what it calls.             *)
LEMMA StrongBacked ==
    ASSUME NEW ir, SoundConventions(ir.conventions), NEW name \in StrongSources(ir)
    PROVE  BackedBy(ir, name)
  BY DEF SoundConventions, SoundSample, StrongSources, BackedBy, Evidence

(* An IR with no diagnostics has a lifecycle that can be performed.         *)
LEMMA LifecycleSettled ==
    ASSUME NEW ir, NEW isf, NEW rows, Diagnostics(ir, isf, rows) = {},
           ir.conventions # NoConventions, NEW role \in Lifecycle,
           ir.conventions.context[role] # NoText,
           ir.conventions.context[role].form \in {"call", "name"}
    PROVE  /\ \/ Callable(rows, ir.conventions.context[role].name)
              \/ FromLibrary(rows, ir.conventions.context[role].name)
           /\ BackedBy(ir, ir.conventions.context[role].name)
  <1> DEFINE c == ir.conventions
  <1>1. UNION {SlotProblems(c.context, c.evidence, rows, r) : r \in Lifecycle} = {}
    BY DEF Diagnostics
  <1>2. SlotProblems(c.context, c.evidence, rows, role) = {}
    BY <1>1
  <1>3. Backed(c.evidence, c.context[role].name)
    BY <1>2, SlotSettled
  <1>4. BackedBy(ir, c.context[role].name)
    BY <1>3 DEF Backed, BackedBy, Evidence, Snippets
  <1>5. QED
    BY <1>2, <1>4, SlotSettled

(* The projection names the functions of the slots, and only these.         *)
LEMMA ContextNames ==
    ASSUME NEW context, ContextProjection(context) # NoContext
    PROVE  \A role \in Lifecycle : ContextProjection(context)[role] =
              IF context[role] # NoText /\ context[role].form \in {"call", "name"}
              THEN context[role].name ELSE ""
  <1> DEFINE function(slot) == IF slot # NoText /\ slot.form \in {"call", "name"} THEN slot.name ELSE ""
             wanted == [type |-> context["type"].text, init |-> function(context["init"]),
                        destroy |-> function(context["destroy"]),
                        lifetime |-> Lifetime(context["lifetime"])]
  <1>1. ContextProjection(context) = wanted
    BY DEF ContextProjection
  <1>2. wanted["init"] = function(context["init"]) /\ wanted["destroy"] = function(context["destroy"])
    OBVIOUS
  <1> HIDE DEF wanted
  <1>3. QED
    BY <1>1, <1>2 DEF Lifecycle

(* The invariants imply the property.                                       *)
LEMMA CallsAnchored ==
    ASSUME FilesInv, EvidenceInv, PlanInv
    PROVE  CallsAreAnchored
  <1> SUFFICES ASSUME plan.accepted, disk["ir"] # 0
               PROVE  CallsAreAnchored
    BY DEF CallsAreAnchored
  <1> DEFINE ir == IR
             rows == Scope.rows
             b == plan.bindings
             c == ir.conventions
             callable == CallableHelpers(ir, rows)
             wanted == Projection(ir, callable)
             definitions(name) == {r \in rows : r.name = name /\ r.defined /\ ~r.static}
             lifecycle == IF b.context = NoContext THEN {} ELSE {b.context.init, b.context.destroy} \ {""}
             called == IF c = NoConventions THEN {}
                       ELSE {c.context[role].name : role \in {r \in Lifecycle :
                                c.context[r] # NoText /\ c.context[r].form \in {"call", "name"}}}
  <1>1. Diagnostics(ir, Scope.isf, rows) = {}
    BY DEF FilesInv, InOrder, Reconciled, IR
  <1>2. SoundConventions(c)
    BY SoundOnDisk DEF IR
  <1>4. KeptOf(b, wanted)
    BY DEF PlanInv, Projected, IR
  <1>5. wanted.helpers = callable /\ wanted.context = IF c # NoConventions THEN ContextProjection(c.context) ELSE NoContext
    BY DEF Projection
  <1>6. callable = {name \in StrongSources(ir) \cup called : Callable(rows, name)}
    BY DEF CallableHelpers
  <1>7. ASSUME NEW name \in called
        PROVE  /\ Callable(rows, name) \/ FromLibrary(rows, name)
               /\ BackedBy(ir, name)
    <2>1. PICK role \in Lifecycle : /\ c # NoConventions /\ c.context[role] # NoText
                                    /\ c.context[role].form \in {"call", "name"}
                                    /\ name = c.context[role].name
      BY <1>7
    <2> HIDE DEF ir, rows
    <2>2. QED
      BY <1>1, <2>1, LifecycleSettled
  <1>8. ASSUME NEW name \in b.helpers
        PROVE  Cardinality(definitions(name)) = 1 /\ BackedBy(ir, name)
    <2>1. name \in callable
      BY <1>4, <1>5 DEF KeptOf, HelpersKept
    <2>2. Callable(rows, name) /\ (name \in StrongSources(ir) \/ name \in called)
      BY <1>6, <2>1
    <2> HIDE DEF ir, rows, called, callable
    <2>3. QED
      BY <1>2, <1>7, <2>2, OneLinkable, StrongBacked
  <1>9. ASSUME NEW name \in lifecycle
        PROVE  /\ Cardinality(definitions(name)) = 1 \/ name \in Library
               /\ BackedBy(ir, name)
    <2>1. /\ b.context # NoContext /\ name \in {b.context.init, b.context.destroy} /\ name # ""
      BY <1>9
    <2>2. /\ c # NoConventions /\ b.context = ContextProjection(c.context)
      BY <1>4, <1>5, <2>1 DEF KeptOf
    <2> DEFINE function(slot) == IF slot # NoText /\ slot.form \in {"call", "name"} THEN slot.name ELSE ""
    <2>3. /\ b.context.init = function(c.context["init"])
          /\ b.context.destroy = function(c.context["destroy"])
      <3> DEFINE context == c.context
                 made == ContextProjection(context)
      <3>1. made = b.context /\ made # NoContext
        BY <2>1, <2>2
      <3> HIDE DEF b, context
      <3>2. \A role \in Lifecycle : made[role] = function(context[role])
        BY <3>1, ContextNames
      <3> HIDE DEF made, function
      <3>3. made["init"] = function(context["init"]) /\ made["destroy"] = function(context["destroy"])
        BY <3>2 DEF Lifecycle
      <3>4. QED
        BY <3>1, <3>3 DEF context
    <2>4. name \in called
      BY <2>1, <2>2, <2>3 DEF Lifecycle
    <2>5. (Callable(rows, name) \/ FromLibrary(rows, name)) /\ BackedBy(ir, name)
      BY <1>7, <2>4
    <2> HIDE DEF ir, rows, called
    <2>6. QED
      BY <2>5, OneLinkable DEF FromLibrary
  <1>10. QED
    BY <1>8, <1>9 DEF CallsAreAnchored, BackedBy

(* At the start nothing was mined and nothing is planned.                   *)
LEMMA InitEvidence ==
    ASSUME Init
    PROVE  EvidenceInv /\ PlanInv
  <1>1. project \in DOMAIN Projects /\ accepted \in Seq(Scope.answers) /\ phase = "idle"
    BY DEF Init
  <1>2. mined = <<>> /\ mined \in Seq({}) /\ Len(mined) = 0 /\ DOMAIN mined = {}
    BY DEF Init
  <1>3. \A f \in FileNames : disk[f] \in 0..Len(mined)
    BY <1>2, FileFacts DEF Init
  <1>4. ~plan.accepted
    BY NoneAccepted DEF Init
  <1>5. QED
    BY <1>1, <1>2, <1>3, <1>4 DEF EvidenceInv, PlanInv

(* Whatever commands ran, were killed or failed, what Stage 4 reads is      *)
(* sound, and an accepted plan keeps the projection of what is on the disk  *)
(* (write_protocol, Stage4Generator.run).                                   *)
THEOREM EvidenceKept == Spec => [](EvidenceInv /\ PlanInv)
  <1>1. FilesInv /\ EvidenceInv /\ PlanInv /\ [Next]_vars => EvidenceInv' /\ PlanInv'
    BY EvidenceStep, PlanStep
  <1>2. QED
    BY <1>1, InitEvidence, FilesCorrect, PTL DEF Spec

(* Whatever a model answers, an accepted plan binds and calls only what has *)
(* one definition to link to, or is of the C library, and was met in the    *)
(* source or in a snippet (reconcile_protocol_ir, validate_plan_contract).  *)
THEOREM AnchoredCalls == Spec => []CallsAreAnchored
  <1>1. FilesInv /\ EvidenceInv /\ PlanInv => CallsAreAnchored
    BY CallsAnchored
  <1>2. QED
    BY <1>1, FilesCorrect, EvidenceKept, PTL

(* No two operations have the same opcode.                                  *)
OneOpcodeEach(ops) == \A o, p \in ops : o.opcode = p.opcode => o = p

(* In this order what is depended on comes first.                           *)
KeepsOrder(order, dependencies) ==
    \A d \in dependencies : \A i, j \in DOMAIN order :
        order[i] = d[1] /\ order[j] = d[2] => i < j

(* An order can be run exactly where it keeps the dependencies: what is     *)
(* compared is what matters.                                                *)
LEMMA RunsInOrder ==
    ASSUME NEW ops, OneOpcodeEach(ops), NEW order, DOMAIN order \in SUBSET Int,
           \A i \in DOMAIN order : order[i] \in {o.opcode : o \in ops}
    PROVE  Runnable(order, ops) <=> KeepsOrder(order, Dependencies(ops))
  <1> DEFINE at(i) == CHOOSE o \in ops : o.opcode = order[i]
             reads(r, w) == w.writes \cap (r.reads \ r.writes) # {}
  <1>1. \A i \in DOMAIN order : at(i) \in ops /\ at(i).opcode = order[i]
    <2>1. \A i \in DOMAIN order : \E o \in ops : o.opcode = order[i]
      OBVIOUS
    <2>2. QED
      BY <2>1
  <1>2. Runnable(order, ops) <=> \A i, j \in DOMAIN order : i < j => ~reads(at(i), at(j))
    BY DEF Runnable
  <1>3. \A w, r \in ops : w.opcode # r.opcode /\ reads(r, w) => <<w.opcode, r.opcode>> \in Dependencies(ops)
    BY DEF Dependencies
  <1>4. \A d \in Dependencies(ops) : \E w, r \in ops : w.opcode # r.opcode /\ reads(r, w) /\ d = <<w.opcode, r.opcode>>
    BY DEF Dependencies
  <1>5. \A w \in ops : ~reads(w, w)
    OBVIOUS
  <1> HIDE DEF at, reads
  <1>6. ASSUME KeepsOrder(order, Dependencies(ops)), NEW i \in DOMAIN order, NEW j \in DOMAIN order,
               i < j, reads(at(i), at(j))
        PROVE  FALSE
    <2>1. at(i) \in ops /\ at(j) \in ops /\ at(i).opcode = order[i] /\ at(j).opcode = order[j]
      BY <1>1
    <2>2. at(i).opcode # at(j).opcode
      BY <2>1, <1>5, <1>6 DEF OneOpcodeEach
    <2> DEFINE d == <<at(j).opcode, at(i).opcode>>
    <2>3. d \in Dependencies(ops) /\ d[1] = order[j] /\ d[2] = order[i]
      BY <2>1, <2>2, <1>3, <1>6
    <2> HIDE DEF d
    <2>4. j < i
      BY <2>3, <1>6 DEF KeepsOrder
    <2>5. QED
      BY <2>4, <1>6
  <1>7. ASSUME \A i, j \in DOMAIN order : i < j => ~reads(at(i), at(j)),
               NEW d \in Dependencies(ops), NEW i \in DOMAIN order, NEW j \in DOMAIN order,
               order[i] = d[1], order[j] = d[2]
        PROVE  i < j
    <2>1. PICK w \in ops : \E r \in ops : w.opcode # r.opcode /\ reads(r, w) /\ d = <<w.opcode, r.opcode>>
      BY <1>4
    <2>2. PICK r \in ops : w.opcode # r.opcode /\ reads(r, w) /\ d = <<w.opcode, r.opcode>>
      BY <2>1
    <2>3. at(i) = w /\ at(j) = r
      <3>1. order[i] = w.opcode /\ order[j] = r.opcode
        BY <2>2, <1>7
      <3>2. QED
        BY <3>1, <1>1 DEF OneOpcodeEach
    <2>4. ~(j < i) /\ i # j
      BY <2>2, <2>3, <1>7
    <2>5. QED
      BY <2>4
  <1>8. QED
    BY <1>2, <1>6, <1>7 DEF KeepsOrder

(* A copy of the projection in another order of the opcodes keeps the       *)
(* contract exactly where the order has all of them and keeps the           *)
(* dependencies. Nothing else that is compared can fail for it.             *)
LEMMA CopyConforms ==
    ASSUME NEW pr, IsProjection(pr), NEW o, NEW p, p = [Bounded(pr) EXCEPT !.opcodes = o]
    PROVE  Conforms(p, StrategyOf(p), pr) <=> ToSet(o) = ToSet(pr.opcodes) /\ KeepsOrder(o, pr.dependencies)
  <1>1. pr = [frame |-> pr.frame, multi |-> pr.multi, steps |-> pr.steps, repairs |-> pr.repairs,
              sampling |-> pr.sampling, context |-> pr.context, opcodes |-> pr.opcodes,
              dependencies |-> pr.dependencies, helpers |-> pr.helpers]
    BY DEF IsProjection
  <1>2. p = [frame |-> pr.frame, multi |-> pr.multi, steps |-> {OtherCap}, repairs |-> pr.repairs,
             sampling |-> pr.sampling, context |-> pr.context, opcodes |-> o,
             dependencies |-> pr.dependencies, helpers |-> pr.helpers]
    BY <1>1 DEF Bounded
  <1>3. /\ p.frame = pr.frame /\ p.multi = pr.multi /\ p.steps = {OtherCap} /\ p.repairs = pr.repairs
        /\ p.sampling = pr.sampling /\ p.context = pr.context /\ p.opcodes = o
        /\ p.dependencies = pr.dependencies /\ p.helpers = pr.helpers
    BY <1>2
  <1>9. IsProjection(p)
    BY <1>2, <1>3 DEF IsProjection
  <1>4. StrategyOf(p).steps = p.steps /\ StrategyOf(p).sampled = p.sampling
    BY DEF StrategyOf
  <1>5. pr # NoProjection /\ p # NoBindings
    BY <1>9, NoneOfIt
  <1>6. FrameKept(p, pr) /\ LoopKept(p, StrategyOf(p), pr) /\ ContextKept(p, pr) /\ HelpersKept(p, pr)
    BY <1>3, <1>4 DEF FrameKept, LoopKept, ContextKept, HelpersKept
  <1>7. StatefulKept(p, pr) <=> ToSet(o) = ToSet(pr.opcodes) /\ KeepsOrder(o, pr.dependencies)
    BY <1>3 DEF StatefulKept, KeepsOrder
  <1>8. QED
    BY <1>5, <1>6, <1>7 DEF Conforms

(* As many distinct members as a set has are all of it.                     *)
LEMMA WholeOrder ==
    ASSUME NEW S, IsFiniteSet(S), NEW o \in [1..Cardinality(S) -> S], IsInjective(o)
    PROVE  ToSet(o) = S
  <1> DEFINE n == Cardinality(S)
             T == ToSet(o)
  <1>1. n \in Nat
    BY FS_CardinalityType
  <1>2. IsFiniteSet(1..n) /\ Cardinality(1..n) = n
    BY <1>1, FS_Interval
  <1>3. T \in SUBSET S
    BY DEF ToSet
  <1>4. IsFiniteSet(T) /\ Cardinality(T) <= n
    BY <1>3, FS_Subset
  <1>5. o \in Injection(1..n, T)
    BY DEF Injection, ToSet, IsInjective
  <1> HIDE DEF n, T
  <1>6. n <= Cardinality(T)
    BY <1>2, <1>4, <1>5, FS_Injection
  <1>7. T = S
    BY <1>1, <1>3, <1>4, <1>6, FS_Subset, FS_CardinalityType DEF n
  <1>8. QED
    BY <1>7 DEF T

(* The invariants imply the property.                                       *)
LEMMA PlansContracted ==
    ASSUME FilesInv, EvidenceInv, PlanInv
    PROVE  PlansAsContracted
  <1> DEFINE ops == OperationsOf(IR)
             wanted == Projection(IR, CallableHelpers(IR, Scope.rows))
  <1>1. ASSUME disk["ir"] # 0
        PROVE  /\ ToSet(wanted.opcodes) = OpcodesOf(IR)
               /\ wanted.dependencies = Dependencies(ops)
               /\ OneOpcodeEach(ops)
               /\ wanted.frame = IR.frame
               /\ IsFiniteSet(OpcodesOf(IR))
               /\ IsProjection(wanted)
               /\ Projected = wanted
    <2> DEFINE ir == IR
               helpers == CallableHelpers(IR, Scope.rows)
    <2>1. SoundConventions(ir.conventions)
      BY <1>1, SoundOnDisk DEF IR
    <2>2. Projected = wanted
      BY <1>1 DEF Projected, IR
    <2> HIDE DEF ir, helpers
    <2>3. /\ OpcodesOf(ir) \in SUBSET ToSet(Alphabet)
          /\ ToSet(Projection(ir, helpers).opcodes) = OpcodesOf(ir)
          /\ Projection(ir, helpers).dependencies = Dependencies(OperationsOf(ir))
          /\ OneOpcodeEach(OperationsOf(ir))
          /\ Projection(ir, helpers).frame = ir.frame
          /\ IsProjection(Projection(ir, helpers))
      BY <2>1, ProjectedOpcodes, ProjectionParts DEF OneOpcodeEach
    <2>4. IsFiniteSet(OpcodesOf(ir))
      BY <2>3, SortedFacts
    <2>5. QED
      BY <2>2, <2>3, <2>4 DEF ir, helpers
  <1>2. ASSUME plan.accepted, disk["ir"] # 0
        PROVE  /\ plan.bindings.frame = IR.frame
               /\ ToSet(plan.bindings.opcodes) = {o.opcode : o \in OperationsOf(IR)}
               /\ Runnable(plan.bindings.opcodes, OperationsOf(IR))
    <2> DEFINE b == plan.bindings
    <2>1. KeptOf(b, wanted)
      BY <1>1, <1>2 DEF PlanInv
    <2>2. b.frame = IR.frame
      BY <1>1, <1>2, <2>1 DEF KeptOf, FrameKept
    <2>3. ToSet(b.opcodes) = OpcodesOf(IR)
      BY <1>1, <1>2, <2>1 DEF KeptOf, StatefulKept
    <2>4. KeepsOrder(b.opcodes, Dependencies(ops))
      BY <1>1, <1>2, <2>1 DEF KeptOf, StatefulKept, KeepsOrder
    <2>5. DOMAIN b.opcodes \in SUBSET Int
      BY <2>1 DEF KeptOf
    <2>6. \A i \in DOMAIN b.opcodes : b.opcodes[i] \in {o.opcode : o \in ops}
      BY <2>3 DEF OpcodesOf, ToSet
    <2>7. OneOpcodeEach(ops)
      BY <1>1, <1>2
    <2> HIDE DEF ops, b
    <2>8. Runnable(b.opcodes, ops)
      BY <2>4, <2>5, <2>6, <2>7, RunsInOrder
    <2>9. QED
      BY <2>2, <2>3, <2>8 DEF OpcodesOf, b, ops
  <1>3. ASSUME phase = "planning", projection # NoProjection
        PROVE  LET plans == {[Bounded(projection) EXCEPT !.opcodes = o] : o \in OrdersOf(ops)}
               IN  (\E p \in plans : Conforms(p, StrategyOf(p), projection))
                      <=> \E o \in OrdersOf(ops) : Runnable(o, ops)
    <2> DEFINE copy(o) == [Bounded(projection) EXCEPT !.opcodes = o]
               plans == {copy(o) : o \in OrdersOf(ops)}
    <2>1. projection = Projected /\ disk["ir"] # 0
      BY <1>3 DEF PlanInv, Projected
    <2>2. projection = wanted /\ IsProjection(projection) /\ OneOpcodeEach(ops)
          /\ projection.dependencies = Dependencies(ops)
          /\ ToSet(projection.opcodes) = OpcodesOf(IR) /\ IsFiniteSet(OpcodesOf(IR))
      BY <1>1, <2>1
    <2>3. OpcodesOf(IR) = {o.opcode : o \in ops}
      BY DEF OpcodesOf
    <2> DEFINE S == OpcodesOf(IR)
    <2>4. OrdersOf(ops) = {o \in [1..Cardinality(S) -> S] : IsInjective(o)}
      BY <2>3 DEF OrdersOf
    <2> HIDE DEF ops, wanted, S
    <2>5. ASSUME NEW o \in OrdersOf(ops)
          PROVE  Conforms(copy(o), StrategyOf(copy(o)), projection) <=> Runnable(o, ops)
      <3>1. o \in [1..Cardinality(S) -> S] /\ IsInjective(o)
        BY <2>4
      <3>2. IsFiniteSet(S) /\ Cardinality(S) \in Nat
        BY <2>2, FS_CardinalityType DEF S
      <3>3. ToSet(o) = S
        BY <3>1, <3>2, WholeOrder
      <3>4. Conforms(copy(o), StrategyOf(copy(o)), projection) <=> KeepsOrder(o, Dependencies(ops))
        <4> DEFINE q == copy(o)
        <4>1. q = [Bounded(projection) EXCEPT !.opcodes = o]
          OBVIOUS
        <4> HIDE DEF q
        <4>2. Conforms(q, StrategyOf(q), projection)
                <=> ToSet(o) = ToSet(projection.opcodes) /\ KeepsOrder(o, projection.dependencies)
          BY <2>2, <4>1, CopyConforms
        <4>3. ToSet(o) = ToSet(projection.opcodes)
          BY <2>2, <3>3 DEF S
        <4>4. QED
          BY <2>2, <4>2, <4>3 DEF q
      <3>5. DOMAIN o \in SUBSET Int /\ \A i \in DOMAIN o : o[i] \in {x.opcode : x \in ops}
        BY <3>1, <3>2, <2>3 DEF S
      <3>6. Runnable(o, ops) <=> KeepsOrder(o, Dependencies(ops))
        BY <2>2, <3>5, RunsInOrder
      <3>7. QED
        BY <3>4, <3>6
    <2> HIDE DEF copy
    <2>6. (\E p \in plans : Conforms(p, StrategyOf(p), projection))
             <=> \E o \in OrdersOf(ops) : Runnable(o, ops)
      BY <2>5
    <2>7. QED
      BY <2>6 DEF copy
  <1>4. QED
    BY <1>2, <1>3 DEF PlansAsContracted

(* A contract can be kept exactly where the operations can be run in some   *)
(* order, and an accepted plan has such an order, every opcode and the      *)
(* frame of the IR (protocol_contract_projection, validate_plan_contract).  *)
THEOREM PlansKeepContract == Spec => []PlansAsContracted
  <1>1. FilesInv /\ EvidenceInv /\ PlanInv => PlansAsContracted
    BY PlansContracted
  <1>2. QED
    BY <1>1, FilesCorrect, EvidenceKept, PTL

-----------------------------------------------------------------------------
(* The texts of the context.                                                *)

(* The texts of a sample are in the alphabet.                               *)
Worded(s) == \A slot \in Slots : s.context[slot] = NoText \/ s.context[slot].text \in ToSet(Alphabet)

(* The first of some texts is one of them.                                  *)
LEMMA FirstIsOne ==
    ASSUME NEW texts, texts # {}, \A t \in texts : t.text \in ToSet(Alphabet)
    PROVE  First(texts) \in texts
  <1> DEFINE places == {Position(t.text) : t \in texts}
  <1>1. places \in SUBSET Nat /\ places # {}
    BY PositionFacts
  <1> HIDE DEF places
  <1>2. PICK least \in places : \A p \in places : least <= p
    BY <1>1, LeastElement
  <1>3. \E t \in texts : \A u \in texts : Position(t.text) <= Position(u.text)
    BY <1>2 DEF places
  <1>4. QED
    BY <1>3 DEF First

(* Some candidate is not outvoted.                                          *)
LEMMA LeaderExists ==
    ASSUME NEW n \in Nat, NEW tally, DOMAIN tally # {}, \A c \in DOMAIN tally : tally[c] \in 0..n
    PROVE  Leaders(tally) # {}
  <1> DEFINE missing == {n - tally[c] : c \in DOMAIN tally}
  <1>1. missing \in SUBSET Nat /\ missing # {}
    OBVIOUS
  <1> HIDE DEF missing
  <1>2. PICK least \in missing : \A m \in missing : least <= m
    BY <1>1, LeastElement
  <1>3. PICK c \in DOMAIN tally : least = n - tally[c]
    BY <1>2 DEF missing
  <1>4. ASSUME NEW d \in DOMAIN tally
        PROVE  tally[d] <= tally[c]
    <2>1. n - tally[c] <= n - tally[d]
      BY <1>2, <1>3 DEF missing
    <2>2. tally[c] \in 0..n /\ tally[d] \in 0..n
      OBVIOUS
    <2>3. QED
      BY <2>1, <2>2
  <1>5. c \in Leaders(tally)
    BY <1>4 DEF Leaders
  <1>6. QED
    BY <1>5

(* The text of a slot is one that leads, if any sample states one.          *)
LEMMA TextLeads ==
    ASSUME NEW n \in Nat, NEW tally, DOMAIN tally # {}, \A c \in DOMAIN tally : tally[c] \in 0..n,
           \A t \in DOMAIN tally : t.text \in ToSet(Alphabet), NEW threshold
    PROVE  MajorityOrMode(tally, threshold) \in Leaders(tally)
  <1>1. Leaders(tally) # {} /\ Leaders(tally) \subseteq DOMAIN tally
    BY LeaderExists DEF Leaders
  <1>2. MajorityFrom(tally, threshold) \subseteq Leaders(tally)
    BY DEF MajorityFrom
  <1>3. CASE MajorityFrom(tally, threshold) # {}
    <2>1. First(MajorityFrom(tally, threshold)) \in MajorityFrom(tally, threshold)
      BY <1>1, <1>2, <1>3, FirstIsOne
    <2>2. MajorityOrMode(tally, threshold) = First(MajorityFrom(tally, threshold))
      BY <1>3 DEF MajorityOrMode
    <2>3. QED
      BY <1>2, <2>1, <2>2
  <1>4. CASE MajorityFrom(tally, threshold) = {}
    <2>1. First(Leaders(tally)) \in Leaders(tally)
      BY <1>1, FirstIsOne
    <2>2. MajorityOrMode(tally, threshold) = First(Leaders(tally))
      BY <1>4 DEF MajorityOrMode
    <2>3. QED
      BY <2>1, <2>2
  <1>5. QED
    BY <1>3, <1>4

(* The tally of a slot counts who states a text.                            *)
LEMMA SlotTally ==
    ASSUME NEW A, NEW samples \in Seq(A), NEW slot
    PROVE  LET tally == Tally(SlotOffers(samples, slot))
           IN  /\ DOMAIN tally = {samples[i].context[slot] : i \in DOMAIN samples} \ {NoText}
               /\ \A t \in DOMAIN tally : tally[t] = Cardinality(Stating(samples, slot, t))
               /\ \A t \in DOMAIN tally : tally[t] \in 0..Len(samples)
  <1> DEFINE offers == SlotOffers(samples, slot)
             tally == Tally(offers)
  <1>1. offers = [i \in DOMAIN samples |-> TextOffer(samples[i].context[slot])]
    BY DEF SlotOffers, Offers
  <1>2. DOMAIN offers = DOMAIN samples
    BY <1>1
  <1>3. \A i \in DOMAIN samples : \A t : t \in offers[i] <=> t = samples[i].context[slot] /\ t # NoText
    BY <1>1 DEF TextOffer
  <1> HIDE DEF offers
  <1>4. tally = [c \in UNION ToSet(offers) |-> Cardinality({i \in DOMAIN offers : c \in offers[i]})]
    BY DEF Tally
  <1>5. UNION ToSet(offers) = {samples[i].context[slot] : i \in DOMAIN samples} \ {NoText}
    BY <1>2, <1>3 DEF ToSet
  <1>6. ASSUME NEW t \in UNION ToSet(offers)
        PROVE  {i \in DOMAIN offers : t \in offers[i]} = Stating(samples, slot, t)
    BY <1>2, <1>3, <1>5, <1>6 DEF Stating, States
  <1> HIDE DEF tally
  <1>7. \A t \in UNION ToSet(offers) : tally[t] = Cardinality(Stating(samples, slot, t))
    BY <1>4, <1>6
  <1>8. ASSUME NEW t
        PROVE  Cardinality(Stating(samples, slot, t)) \in 0..Len(samples)
    <2>1. DOMAIN samples = 1..Len(samples) /\ Len(samples) \in Nat
      OBVIOUS
    <2>2. IsFiniteSet(1..Len(samples)) /\ Cardinality(1..Len(samples)) = Len(samples)
      BY <2>1, FS_Interval
    <2>3. Stating(samples, slot, t) \in SUBSET (1..Len(samples))
      BY <2>1 DEF Stating
    <2>4. /\ IsFiniteSet(Stating(samples, slot, t))
          /\ Cardinality(Stating(samples, slot, t)) <= Len(samples)
      BY <2>2, <2>3, FS_Subset
    <2>5. Cardinality(Stating(samples, slot, t)) \in Nat
      BY <2>4, FS_CardinalityType
    <2>6. QED
      BY <2>1, <2>4, <2>5
  <1>9. DOMAIN tally = UNION ToSet(offers)
    BY <1>4
  <1>10. \A t \in DOMAIN tally : tally[t] = Cardinality(Stating(samples, slot, t))
    BY <1>7, <1>9
  <1>11. \A t \in DOMAIN tally : tally[t] \in 0..Len(samples)
    BY <1>8, <1>10
  <1>12. QED
    BY <1>5, <1>9, <1>10, <1>11 DEF tally, offers

(* No text was stated by more samples than the one that was voted.          *)
LEMMA VotedMost ==
    ASSUME NEW A, NEW samples \in Seq(A), \A a \in A : Worded(a), NEW rejections,
           NEW slot \in Slots, NEW k \in DOMAIN samples, samples[k].context[slot] # NoText
    PROVE  Cardinality(Stating(samples, slot, samples[k].context[slot]))
              <= Cardinality(Stating(samples, slot, VoteConventions(samples, rejections).context[slot]))
  <1> DEFINE tally == Tally(SlotOffers(samples, slot))
             text == samples[k].context[slot]
             voted == VoteConventions(samples, rejections).context[slot]
  <1>1. voted = MajorityOrMode(tally, Threshold(samples))
    BY DEF VoteConventions
  <1>2. /\ DOMAIN tally = {samples[i].context[slot] : i \in DOMAIN samples} \ {NoText}
        /\ \A t \in DOMAIN tally : tally[t] = Cardinality(Stating(samples, slot, t))
        /\ \A t \in DOMAIN tally : tally[t] \in 0..Len(samples)
    BY SlotTally
  <1> HIDE DEF tally, voted
  <1>3. text \in DOMAIN tally
    BY <1>2
  <1>4. \A t \in DOMAIN tally : t.text \in ToSet(Alphabet)
    BY <1>2 DEF Worded
  <1>5. Len(samples) \in Nat
    OBVIOUS
  <1> HIDE DEF text
  <1>6. voted \in Leaders(tally)
    BY <1>1, <1>2, <1>3, <1>4, <1>5, TextLeads
  <1>7. voted \in DOMAIN tally /\ tally[text] <= tally[voted]
    BY <1>3, <1>6 DEF Leaders
  <1>8. QED
    BY <1>2, <1>3, <1>7 DEF text, voted

(* Every text of the context has a plurality of the samples behind it, and  *)
(* any two claims that pass the vote one sample, whatever the samples are   *)
(* and how many there are (_vote_conventions).                              *)
THEOREM VoteHolds == Spec => []VotedTogether
  <1>1. ASSUME SamplesInv, EvidenceInv, phase = "merging", conventions # NoConventions,
               NEW slot \in Slots, NEW sample \in ToSet(accepted), sample.context[slot] # NoText
        PROVE  Cardinality(Stating(accepted, slot, sample.context[slot]))
                  <= Cardinality(Stating(accepted, slot, conventions.context[slot]))
    <2>1. accepted \in Seq(Scope.answers) /\ conventions = VoteConventions(accepted, rejected)
      BY <1>1 DEF SamplesInv, EvidenceInv
    <2>2. \A a \in Scope.answers : Worded(a)
      BY <1>1, ProtocolEvidenceAssumption DEF EvidenceInv, Scope, Worded
    <2>3. PICK k \in DOMAIN accepted : sample = accepted[k]
      BY DEF ToSet
    <2>4. QED
      BY <1>1, <2>1, <2>2, <2>3, VotedMost
  <1>2. ASSUME SamplesInv, EvidenceInv, ClaimsShareASample
        PROVE  VotedTogether
    BY <1>1, <1>2 DEF VotedTogether
  <1>3. QED
    BY <1>2, SamplesKept, EvidenceKept, ClaimsTogether, PTL

-----------------------------------------------------------------------------
(* What is mined.                                                           *)

(* At most one thing.                                                       *)
Lone(S) == \A a, b \in S : a = b

(* Which is finite.                                                         *)
LEMMA LoneFinite ==
    ASSUME NEW S, Lone(S)
    PROVE  IsFiniteSet(S)
  <1>1. CASE S = {}
    BY <1>1, FS_EmptySet
  <1>2. CASE S # {}
    <2>1. PICK x \in S : TRUE
      BY <1>2
    <2>2. S = {x}
      BY <2>1 DEF Lone
    <2>3. QED
      BY <2>2, FS_Singleton
  <1>3. QED
    BY <1>1, <1>2

(* A computation finds at most one number.                                  *)
LEMMA LoneNumbers ==
    ASSUME NEW p, NEW e
    PROVE  Lone(Resolved(p, e))
  <1>1. \A q : Lone(Atom(p, q))
    BY DEF Lone, Atom, LiteralOf
  <1>2. CASE e.k = "plus"
    <2>1. Resolved(p, e) = {a + b : a \in Atom(p, e.left), b \in Atom(p, e.right)}
      BY <1>2 DEF Resolved
    <2>2. QED
      BY <1>1, <2>1 DEF Lone
  <1>3. CASE e.k = "minus"
    <2>1. Resolved(p, e) = {a - b : a \in Atom(p, e.left), b \in Atom(p, e.right)}
      BY <1>3 DEF Resolved
    <2>2. QED
      BY <1>1, <2>1 DEF Lone
  <1>4. CASE e.k # "plus" /\ e.k # "minus"
    <2>1. Resolved(p, e) = Atom(p, e)
      BY <1>4 DEF Resolved
    <2>2. QED
      BY <1>1, <2>1
  <1>5. QED
    BY <1>2, <1>3, <1>4

(* An offset from a base.                                                   *)
FromBase(p, bases, base, delta) ==
    IF base.k = "name" /\ base.name \in DOMAIN bases
    THEN {bases[base.name] + n : n \in Resolved(p, delta)} ELSE {}

(* An offset by the form of the expression.                                 *)
LEMMA OffsetCases ==
    ASSUME NEW p, NEW bases, NEW e
    PROVE  /\ e.k = "name" => OffsetOf(p, bases, e) = IF e.name \in DOMAIN bases THEN {bases[e.name]} ELSE {}
           /\ e.k = "byte" => OffsetOf(p, bases, e) = FromBase(p, bases, Name(e.name), Num(e.index))
           /\ e.k = "plus" => OffsetOf(p, bases, e) \in {FromBase(p, bases, e.left, e.right),
                                                        FromBase(p, bases, e.right, e.left)}
           /\ e.k \notin {"name", "byte", "plus"} => OffsetOf(p, bases, e) = {}
  BY DEF OffsetOf, FromBase

(* It is one offset at most.                                                *)
LEMMA LoneOffset ==
    ASSUME NEW p, NEW bases, NEW e
    PROVE  Lone(OffsetOf(p, bases, e))
  <1>1. \A base, delta : Lone(FromBase(p, bases, base, delta))
    BY LoneNumbers DEF Lone, FromBase
  <1>2. QED
    BY <1>1, OffsetCases DEF Lone

(* Numbers are integers, wherever they are in an expression.                *)
IntegersIn(p, e) ==
    /\ \A c \in DOMAIN p.constants : p.constants[c] \in Int
    /\ \A q \in Parts(e) : /\ q.k = "num" => q.value \in Int
                           /\ q.k = "byte" => q.index \in Int

(* So are offsets, from integers.                                           *)
LEMMA IntegerOffsets ==
    ASSUME NEW p, NEW bases, \A x \in DOMAIN bases : bases[x] \in Int, NEW e, IntegersIn(p, e)
    PROVE  OffsetOf(p, bases, e) \subseteq Int
  <1>1. ASSUME NEW q, q.k = "num" => q.value \in Int
        PROVE  Atom(p, q) \subseteq Int
    BY <1>1 DEF Atom, LiteralOf, IntegersIn
  <1>2. ASSUME NEW base, NEW delta, Resolved(p, delta) \subseteq Int
        PROVE  FromBase(p, bases, base, delta) \subseteq Int
    BY <1>2 DEF FromBase
  <1>3. CASE e.k = "byte"
    <2>1. e.index \in Int
      BY <1>3 DEF IntegersIn, Parts
    <2>2. Num(e.index).k = "num" /\ Num(e.index).value = e.index
      BY DEF Num
    <2>3. Resolved(p, Num(e.index)) = Atom(p, Num(e.index))
      BY <2>2 DEF Resolved
    <2>4. QED
      BY <1>1, <1>2, <1>3, <2>1, <2>2, <2>3, OffsetCases
  <1>4. CASE e.k = "plus"
    <2>1. ASSUME NEW d \in {e.left, e.right}
          PROVE  Resolved(p, d) \subseteq Int
      <3>1. Children(e) = {e.left, e.right}
        BY <1>4 DEF Children
      <3>2. d \in Parts(e) /\ Children(d) \subseteq Parts(e)
        BY <2>1, <3>1 DEF Parts
      <3>3. CASE d.k \in {"plus", "minus"}
        <4>1. Children(d) = {d.left, d.right}
          BY <3>3 DEF Children
        <4>2. Atom(p, d.left) \subseteq Int /\ Atom(p, d.right) \subseteq Int
          BY <1>1, <3>2, <4>1 DEF IntegersIn
        <4>3. QED
          BY <3>3, <4>2 DEF Resolved
      <3>4. CASE d.k \notin {"plus", "minus"}
        <4>1. Resolved(p, d) = Atom(p, d)
          BY <3>4 DEF Resolved
        <4>2. QED
          BY <1>1, <3>2, <4>1 DEF IntegersIn
      <3>5. QED
        BY <3>3, <3>4
    <2>2. QED
      BY <1>2, <1>4, <2>1, OffsetCases
  <1>5. CASE e.k \notin {"byte", "plus"}
    BY <1>5, OffsetCases
  <1>6. QED
    BY <1>3, <1>4, <1>5

(* The text of a parser, as the constants give it.                          *)
Readable(p) ==
    /\ p.body \in Seq(ToSet(p.body)) /\ IsFiniteSet(PartsOf(p))
    /\ \A e \in PartsOf(p) : IntegersIn(p, e)

(* What may name an offset.                                                 *)
Declarables(p) == {n.var : n \in {d \in ToSet(p.body) : d.k = "declare"}}

(* Variables at offsets.                                                    *)
Aliases(p) == UNION {[D -> Int] : D \in SUBSET Declarables(p)}

(* Another one stays one of them.                                           *)
LEMMA OneMoreAlias ==
    ASSUME NEW p, Readable(p), NEW known \in Aliases(p), NEW n \in ToSet(p.body)
    PROVE  OneMore(p, known, n) \in Aliases(p)
  <1> DEFINE found == OffsetOf(p, WithBuffer(known), n.value)
             more == n.k = "declare" /\ n.var \notin DOMAIN known /\ found # {}
             new == CHOOSE o \in found : TRUE
             D == DOMAIN known \cup {n.var}
  <1>1. known \in [DOMAIN known -> Int] /\ DOMAIN known \in SUBSET Declarables(p)
    BY DEF Aliases
  <1>2. ASSUME more
        PROVE  OneMore(p, known, n) \in Aliases(p)
    <2>1. n.value \in PartsOf(p)
      BY <1>2 DEF PartsOf, Operands, Parts
    <2>2. \A x \in DOMAIN WithBuffer(known) : WithBuffer(known)[x] \in Int
      BY <1>1 DEF WithBuffer
    <2>3. found \subseteq Int
      BY <2>1, <2>2, IntegerOffsets DEF Readable
    <2>4. new \in Int
      BY <1>2, <2>3
    <2> HIDE DEF new, found
    <2>5. [x \in D |-> IF x = n.var THEN new ELSE known[x]] \in [D -> Int]
      BY <1>1, <2>4
    <2>6. D \in SUBSET Declarables(p)
      BY <1>1, <1>2 DEF Declarables
    <2>7. OneMore(p, known, n) = [x \in D |-> IF x = n.var THEN new ELSE known[x]]
      BY <1>2 DEF OneMore, new, found
    <2>8. QED
      BY <2>5, <2>6, <2>7 DEF Aliases
  <1>3. ASSUME ~more
        PROVE  OneMore(p, known, n) \in Aliases(p)
    BY <1>3 DEF OneMore
  <1>4. QED
    BY <1>2, <1>3

(* The place after a remainder is one of as many.                           *)
LEMMA PlaceOfRemainder ==
    ASSUME NEW a \in Nat, NEW b \in Nat \ {0}
    PROVE  1 + (a % b) \in 1..b
  OBVIOUS

(* All bases are integers.                                                  *)
LEMMA IntegerBases ==
    ASSUME NEW p, Readable(p)
    PROVE  \A x \in DOMAIN Bases(p) : Bases(p)[x] \in Int
  <1> DEFINE N == Passes(p)
             V == Aliases(p)
             base == NoAliases
             step == [i \in 1..N |-> [known \in V |-> OneMore(p, known, Pass(p, i))]]
             Body(f) == [i \in 0..N |-> IF i = 0 THEN base ELSE OneMore(p, f[i - 1], Pass(p, i))]
             chosen == CHOOSE f : f = Body(f)
  <1>1. N \in Nat
    <2>1. Len(p.body) \in Nat
      BY DEF Readable
    <2>2. QED
      BY <2>1 DEF Passes
  <1>2. base \in V
    <2>1. base \in [{} -> Int]
      BY DEF NoAliases
    <2>2. QED
      BY <2>1 DEF Aliases
  <1>3. ASSUME NEW i \in 1..N
        PROVE  Pass(p, i) \in ToSet(p.body)
    <2>1. Len(p.body) \in Nat /\ Len(p.body) # 0 /\ DOMAIN p.body = 1..Len(p.body)
      BY DEF Readable, Passes
    <2>2. i - 1 \in Nat
      BY <1>1
    <2>3. 1 + ((i - 1) % Len(p.body)) \in DOMAIN p.body
      BY <2>1, <2>2, PlaceOfRemainder
    <2>4. QED
      BY <2>3 DEF Pass, ToSet
  <1>4. \A i \in 1..N : \A known \in V : OneMore(p, known, Pass(p, i)) \in V
    BY <1>3, OneMoreAlias
  <1>5. step \in [1..N -> [V -> V]]
    <2> HIDE DEF V, N
    <2>1. QED
      BY <1>4
  <1>6. \A i \in 1..N : \A known \in V : step[i][known] = OneMore(p, known, Pass(p, i))
    OBVIOUS
  <1> HIDE DEF N, V, base, step
  <1>7. PICK f \in [0..N -> V] : Climbs(f, N, base, step)
    BY <1>1, <1>2, <1>5, LadderExists DEF CanClimb
  <1>8. f = Body(f)
    <2>1. \A i \in 1..N : i \in 0..N /\ i - 1 \in 0..N /\ i # 0
      BY <1>1
    <2>2. \A i \in 1..N : f[i] = OneMore(p, f[i - 1], Pass(p, i))
      BY <1>6, <1>7, <2>1 DEF Climbs
    <2>3. \A i \in 0..N : i # 0 => i \in 1..N
      BY <1>1
    <2>4. f[0] = base
      BY <1>7 DEF Climbs
    <2>5. QED
      BY <1>7, <2>2, <2>3, <2>4
  <1>9. chosen = Body(chosen)
    <2> HIDE DEF Body
    <2>1. QED
      BY <1>8
  <1>10. \A i \in 0..N : chosen[i] = IF i = 0 THEN base ELSE OneMore(p, chosen[i - 1], Pass(p, i))
    <2> HIDE DEF chosen
    <2>1. QED
      BY <1>9
  <1> HIDE DEF chosen
  <1>11. \A i \in 0..N : i \in {k \in 0..N : chosen[k] \in V}
    <2> DEFINE Good == {k \in 0..N : chosen[k] \in V}
    <2>1. 0 \in Good
      BY <1>1, <1>2, <1>10
    <2>2. ASSUME NEW k \in 1..N, k - 1 \in Good
          PROVE  k \in Good
      <3>1. k \in 0..N /\ k # 0
        BY <1>1
      <3>2. chosen[k] = OneMore(p, chosen[k - 1], Pass(p, k))
        BY <1>10, <3>1
      <3>3. QED
        BY <1>4, <2>2, <3>1, <3>2
    <2> HIDE DEF Good
    <2>3. \A k \in 0..N : k \in Good
      BY <1>1, <2>1, <2>2, IntervalInduction
    <2>4. QED
      BY <2>3 DEF Good
  <1>12. chosen[N] \in V
    BY <1>1, <1>11
  <1>13. PointerAliases(p) = chosen[N]
    BY DEF PointerAliases, chosen, N, base
  <1>14. QED
    BY <1>12, <1>13 DEF Bases, WithBuffer, V, Aliases

(* Finitely many integers have a greatest.                                  *)
LEMMA GreatestOfFinite ==
    ASSUME NEW S \in SUBSET Int, IsFiniteSet(S), S # {}
    PROVE  \E x \in S : \A y \in S : x >= y
  <1> DEFINE Good == {s \in SUBSET S : s = {} \/ \E x \in s : \A y \in s : x >= y}
  <1>1. ASSUME NEW s \in SUBSET S, \A t \in SUBSET s : t # s => t \in Good
        PROVE  s \in Good
    <2>1. CASE s = {}
      BY <2>1
    <2>2. CASE s # {}
      <3>1. PICK x \in s : TRUE
        BY <2>2
      <3>2. s \ {x} \in Good
        BY <1>1, <3>1
      <3>3. CASE s \ {x} = {}
        <4>1. \A y \in s : x >= y
          BY <3>1, <3>3
        <4>2. QED
          BY <3>1, <4>1
      <3>4. CASE s \ {x} # {}
        <4>1. PICK z \in s \ {x} : \A y \in s \ {x} : z >= y
          BY <3>2, <3>4
        <4>2. x \in Int /\ z \in Int /\ \A y \in s : y \in Int
          BY <3>1, <4>1
        <4>3. \A y \in s : y = x \/ z >= y
          BY <4>1
        <4>4. x >= z \/ z >= x
          BY <4>2
        <4>5. CASE x >= z
          <5>1. \A y \in s : x >= y
            BY <4>2, <4>3, <4>5
          <5>2. QED
            BY <3>1, <5>1
        <4>6. CASE z >= x
          <5>1. \A y \in s : z >= y
            BY <4>2, <4>3, <4>6
          <5>2. QED
            BY <4>1, <5>1
        <4>7. QED
          BY <4>4, <4>5, <4>6
      <3>5. QED
        BY <3>3, <3>4
    <2>3. QED
      BY <2>1, <2>2
  <1>2. Good \in SUBSET (SUBSET S)
    OBVIOUS
  <1> HIDE DEF Good
  <1>3. Good = SUBSET S
    BY <1>1, <1>2, SubsetInduction
  <1>4. QED
    BY <1>3 DEF Good

(* The offsets at which a payload could begin are finitely many integers.   *)
LEMMA RegionInteger ==
    ASSUME NEW p, Readable(p)
    PROVE  /\ PayloadRegion(p, Bases(p)) \subseteq Int
           /\ Lone(PayloadRegion(p, Bases(p)))
  <1> DEFINE sums == {q \in PartsOf(p) : q.k = "plus"}
             each == {OffsetOf(p, Bases(p), e) : e \in sums}
             offsets == UNION each
  <1>1. IsFiniteSet(offsets)
    <2> DEFINE f == [e \in sums |-> OffsetOf(p, Bases(p), e)]
    <2>1. IsFiniteSet(sums)
      BY FS_Subset DEF Readable
    <2>2. f \in Surjection(sums, each)
      BY DEF Surjection
    <2> HIDE DEF sums, f
    <2>3. IsFiniteSet(each)
      BY <2>1, <2>2, FS_Surjection
    <2>4. \A S \in each : IsFiniteSet(S)
      BY LoneOffset, LoneFinite
    <2> HIDE DEF each
    <2>5. QED
      BY <2>3, <2>4, FS_UNION
  <1>2. offsets \subseteq Int
    BY IntegerBases, IntegerOffsets DEF Readable
  <1>3. offsets # {} => Max(offsets) \in Int
    <2> HIDE DEF offsets
    <2>1. offsets # {} => \E x \in offsets : \A y \in offsets : x >= y
      BY <1>1, <1>2, GreatestOfFinite
    <2>2. QED
      BY <1>2, <2>1 DEF Max
  <1>4. QED
    BY <1>3 DEF PayloadRegion, Lone

-----------------------------------------------------------------------------
(* No two loads are of one offset.                                          *)
OnePerOffset(loads) == \A l, m \in loads : l.offset = m.offset => l = m

(* The first of each offset, whatever the sets are.                         *)
LEMMA FirstIsOnly ==
    ASSUME NEW A, NEW sets \in Seq(A)
    PROVE  OnePerOffset(FirstKept(sets))
  <1>1. \A S : \A l \in OneEach(S) : l = CHOOSE m \in S : m.offset = l.offset
    <2> SUFFICES ASSUME NEW S, NEW l \in OneEach(S)
                 PROVE  l = CHOOSE m \in S : m.offset = l.offset
      OBVIOUS
    <2>1. PICK o \in {m.offset : m \in S} : l = CHOOSE m \in S : m.offset = o
      BY DEF OneEach
    <2>2. l.offset = o
      BY <2>1
    <2>3. QED
      BY <2>1, <2>2
  <1>2. \A S : OneEach(S) \subseteq S
    BY DEF OneEach
  <1>3. ASSUME NEW l \in FirstKept(sets), NEW m \in FirstKept(sets), l.offset = m.offset
        PROVE  l = m
    <2>1. PICK i \in DOMAIN sets : /\ l \in OneEach(sets[i])
                                   /\ \A j \in 1..(i - 1) : \A h \in sets[j] : h.offset # l.offset
      BY DEF FirstKept
    <2>2. PICK j \in DOMAIN sets : /\ m \in OneEach(sets[j])
                                   /\ \A k \in 1..(j - 1) : \A h \in sets[k] : h.offset # m.offset
      BY DEF FirstKept
    <2>3. i \in Nat /\ j \in Nat /\ i >= 1 /\ j >= 1
      OBVIOUS
    <2>4. l \in sets[i] /\ m \in sets[j]
      BY <1>2, <2>1, <2>2
    <2>5. i \notin 1..(j - 1) /\ j \notin 1..(i - 1)
      BY <1>3, <2>1, <2>2, <2>4
    <2>6. i = j
      BY <2>3, <2>5
    <2>7. QED
      BY <1>1, <1>3, <2>1, <2>2, <2>6
  <1>4. QED
    BY <1>3 DEF OnePerOffset

(* So of what a parser loads.                                               *)
LEMMA LoadsApart ==
    ASSUME NEW p, NEW bases
    PROVE  OnePerOffset(Loads(p, bases))
  <1> DEFINE both == <<HelperLoads(p, bases), InlineLoads(p, bases)>>
  <1>1. both \in Seq({both[1], both[2]})
    OBVIOUS
  <1> HIDE DEF both
  <1>2. OnePerOffset(FirstKept(both))
    BY <1>1, FirstIsOnly
  <1>3. QED
    BY <1>2 DEF Loads, OnePerOffset, both

(* The header and the payload of a frame are at one offset each, and the    *)
(* payload is not in the header.                                            *)
LEMMA SizesApart ==
    ASSUME NEW p, Readable(p), NEW bases, bases = Bases(p), NEW loaded,
           NEW n \in Nat, n \in MinSizeGuard(p)
    PROVE  LET header == Either(MinSizeGuard(p), PayloadRegion(p, bases))
               sizes == Sizes(p, loaded, PayloadRegion(p, bases), header)
           IN  /\ sizes.header = {n}
               /\ \A b \in sizes.payload : b \in Nat /\ b >= n
  <1> DEFINE largest == PayloadRegion(p, bases)
             header == Either(MinSizeGuard(p), largest)
             sizes == Sizes(p, loaded, largest, header)
  <1>1. \A s : Lone(UNION {Resolved(p, m.right) : m \in LastOf(s)})
    BY LoneNumbers DEF Lone, LastOf
  <1>2. \A s : Lone(UNION {Resolved(p, m.right.right) : m \in LastOf(s)})
    BY LoneNumbers DEF Lone, LastOf
  <1>3. \A var, ops : Lone(BoundsFrom(p, var, ops))
    BY <1>1 DEF BoundsFrom
  <1>4. Lone(MinSizeGuard(p))
    <2> DEFINE offsets == SelectSeq(Comparisons(p),
                             LAMBDA m : /\ m.left = Name("size") /\ m.right.k = "minus"
                                        /\ Resolved(p, m.right.right) # {})
               guarded == BoundsFrom(p, "size", {"<", "<=", ">", ">="})
               replaced == UNION {Resolved(p, m.right.right) : m \in LastOf(offsets)}
    <2>1. MinSizeGuard(p) = IF ~p.size THEN {} ELSE IF offsets = <<>> THEN guarded ELSE replaced
      BY DEF MinSizeGuard
    <2>2. Lone(guarded) /\ Lone(replaced)
      BY <1>2, <1>3
    <2> HIDE DEF guarded, replaced, offsets
    <2>3. QED
      BY <2>1, <2>2 DEF Lone
  <1>5. header = {n}
    BY <1>4 DEF Either, Lone
  <1>6. largest \subseteq Int
    BY RegionInteger
  <1> HIDE DEF largest, header
  <1>7. \A b \in BaseOutside(largest, header) : b \in Nat /\ b >= n
    <2>1. BaseOutside(largest, header) # {} =>
             BaseOutside(largest, header) = largest /\ ~\E b \in largest, h \in header : b < h
      BY DEF BaseOutside
    <2>2. \A b \in BaseOutside(largest, header) : b \in Int /\ ~(b < n)
      BY <1>5, <1>6, <2>1
    <2>3. QED
      BY <2>2
  <1>8. sizes.header = header /\ sizes.payload \in {header, BaseOutside(largest, header)}
    BY DEF Sizes
  <1>9. sizes.header = {n} /\ \A b \in sizes.payload : b \in Nat /\ b >= n
    BY <1>5, <1>7, <1>8
  <1>10. QED
    BY <1>9 DEF sizes, header, largest

(* A parser of which all reads lie before its size is of a frame that is    *)
(* accepted.                                                                *)
LEMMA GuardedAccepted ==
    ASSUME NEW p, Readable(p), NEW n, n \in MinSizeGuard(p), ReadsWithin(p, Bases(p), n)
    PROVE  FrameAccepted(FrameModel(p, MineProtocolFacts(p)))
  <1> DEFINE bases == Bases(p)
             loaded == Variables(p, bases)
             header == Either(MinSizeGuard(p), PayloadRegion(p, bases))
             sizes == Sizes(p, loaded, PayloadRegion(p, bases), header)
             literals == LiteralGuards(p)
             loads == Loads(p, bases)
             checksums == Checksums(p, bases, sizes.payload)
             selector == Dispatch(p, bases, loaded)
             facts1 == MineProtocolFacts(p)
             read == {l.offset : l \in loads}
             fixed == {l.offset : l \in literals} \ read
             F1 == {LoadField(l, sizes, checksums, selector) : l \in loads}
             Fixed(o) == LiteralField(o, {l \in literals : l.offset = o}, selector)
             F2 == {Fixed(o) : o \in fixed}
             F3 == {Field(o, 0, "none", "payload", {}) : o \in sizes.payload}
             F4 == {Field(o, 1, "none", "opcode", {}) : o \in selector \ (read \cup fixed)}
  <1>1. facts1 = FactsFrom(p, sizes, loaded, literals, loads, checksums, selector)
    BY DEF MineProtocolFacts, FactsOver, Framing, FactsWith
  <1>2. n \in Nat /\ read \subseteq 0..(n - 1) /\ fixed \subseteq 0..(n - 1) /\ selector \subseteq 0..(n - 1)
    BY DEF ReadsWithin
  <1>3. sizes.header = {n} /\ \A b \in sizes.payload : b \in Nat /\ b >= n
    BY <1>2, SizesApart
  <1>4. OnePerOffset(loads)
    BY LoadsApart
  <1> HIDE DEF loads, literals, selector, checksums, sizes, loaded, header, facts1
  <1>5. \A o, w, d, r, v : Field(o, w, d, r, v).offset = o
    BY DEF Field
  <1>6. /\ \A f \in F1 : f.offset \in read
        /\ \A f, g \in F1 : f.offset = g.offset => f = g
    <2>1. \A l : LoadField(l, sizes, checksums, selector).offset = l.offset
      BY <1>5 DEF LoadField
    <2>2. QED
      BY <1>4, <2>1 DEF OnePerOffset
  <1>7. /\ \A f \in F2 : f.offset \in fixed
        /\ \A f, g \in F2 : f.offset = g.offset => f = g
    <2>1. \A o, guards : LiteralField(o, guards, selector).offset = o
      BY <1>5 DEF LiteralField
    <2>2. \A o : Fixed(o).offset = o
      BY <2>1
    <2> HIDE DEF fixed, Fixed
    <2>3. QED
      BY <2>2
  <1>8. /\ \A f \in F3 : f.offset \in sizes.payload
        /\ \A f, g \in F3 : f.offset = g.offset => f = g
    BY <1>5
  <1>9. /\ \A f \in F4 : f.offset \in selector \ (read \cup fixed)
        /\ \A f, g \in F4 : f.offset = g.offset => f = g
    <2> HIDE DEF read, fixed
    <2>1. QED
      BY <1>5
  <1>10. facts1.fields = F1 \cup F2 \cup F3 \cup F4 /\ facts1.header = sizes.header
         /\ facts1.payload = sizes.payload
    BY <1>1 DEF FactsFrom
  <1>11. fixed \cap read = {}
    OBVIOUS
  <1> HIDE DEF F1, F2, F3, F4, read, fixed
  <1>12. ASSUME NEW f \in facts1.fields, NEW g \in facts1.fields, f.offset = g.offset
         PROVE  f = g
    <2>1. \A o : o \in read \cup fixed \cup selector => o \notin sizes.payload
      BY <1>2, <1>3
    <2>2. QED
      BY <1>6, <1>7, <1>8, <1>9, <1>10, <1>11, <1>12, <2>1
  <1>13. ASSUME NEW f \in facts1.fields
         PROVE  f.offset \in Nat
    <2>1. f.offset \in read \cup fixed \cup selector \cup sizes.payload
      BY <1>6, <1>7, <1>8, <1>9, <1>10, <1>13
    <2>2. \A o \in 0..(n - 1) : o \in Nat
      BY <1>2
    <2>3. QED
      BY <1>2, <1>3, <2>1, <2>2
  <1> DEFINE frame == FrameModel(p, facts1)
             sized == \E f \in facts1.fields : f.role = "payload_length"
  <1>14. frame.fields = {FrameField(f, sized) : f \in facts1.fields}
         /\ frame.payload = PayloadOffset(facts1) /\ frame.header = facts1.header
    BY DEF FrameModel
  <1>15. \A f : FrameField(f, sized).offset = f.offset
    BY DEF FrameField
  <1> HIDE DEF sized, frame
  <1>16. \A f, g \in frame.fields : f.offset = g.offset => f = g
    BY <1>12, <1>14, <1>15
  <1>17. \A f \in frame.fields : f.offset >= 0
    BY <1>13, <1>14, <1>15
  <1>18. \A b \in frame.payload, h \in frame.header : b >= h
    <2>1. frame.payload \in {facts1.payload, facts1.header}
      BY <1>14 DEF PayloadOffset
    <2>2. frame.header = {n} /\ \A b \in frame.payload : b >= n
      BY <1>2, <1>3, <1>10, <1>14, <2>1
    <2>3. QED
      BY <2>2
  <1>19. FrameAccepted(frame)
    BY <1>16, <1>17, <1>18 DEF FrameAccepted
  <1>20. QED
    BY <1>19 DEF frame, facts1

(* A length finds its payload.                                              *)
LEMMA LengthPaid ==
    ASSUME NEW p, MineProtocolFacts(p).header # {},
           \E f \in MineProtocolFacts(p).fields : f.role = "payload_length"
    PROVE  \E f \in MineProtocolFacts(p).fields : f.role = "payload"
  <1> DEFINE bases == Bases(p)
             loaded == Variables(p, bases)
             largest == PayloadRegion(p, bases)
             header == Either(MinSizeGuard(p), largest)
             sizes == Sizes(p, loaded, largest, header)
             literals == LiteralGuards(p)
             loads == Loads(p, bases)
             checksums == Checksums(p, bases, sizes.payload)
             selector == Dispatch(p, bases, loaded)
             facts1 == MineProtocolFacts(p)
             read == {l.offset : l \in loads}
             fixed == {l.offset : l \in literals} \ read
             F1 == {LoadField(l, sizes, checksums, selector) : l \in loads}
             Fixed(o) == LiteralField(o, {l \in literals : l.offset = o}, selector)
             F2 == {Fixed(o) : o \in fixed}
             F3 == {Field(o, 0, "none", "payload", {}) : o \in sizes.payload}
             F4 == {Field(o, 1, "none", "opcode", {}) : o \in selector \ (read \cup fixed)}
  <1>1. facts1 = FactsFrom(p, sizes, loaded, literals, loads, checksums, selector)
    BY DEF MineProtocolFacts, FactsOver, Framing, FactsWith
  <1>2. sizes = [header |-> header, lengths |-> sizes.lengths, payload |-> sizes.payload]
        /\ (sizes.lengths # {} /\ header # {} => sizes.payload # {})
    BY DEF Sizes
  <1> HIDE DEF loads, literals, selector, checksums, sizes, loaded, header, facts1
  <1>3. \A o, w, d, r, v : Field(o, w, d, r, v).role = r
    BY DEF Field
  <1>4. facts1.fields = F1 \cup F2 \cup F3 \cup F4 /\ facts1.header = sizes.header
    BY <1>1 DEF FactsFrom
  <1>5. PICK f \in facts1.fields : f.role = "payload_length"
    BY DEF facts1
  <1>6. f \in F1
    <2>1. \A o, guards : LiteralField(o, guards, selector).role # "payload_length"
      BY <1>3 DEF LiteralField
    <2>2. \A o : Fixed(o).role # "payload_length"
      BY <2>1
    <2> HIDE DEF Fixed, fixed, read
    <2>3. f \notin F2 /\ f \notin F3 /\ f \notin F4
      BY <1>3, <1>5, <2>2
    <2>4. QED
      BY <1>4, <1>5, <2>3
  <1>7. sizes.lengths # {}
    <2>1. PICK l \in loads : f = LoadField(l, sizes, checksums, selector)
      BY <1>6
    <2>2. QED
      BY <1>3, <1>5, <2>1 DEF LoadField
  <1>8. header # {}
    BY <1>2, <1>4 DEF facts1
  <1>9. PICK o \in sizes.payload : TRUE
    BY <1>2, <1>7, <1>8
  <1>10. Field(o, 0, "none", "payload", {}) \in facts1.fields
    BY <1>4, <1>9
  <1>11. QED
    BY <1>3, <1>10 DEF facts1

(* The inductive strengthening: facts are those of a parser of the project. *)
MinedInv ==
    /\ project \in DOMAIN Projects
    /\ facts # Nothing => parser \in Scope.parsers /\ facts = MineProtocolFacts(parser)

(* Every step keeps facts and parser together.                              *)
LEMMA MinedStep ==
    ASSUME MinedInv, [Next]_vars
    PROVE  MinedInv'
  <1>1. CASE Mine
    <2>1. UNCHANGED project /\ \E p \in Scope.parsers : parser' = p /\ facts' = MineProtocolFacts(p)
      BY <1>1 DEF Mine, Start
    <2>2. QED
      BY <2>1 DEF MinedInv, Scope
  <1>2. CASE UNCHANGED project /\ facts' = Nothing
    BY <1>2 DEF MinedInv
  <1>3. CASE UNCHANGED <<project, parser, facts>>
    BY <1>3 DEF MinedInv, Scope
  <1>4. QED
    BY <1>1, <1>2, <1>3
    DEF Next, MineFails, Start, Sample, SampleFails, Vote, Merge, Store, WriteFile, Kill, Load, Answer, End,
        miningVars, vars

(* Whatever a parser is, if it checks the size before it reads then its     *)
(* frame is accepted, and a length has a payload (mine_protocol_facts,      *)
(* FrameModel.__post_init__).                                               *)
THEOREM GuardedFrames == Spec => []GuardedFrameIsDisjoint
  <1>1. Init => MinedInv
    BY DEF Init, MinedInv
  <1>2. MinedInv => GuardedFrameIsDisjoint
    <2> SUFFICES ASSUME MinedInv, facts # Nothing
                 PROVE  /\ (\E n \in facts.header : MinSizeGuard(parser) # {} /\ ReadsWithin(parser, Bases(parser), n))
                              => FrameAccepted(FrameModel(parser, facts))
                        /\ (\E f \in facts.fields : f.role = "payload_length") /\ facts.header # {} =>
                              \E f \in facts.fields : f.role = "payload"
      BY DEF GuardedFrameIsDisjoint
    <2>1. facts = MineProtocolFacts(parser) /\ parser \in Scope.parsers
      BY DEF MinedInv
    <2>2. Readable(parser)
      <3>1. /\ parser.body \in Seq(ToSet(parser.body)) /\ IsFiniteSet(PartsOf(parser))
            /\ \A c \in DOMAIN parser.constants : parser.constants[c] \in Int
            /\ \A e \in UNION {Parts(q) : q \in PartsOf(parser)} :
                  /\ e.k = "num" => e.value \in Int
                  /\ e.k = "byte" => e.index \in Int
        BY <2>1, ParserAssumption DEF MinedInv, Scope
      <3>2. QED
        BY <3>1 DEF Readable, IntegersIn
    <2>3. ASSUME NEW n \in facts.header, MinSizeGuard(parser) # {}, ReadsWithin(parser, Bases(parser), n)
          PROVE  FrameAccepted(FrameModel(parser, facts))
      <3>1. facts.header = Either(MinSizeGuard(parser), PayloadRegion(parser, Bases(parser)))
        BY <2>1 DEF MineProtocolFacts, FactsOver, Framing, FactsWith, FactsFrom, Sizes
      <3>2. n \in MinSizeGuard(parser)
        BY <2>3, <3>1 DEF Either
      <3>3. QED
        BY <2>1, <2>2, <2>3, <3>2, GuardedAccepted
    <2>4. QED
      BY <2>1, <2>3, LengthPaid
  <1>3. QED
    BY <1>1, <1>2, MinedStep, PTL DEF Spec

-----------------------------------------------------------------------------
(* The confidence.                                                          *)

(* A quotient is known by its bounds.                                       *)
LEMMA Quotient ==
    ASSUME NEW a \in Nat, NEW b \in Nat \ {0}
    PROVE  /\ a \div b \in Nat
           /\ b * (a \div b) <= a
           /\ a < b * ((a \div b) + 1)
  OBVIOUS

(* What a multiple is less than.                                            *)
LEMMA LessByFactor ==
    ASSUME NEW b \in Nat \ {0}, NEW x \in Nat, NEW y \in Nat, b * x < b * y
    PROVE  x < y
  OBVIOUS

(* Multiples keep the order.                                                *)
LEMMA MultiplesOrdered ==
    ASSUME NEW x \in Nat, NEW y \in Nat, NEW b \in Nat, x <= y
    PROVE  b * x <= b * y /\ x * b <= y * b
  OBVIOUS

(* A share of ten thousand is whole, or lacks five of it.                   *)
LEMMA RoundedShare ==
    ASSUME NEW d \in 1..Resolution, NEW v \in 0..d
    PROVE  /\ Rounded(Whole * v, d) \in 0..Whole
           /\ v = d => Rounded(Whole * v, d) = Whole
           /\ v # d => Rounded(Whole * v, d) <= Whole - 5
  <1> DEFINE a == 2 * (10000 * v) + d
             b == 2 * d
             q == a \div b
  <1>1. a \in Nat /\ b \in Nat \ {0} /\ d \in Nat /\ v \in Nat
    BY DEF Resolution
  <1>9. d <= 2000
    BY DEF Resolution
  <1> HIDE DEF q
  <1>2. q \in Nat /\ b * q <= a /\ a < b * (q + 1)
    <2> HIDE DEF a, b
    <2>1. QED
      BY <1>1, Quotient DEF q
  <1>3. b * q < b * 10001
    BY <1>1, <1>2
  <1>4. q <= 10000
    <2> HIDE DEF a, b
    <2>1. q < 10001
      BY <1>1, <1>2, <1>3, LessByFactor
    <2>2. QED
      BY <1>2, <2>1
  <1>5. ASSUME v = d PROVE q = 10000
    <2>1. b * 10000 < b * (q + 1)
      BY <1>1, <1>2, <1>5
    <2> HIDE DEF a, b
    <2>2. 10000 < q + 1
      BY <1>1, <1>2, <2>1, LessByFactor
    <2>3. QED
      BY <1>2, <1>4, <2>2
  <1>6. ASSUME v # d PROVE q <= 9995
    <2>1. v <= d - 1
      BY <1>1, <1>6
    <2>2. a <= 20000 * d - 20000 + d
      BY <1>1, <2>1
    <2>3. 20000 * d - 20000 + d < b * 9996
      BY <1>1, <1>9
    <2>4. b * q < b * 9996
      BY <1>1, <1>2, <2>2, <2>3
    <2> HIDE DEF a, b
    <2>5. q < 9996
      BY <1>1, <1>2, <2>4, LessByFactor
    <2>6. QED
      BY <1>2, <2>5
  <1>7. Rounded(Whole * v, d) = q
    BY DEF Rounded, Whole, q
  <1> HIDE DEF a, b
  <1>8. q \in 0..10000 /\ (v = d => q = 10000) /\ (v # d => q <= 9995)
    BY <1>2, <1>4, <1>5, <1>6
  <1> DEFINE share == Rounded(Whole * v, d)
  <1>10. share = q
    BY <1>7
  <1> HIDE DEF share
  <1>11. share \in 0..Whole /\ (v = d => share = Whole) /\ (v # d => share <= Whole - 5)
    BY <1>8, <1>10 DEF Whole
  <1>12. QED
    BY <1>11 DEF share

(* What a field may agree by.                                               *)
Shares == {Whole} \cup 0..(Whole - 5)

(* Every field agrees.                                                      *)
AllWhole(s) == \A i \in DOMAIN s : s[i] = Whole

(* So do two parts of the fields.                                           *)
LEMMA WholeParts ==
    ASSUME NEW a \in Seq(Shares), NEW b \in Seq(Shares)
    PROVE  /\ a \o b \in Seq(Shares) /\ Len(a \o b) = Len(a) + Len(b)
           /\ AllWhole(a \o b) <=> AllWhole(a) /\ AllWhole(b)
  <1> HIDE DEF Shares
  <1>1. a \o b \in Seq(Shares) /\ Len(a \o b) = Len(a) + Len(b)
    OBVIOUS
  <1>2. /\ DOMAIN a = 1..Len(a) /\ DOMAIN b = 1..Len(b) /\ Len(a) \in Nat /\ Len(b) \in Nat
        /\ DOMAIN (a \o b) = 1..(Len(a) + Len(b))
        /\ \A i \in 1..Len(a) : (a \o b)[i] = a[i]
        /\ \A i \in 1..Len(b) : (a \o b)[Len(a) + i] = b[i] /\ Len(a) + i \in 1..(Len(a) + Len(b))
    OBVIOUS
  <1>3. \A i \in 1..(Len(a) + Len(b)) : i \in 1..Len(a) \/ \E j \in 1..Len(b) : i = Len(a) + j
    <2> SUFFICES ASSUME NEW i \in 1..(Len(a) + Len(b)), i \notin 1..Len(a)
                 PROVE  \E j \in 1..Len(b) : i = Len(a) + j
      OBVIOUS
    <2>1. i - Len(a) \in 1..Len(b) /\ i = Len(a) + (i - Len(a))
      BY <1>2
    <2>2. QED
      BY <2>1
  <1>4. \A i \in 1..Len(a) : i \in 1..(Len(a) + Len(b))
    BY <1>2
  <1> DEFINE c == a \o b
  <1> HIDE DEF c
  <1>5. AllWhole(c) => AllWhole(a) /\ AllWhole(b)
    <2>1. \A i \in DOMAIN a : c[i] = a[i] /\ i \in DOMAIN c
      BY <1>2, <1>4 DEF c
    <2>2. \A i \in DOMAIN b : c[Len(a) + i] = b[i] /\ Len(a) + i \in DOMAIN c
      BY <1>2 DEF c
    <2>3. QED
      BY <2>1, <2>2 DEF AllWhole
  <1>6. ASSUME AllWhole(a), AllWhole(b), NEW i \in DOMAIN c
        PROVE  c[i] = Whole
    <2>1. CASE i \in 1..Len(a)
      BY <1>2, <1>6, <2>1 DEF AllWhole, c
    <2>2. CASE \E j \in 1..Len(b) : i = Len(a) + j
      BY <1>2, <1>6, <2>2 DEF AllWhole, c
    <2>3. QED
      BY <1>2, <1>3, <1>6, <2>1, <2>2 DEF c
  <1>7. QED
    BY <1>1, <1>5, <1>6 DEF AllWhole, c

(* Their mean is whole where all of them are.                               *)
LEMMA TellingMean ==
    ASSUME NEW s \in Seq(Shares), Len(s) \in 1..8
    PROVE  MeanOf(s) \in 0..Whole /\ (MeanOf(s) = Whole <=> AllWhole(s))
  <1> DEFINE n == Len(s)
             total == Total(s)
  <1>1. n \in 1..8 /\ n \in Nat /\ DOMAIN s = 1..n /\ s \in [1..n -> Int]
    <2>1. \A x \in Shares : x \in Int
      BY DEF Shares, Whole
    <2> HIDE DEF Shares
    <2>2. n \in 1..8 /\ n \in Nat /\ DOMAIN s = 1..n /\ s \in [1..n -> Shares]
      OBVIOUS
    <2>3. QED
      BY <2>1, <2>2
  <1>2. \A k \in 1..n : s[k] \in Int /\ s[k] >= 0 /\ (s[k] = 10000 \/ s[k] <= 9995)
    <2>1. \A x \in Shares : x \in Int /\ x >= 0 /\ (x = 10000 \/ x <= 9995)
      BY DEF Shares, Whole
    <2>2. \A k \in 1..n : s[k] \in Shares
      <3> HIDE DEF Shares
      <3>1. QED
        BY <1>1
    <2>3. QED
      BY <2>1, <2>2
  <1>3. PICK p : IsPrefixSum(p, n, s) /\ p[n] = total
    BY <1>1, PrefixSums
  <1> HIDE DEF n, total
  <1> DEFINE Good == {k \in 0..n : /\ p[k] \in Int /\ p[k] >= 0 /\ p[k] <= 10000 * k
                                   /\ (\A i \in 1..k : s[i] = 10000) => p[k] = 10000 * k
                                   /\ (\E i \in 1..k : s[i] # 10000) => p[k] <= 10000 * k - 5}
  <1>4. 0 \in Good
    BY <1>1, <1>3 DEF IsPrefixSum
  <1>5. ASSUME NEW k \in 1..n, k - 1 \in Good
        PROVE  k \in Good
    <2>1. p[k] = p[k - 1] + s[k] /\ p[k - 1] \in Int /\ k \in 0..n /\ k - 1 \in 0..n
      BY <1>1, <1>3 DEF IsPrefixSum
    <2>2. p[k - 1] >= 0 /\ p[k - 1] <= 10000 * (k - 1)
      BY <1>5
    <2>3. p[k] \in Int /\ p[k] >= 0 /\ p[k] <= 10000 * k
      BY <1>2, <2>1, <2>2
    <2>4. ASSUME \A i \in 1..k : s[i] = 10000
          PROVE  p[k] = 10000 * k
      <3>1. \A i \in 1..(k - 1) : s[i] = 10000
        BY <2>4
      <3>2. p[k - 1] = 10000 * (k - 1) /\ s[k] = 10000
        BY <1>5, <2>4, <3>1
      <3>3. QED
        BY <2>1, <3>2
    <2>5. ASSUME NEW i \in 1..k, s[i] # 10000
          PROVE  p[k] <= 10000 * k - 5
      <3>1. CASE i = k
        <4>1. s[k] <= 9995
          BY <1>2, <2>5, <3>1
        <4>2. QED
          BY <1>2, <2>1, <2>2, <4>1
      <3>2. CASE i # k
        <4>1. i \in 1..(k - 1)
          BY <3>2
        <4>2. p[k - 1] <= 10000 * (k - 1) - 5
          BY <1>5, <2>5, <4>1
        <4>3. s[k] \in Int /\ s[k] <= 10000
          BY <1>2
        <4>4. QED
          BY <2>1, <4>2, <4>3
      <3>3. QED
        BY <3>1, <3>2
    <2>6. QED
      BY <2>1, <2>3, <2>4, <2>5
  <1>6. n \in Good
    <2> HIDE DEF Good
    <2>1. \A k \in 0..n : k \in Good
      BY <1>1, <1>4, <1>5, IntervalInduction
    <2>2. QED
      BY <1>1, <2>1
  <1>7. /\ total \in Nat /\ total <= 10000 * n
        /\ AllWhole(s) => total = 10000 * n
        /\ ~AllWhole(s) => total <= 10000 * n - 5
    BY <1>1, <1>3, <1>6 DEF AllWhole, Whole
  <1> HIDE DEF Good
  <1> DEFINE a == 2 * total + n
             b == 2 * n
             q == a \div b
  <1>8. a \in Nat /\ b \in Nat \ {0}
    BY <1>1, <1>7
  <1>9. q \in Nat /\ b * q <= a /\ a < b * (q + 1)
    <2> HIDE DEF a, b
    <2>1. QED
      BY <1>8, Quotient
  <1> HIDE DEF q
  <1>10. q < 10001
    <2>1. b * q < b * 10001
      BY <1>1, <1>7, <1>9
    <2> HIDE DEF a, b
    <2>2. QED
      BY <1>8, <1>9, <2>1, LessByFactor
  <1>11. ASSUME AllWhole(s) PROVE q = 10000
    <2>1. b * 10000 < b * (q + 1)
      BY <1>1, <1>7, <1>9, <1>11
    <2> HIDE DEF a, b
    <2>2. 10000 < q + 1
      BY <1>8, <1>9, <2>1, LessByFactor
    <2>3. QED
      BY <1>9, <1>10, <2>2
  <1>12. ASSUME ~AllWhole(s) PROVE q < 10000
    <2>1. b * q < b * 10000
      BY <1>1, <1>7, <1>9, <1>12
    <2> HIDE DEF a, b
    <2>2. QED
      BY <1>8, <1>9, <2>1, LessByFactor
  <1>13. MeanOf(s) = q
    BY DEF MeanOf, Rounded, q, Total, total, n
  <1> HIDE DEF a, b
  <1>14. QED
    BY <1>9, <1>10, <1>11, <1>12, <1>13 DEF Whole

(* The product of two shares is whole where both are.                       *)
LEMMA WholeProduct ==
    ASSUME NEW v \in 0..Whole, NEW m \in 0..Whole
    PROVE  Rounded(v * m, Whole) = Whole <=> v = Whole /\ m = Whole
  <1> DEFINE a == 2 * (v * m) + 10000
             q == a \div 20000
  <1>1. v \in Nat /\ m \in Nat /\ v <= 10000 /\ m <= 10000
    BY DEF Whole
  <1>2. v * m \in Nat
    BY <1>1
  <1>3. a \in Nat
    BY <1>2
  <1>4. q \in Nat /\ 20000 * q <= a /\ a < 20000 * (q + 1)
    <2> HIDE DEF a
    <2>1. QED
      BY <1>3, Quotient
  <1>5. Rounded(v * m, Whole) = q
    BY DEF Rounded, Whole
  <1> HIDE DEF q
  <1>6. ASSUME v = Whole, m = Whole
        PROVE  q = 10000
    <2>1. v * m = 100000000
      BY <1>6 DEF Whole
    <2>2. QED
      BY <1>4, <2>1
  <1>7. ASSUME q = 10000
        PROVE  v = Whole /\ m = Whole
    <2>1. v * m >= 99995000
      BY <1>2, <1>4, <1>7
    <2>2. v <= 9999 => v * m <= 9999 * m
      BY <1>1, MultiplesOrdered
    <2>3. m <= 9999 => v * m <= v * 9999
      BY <1>1, MultiplesOrdered
    <2>4. ~(v <= 9999)
      BY <1>1, <1>2, <2>1, <2>2
    <2>5. ~(m <= 9999)
      BY <1>1, <1>2, <2>1, <2>3
    <2>6. QED
      BY <1>1, <2>4, <2>5 DEF Whole
  <1>8. QED
    BY <1>5, <1>6, <1>7 DEF Whole

(* A field is recorded where a sample states it.                            *)
LEMMA RecordedShare ==
    ASSUME NEW offers, NEW x, ValidSamples(offers) # 0 => x \in Shares
    PROVE  /\ Recorded(offers, x) \in Seq(Shares)
           /\ Len(Recorded(offers, x)) = IF ValidSamples(offers) = 0 THEN 0 ELSE 1
           /\ AllWhole(Recorded(offers, x)) <=> (ValidSamples(offers) # 0 => x = Whole)
  <1>1. CASE ValidSamples(offers) = 0
    <2>1. Recorded(offers, x) = <<>>
      BY <1>1 DEF Recorded
    <2>2. QED
      BY <1>1, <2>1 DEF AllWhole
  <1>2. CASE ValidSamples(offers) # 0
    <2>1. Recorded(offers, x) = <<x>>
      BY <1>2 DEF Recorded
    <2>2. <<x>> \in Seq(Shares) /\ Len(<<x>>) = 1 /\ DOMAIN <<x>> = {1} /\ <<x>>[1] = x
      BY <1>2
    <2>3. QED
      BY <1>2, <2>1, <2>2 DEF AllWhole
  <1>3. QED
    BY <1>1, <1>2

(* The samples that state a field are some of all.                          *)
LEMMA ValidCount ==
    ASSUME NEW n \in Nat, NEW offers, DOMAIN offers = 1..n
    PROVE  LET valid == {i \in 1..n : offers[i] # {}}
           IN  /\ IsFiniteSet(valid) /\ ValidSamples(offers) = Cardinality(valid)
               /\ ValidSamples(offers) \in 0..n
               /\ ValidSamples(offers) = 0 <=> \A i \in 1..n : offers[i] = {}
  <1> DEFINE valid == {i \in 1..n : offers[i] # {}}
  <1>1. IsFiniteSet(1..n) /\ Cardinality(1..n) = n
    BY FS_Interval
  <1>2. valid \in SUBSET (1..n)
    OBVIOUS
  <1>3. ValidSamples(offers) = Cardinality(valid)
    BY DEF ValidSamples
  <1>4. valid = {} <=> \A i \in 1..n : offers[i] = {}
    OBVIOUS
  <1> HIDE DEF valid
  <1>5. IsFiniteSet(valid) /\ Cardinality(valid) <= n /\ Cardinality(valid) \in Nat
    <2> DEFINE all == 1..n
    <2> HIDE DEF all
    <2>1. IsFiniteSet(valid) /\ Cardinality(valid) <= Cardinality(all)
      BY <1>1, <1>2, FS_Subset DEF all
    <2>2. Cardinality(valid) \in Nat
      BY <2>1, FS_CardinalityType
    <2>3. QED
      BY <1>1, <2>1, <2>2 DEF all
  <1>6. Cardinality(valid) = 0 <=> valid = {}
    BY <1>5, FS_EmptySet
  <1>7. ValidSamples(offers) \in 0..n
    BY <1>3, <1>5
  <1>8. QED
    BY <1>3, <1>4, <1>5, <1>6, <1>7 DEF valid

(* A field of one candidate agrees where whoever states it states that one. *)
LEMMA ScalarTells ==
    ASSUME NEW n \in 0..Resolution, NEW offers, DOMAIN offers = 1..n, NEW c
    PROVE  /\ ValidSamples(offers) # 0 => ScalarAgreement(offers, c) \in Shares
           /\ ValidSamples(offers) # 0 =>
                 (ScalarAgreement(offers, c) = Whole <=> \A i \in 1..n : offers[i] = {} \/ c \in offers[i])
  <1> DEFINE valid == {i \in 1..n : offers[i] # {}}
             voting == {i \in 1..n : c \in offers[i]}
             d == ValidSamples(offers)
             v == Cardinality(voting)
  <1>1. n \in Nat /\ n <= Resolution
    BY DEF Resolution
  <1>2. IsFiniteSet(valid) /\ d = Cardinality(valid) /\ d \in 0..n
    BY <1>1, ValidCount
  <1>3. voting \in SUBSET valid
    OBVIOUS
  <1>4. Votes(Tally(offers), c) = v
    <2>1. DOMAIN Tally(offers) = UNION ToSet(offers)
      BY DEF Tally
    <2>2. CASE c \in UNION ToSet(offers)
      BY <2>1, <2>2 DEF Votes, Tally
    <2>3. CASE c \notin UNION ToSet(offers)
      <3>1. voting = {}
        BY <2>3 DEF ToSet
      <3>2. Votes(Tally(offers), c) = 0
        BY <2>1, <2>3 DEF Votes
      <3>3. QED
        BY <3>1, <3>2, FS_EmptySet
    <2>4. QED
      BY <2>2, <2>3
  <1>5. ScalarAgreement(offers, c) = Rounded(Whole * v, d)
    BY <1>4 DEF ScalarAgreement
  <1>6. voting = valid <=> \A i \in 1..n : offers[i] = {} \/ c \in offers[i]
    OBVIOUS
  <1> HIDE DEF valid, voting, d
  <1>7. v \in Nat /\ v <= Cardinality(valid) /\ (v = Cardinality(valid) => voting = valid)
    BY <1>2, <1>3, FS_Subset, FS_CardinalityType
  <1>8. v \in 0..d /\ (v = d <=> voting = valid)
    BY <1>1, <1>2, <1>7
  <1> HIDE DEF v
  <1>9. d # 0 => d \in 1..Resolution
    <2>1. d \in Nat /\ d <= n
      BY <1>1, <1>2
    <2>2. QED
      BY <1>1, <2>1 DEF Resolution
  <1>10. ASSUME d # 0
         PROVE  /\ ScalarAgreement(offers, c) \in Shares
                /\ ScalarAgreement(offers, c) = Whole <=> v = d
    <2> DEFINE share == Rounded(Whole * v, d)
    <2>1. share \in 0..Whole /\ (v = d => share = Whole) /\ (v # d => share <= Whole - 5)
      BY <1>8, <1>9, <1>10, RoundedShare
    <2> HIDE DEF share
    <2>2. share \in Shares /\ (share = Whole <=> v = d)
      BY <2>1 DEF Shares, Whole
    <2>3. QED
      BY <1>5, <2>2 DEF share
  <1>11. QED
    BY <1>6, <1>8, <1>10 DEF d

(* So does the bound of a sequence, of which a sample states at most one.   *)
LEMMA StepsTell ==
    ASSUME NEW n \in 0..Resolution, NEW offers, DOMAIN offers = 1..n,
           \A i \in 1..n : Lone(offers[i]), NEW threshold \in Nat, 2 * threshold > n
    PROVE  LET steps == MajorityFrom(Tally(offers), threshold)
               share == MajorityAgreement(offers, steps)
           IN  /\ ValidSamples(offers) # 0 => share \in Shares
               /\ (ValidSamples(offers) # 0 => share = Whole) <=> \A i \in 1..n : offers[i] \subseteq steps
  <1> DEFINE steps == MajorityFrom(Tally(offers), threshold)
             share == MajorityAgreement(offers, steps)
             backing(m) == {i \in 1..n : m \in offers[i]}
  <1>0. n \in Nat /\ IsFiniteSet(1..n) /\ Cardinality(1..n) = n
    BY FS_Interval
  <1>1. \A m \in steps : Cardinality(backing(m)) >= threshold
    <2> SUFFICES ASSUME NEW m \in steps PROVE Cardinality(backing(m)) >= threshold
      OBVIOUS
    <2>1. m \in Reaching(Tally(offers), threshold)
      BY DEF MajorityFrom
    <2>2. QED
      BY <2>1, ReachingBacked
  <1> HIDE DEF steps
  <1>2. \A m, k \in steps : m = k
    <2> SUFFICES ASSUME NEW m \in steps, NEW k \in steps PROVE m = k
      OBVIOUS
    <2>1. backing(m) \subseteq 1..n /\ backing(k) \subseteq 1..n
      OBVIOUS
    <2>2. Cardinality(backing(m)) >= threshold /\ Cardinality(backing(k)) >= threshold
      BY <1>1
    <2> HIDE DEF backing
    <2>3. Cardinality(backing(m)) \in Nat /\ Cardinality(backing(k)) \in Nat
      BY <1>0, <2>1, FS_Subset, FS_CardinalityType
    <2>4. Cardinality(backing(m)) + Cardinality(backing(k)) > n
      BY <1>0, <2>2, <2>3
    <2>5. backing(m) \cap backing(k) # {}
      BY <1>0, <2>1, <2>4, FS_MajoritiesIntersect
    <2>6. QED
      BY <2>5 DEF backing, Lone
  <1>3. ValidSamples(offers) = 0 <=> \A i \in 1..n : offers[i] = {}
    BY <1>0, ValidCount
  <1>4. CASE steps = {}
    <2>1. share = 0
      BY <1>4 DEF MajorityAgreement
    <2>2. 0 \in Shares /\ 0 # Whole
      BY DEF Shares, Whole
    <2>3. QED
      BY <1>3, <1>4, <2>1, <2>2 DEF steps, share
  <1>5. CASE steps # {}
    <2> DEFINE c == CHOOSE m \in steps : TRUE
    <2>1. c \in steps
      BY <1>5
    <2>2. share = ScalarAgreement(offers, c)
      BY <1>5 DEF MajorityAgreement
    <2> HIDE DEF c, share
    <2>3. \A i \in 1..n : offers[i] \subseteq steps <=> (offers[i] = {} \/ c \in offers[i])
      <3> SUFFICES ASSUME NEW i \in 1..n
                   PROVE  offers[i] \subseteq steps <=> (offers[i] = {} \/ c \in offers[i])
        OBVIOUS
      <3>1. Lone(offers[i])
        OBVIOUS
      <3>2. QED
        BY <1>2, <2>1, <3>1 DEF Lone
    <2>4. /\ ValidSamples(offers) # 0 => share \in Shares
          /\ ValidSamples(offers) # 0 =>
                (share = Whole <=> \A i \in 1..n : offers[i] = {} \/ c \in offers[i])
      BY <2>2, ScalarTells
    <2>5. QED
      BY <1>3, <2>3, <2>4 DEF steps, share
  <1>6. QED
    BY <1>4, <1>5

(* And the opcodes, of which all that are named are to be named by all.     *)
LEMMA SetTells ==
    ASSUME NEW n \in 0..Resolution, NEW offers, DOMAIN offers = 1..n,
           IsFiniteSet(UNION ToSet(offers)), n * Cardinality(UNION ToSet(offers)) <= Resolution
    PROVE  /\ ValidSamples(offers) # 0 => SetAgreement(offers) \in Shares
           /\ (ValidSamples(offers) # 0 => SetAgreement(offers) = Whole)
                 <=> \A i, j \in 1..n : offers[i] # {} /\ offers[j] # {} => offers[i] = offers[j]
  <1> DEFINE valid == {i \in 1..n : offers[i] # {}}
             C == UNION ToSet(offers)
             cast == Ballots(offers)
             d == ValidSamples(offers) * Cardinality(C)
             v == Cardinality(cast)
  <1>0. n \in Nat
    OBVIOUS
  <1>1. /\ IsFiniteSet(valid) /\ ValidSamples(offers) = Cardinality(valid) /\ ValidSamples(offers) \in 0..n
        /\ ValidSamples(offers) = 0 <=> \A i \in 1..n : offers[i] = {}
    BY <1>0, ValidCount
  <1>2. cast = {b \in (1..n) \X C : b[2] \in offers[b[1]]}
    BY DEF Ballots
  <1>3. \A i \in 1..n : offers[i] \subseteq C
    BY DEF ToSet
  <1>4. C = UNION {offers[i] : i \in 1..n}
    BY DEF ToSet
  <1> HIDE DEF C, cast
  <1>5. cast \in SUBSET (valid \X C)
    BY <1>2
  <1>6. cast = valid \X C <=> \A i \in valid : offers[i] = C
    <2>1. ASSUME cast = valid \X C, NEW i \in valid
          PROVE  offers[i] = C
      <3>1. \A c \in C : <<i, c>> \in cast
        BY <2>1
      <3>2. \A c \in C : c \in offers[i]
        BY <1>2, <3>1
      <3>3. QED
        BY <1>3, <3>2
    <2>2. ASSUME \A i \in valid : offers[i] = C
          PROVE  cast = valid \X C
      BY <1>2, <1>5, <2>2
    <2>3. QED
      BY <2>1, <2>2
  <1>7. (\A i \in valid : offers[i] = C)
           <=> \A i, j \in 1..n : offers[i] # {} /\ offers[j] # {} => offers[i] = offers[j]
    <2>1. ASSUME \A i, j \in 1..n : offers[i] # {} /\ offers[j] # {} => offers[i] = offers[j],
                 NEW i \in valid
          PROVE  offers[i] = C
      BY <1>4, <2>1
    <2>2. QED
      BY <2>1
  <1>8. /\ IsFiniteSet(valid \X C) /\ Cardinality(valid \X C) = d
    BY <1>1, FS_Product DEF C
  <1> HIDE DEF valid
  <1>9. v \in Nat /\ v <= Cardinality(valid \X C) /\ (v = Cardinality(valid \X C) => cast = valid \X C)
    BY <1>5, <1>8, FS_Subset, FS_CardinalityType
  <1>10. Cardinality(C) \in Nat /\ (Cardinality(C) = 0 <=> C = {})
    BY FS_CardinalityType, FS_EmptySet DEF C
  <1>11. ValidSamples(offers) # 0 => d \in 1..Resolution
    <2> SUFFICES ASSUME ValidSamples(offers) # 0 PROVE d \in 1..Resolution
      OBVIOUS
    <2>1. C # {}
      BY <1>1, <1>4
    <2>2. Cardinality(C) >= 1 /\ ValidSamples(offers) >= 1 /\ ValidSamples(offers) <= n
          /\ ValidSamples(offers) \in Nat
      BY <1>0, <1>1, <1>10, <2>1
    <2>3. ValidSamples(offers) * Cardinality(C) <= n * Cardinality(C)
      BY <1>0, <1>10, <2>2, MultiplesOrdered
    <2>4. n * Cardinality(C) <= Resolution
      BY DEF C
    <2>5. ValidSamples(offers) * Cardinality(C) >= 1
      <3>1. 1 * Cardinality(C) <= ValidSamples(offers) * Cardinality(C)
        BY <1>10, <2>2, MultiplesOrdered
      <3>2. QED
        BY <1>10, <2>2, <3>1
    <2>6. n * Cardinality(C) \in Int /\ ValidSamples(offers) * Cardinality(C) \in Int
      BY <1>0, <1>10, <2>2
    <2> DEFINE all == n * Cardinality(C)
    <2>7. d <= all /\ all <= Resolution /\ d >= 1 /\ all \in Int /\ d \in Int
      BY <2>3, <2>4, <2>5, <2>6
    <2> HIDE DEF all, d
    <2>8. QED
      BY <2>7 DEF Resolution
  <1>12. SetAgreement(offers) = Rounded(Whole * v, d)
    BY DEF SetAgreement, C, cast
  <1> HIDE DEF d, v
  <1>13. ASSUME ValidSamples(offers) # 0
         PROVE  /\ SetAgreement(offers) \in Shares
                /\ SetAgreement(offers) = Whole <=> cast = valid \X C
    <2> DEFINE share == Rounded(Whole * v, d)
    <2>0. v \in 0..d /\ (v = d <=> cast = valid \X C)
      <3>1. d \in Int
        BY <1>11, <1>13
      <3>2. v \in Nat /\ v <= d /\ (v = d <=> cast = valid \X C)
        BY <1>8, <1>9 DEF v
      <3>3. QED
        BY <3>1, <3>2
    <2>1. share \in 0..Whole /\ (v = d => share = Whole) /\ (v # d => share <= Whole - 5)
      BY <2>0, <1>11, <1>13, RoundedShare
    <2> HIDE DEF share
    <2>2. share \in Shares /\ (share = Whole <=> v = d)
      BY <2>1 DEF Shares, Whole
    <2>3. QED
      BY <1>12, <2>0, <2>2 DEF share
  <1>14. QED
    BY <1>1, <1>6, <1>7, <1>13

(* A sample that the assumptions allow.                                     *)
Answers(A) == \A a \in A : /\ \A m, k \in a.steps : m = k
                           /\ \A x, y \in a.source : x = y
                           /\ \A o \in a.operations : o.opcode \in ToSet(Alphabet)

(* From low to high shares.                                                  *)
Fits(s, low, high) == s \in Seq(Shares) /\ Len(s) \in low..high

(* Appending at most one share.                                              *)
LEMMA WholeWithin ==
    ASSUME NEW a, NEW b, NEW m \in Nat, Fits(a, 1, m), Fits(b, 0, 1)
    PROVE  /\ Fits(a \o b, 1, m + 1)
           /\ AllWhole(a \o b) <=> AllWhole(a) /\ AllWhole(b)
  <1>1. /\ a \o b \in Seq(Shares) /\ Len(a \o b) = Len(a) + Len(b)
        /\ AllWhole(a \o b) <=> AllWhole(a) /\ AllWhole(b)
    BY WholeParts DEF Fits
  <1> DEFINE k == Len(a)
             j == Len(b)
  <1>2. k \in 1..m /\ j \in 0..1
    BY DEF Fits
  <1> HIDE DEF k, j
  <1>3. k + j \in 1..(m + 1)
    BY <1>2
  <1>4. QED
    BY <1>1, <1>3 DEF k, j, Fits

(* What the fields agree on, one by one.                                    *)
LEMMA AgreementsTell ==
    ASSUME NEW A, NEW samples \in Seq(A), Answers(A), samples # <<>>,
           Len(samples) <= Resolution,
           Len(samples) * Cardinality(UNION {OpcodesIn(s) : s \in ToSet(samples)}) <= Resolution,
           NEW multi, NEW context, NEW steps,
           steps = MajorityFrom(Tally(StepOffers(samples)), Threshold(samples)),
           NEW source, source = MajorityFrom(Tally(SourceOffers(samples)), Threshold(samples))
    PROVE  LET all == Agreements(samples, multi, steps, source, context)
           IN  /\ all \in Seq(Shares) /\ Len(all) \in 1..8
               /\ AllWhole(all) <=>
                     /\ \A s \in ToSet(samples) :
                           /\ s.multi = multi /\ s.steps \subseteq steps /\ s.source \subseteq source
                           /\ \A slot \in Slots : s.context[slot] \in {NoText, context[slot]}
                     /\ \A s, t \in ToSet(samples) :
                           OpcodesIn(s) # {} /\ OpcodesIn(t) # {} => OpcodesIn(s) = OpcodesIn(t)
  <1> DEFINE n == Len(samples)
             Text(slot) == Recorded(SlotOffers(samples, slot),
                                    ScalarAgreement(SlotOffers(samples, slot), context[slot]))
             first == Recorded(MultiOffers(samples), ScalarAgreement(MultiOffers(samples), multi))
             second == Recorded(StepOffers(samples), MajorityAgreement(StepOffers(samples), steps))
             third == Recorded(SourceOffers(samples), MajorityAgreement(SourceOffers(samples), source))
             last == Recorded(OpcodeOffers(samples), SetAgreement(OpcodeOffers(samples)))
             all == Agreements(samples, multi, steps, source, context)
  <1>1. n \in 1..Resolution /\ n \in 0..Resolution /\ DOMAIN samples = 1..n /\ n \in Nat
    <2>1. n \in Nat /\ n # 0 /\ DOMAIN samples = 1..n
      OBVIOUS
    <2>2. n <= Resolution
      OBVIOUS
    <2> HIDE DEF n
    <2>3. n \in 1..Resolution /\ n \in 0..Resolution
      BY <2>1, <2>2 DEF Resolution
    <2>4. QED
      BY <2>1, <2>3
  <1>2. ToSet(samples) = {samples[i] : i \in 1..n} /\ \A i \in 1..n : samples[i] \in A
    BY <1>1 DEF ToSet
  <1> HIDE DEF n
  <1>3. /\ Fits(first, 1, 1)
        /\ AllWhole(first) <=> \A i \in 1..n : samples[i].multi = multi
    <2> DEFINE offers == MultiOffers(samples)
               share == ScalarAgreement(offers, multi)
    <2>1. DOMAIN offers = 1..n /\ \A i \in 1..n : offers[i] = {samples[i].multi}
      BY <1>1 DEF MultiOffers, Offers
    <2> HIDE DEF offers
    <2>2. ValidSamples(offers) # 0
      <3>1. 1 \in 1..n
        BY <1>1
      <3>2. offers[1] # {}
        BY <2>1, <3>1
      <3>3. QED
        BY <1>1, <2>1, <3>1, <3>2, ValidCount
    <2>3. share \in Shares /\ (share = Whole <=> \A i \in 1..n : offers[i] = {} \/ multi \in offers[i])
      BY <1>1, <2>1, <2>2, ScalarTells
    <2> HIDE DEF share
    <2>4. /\ Recorded(offers, share) \in Seq(Shares) /\ Len(Recorded(offers, share)) = 1
          /\ AllWhole(Recorded(offers, share)) <=> share = Whole
      BY <2>2, <2>3, RecordedShare
    <2>5. (\A i \in 1..n : offers[i] = {} \/ multi \in offers[i]) <=> \A i \in 1..n : samples[i].multi = multi
      BY <2>1
    <2>6. QED
      BY <2>3, <2>4, <2>5 DEF offers, share, Fits
  <1>4. /\ Fits(second, 0, 1)
        /\ AllWhole(second) <=> \A i \in 1..n : samples[i].steps \subseteq steps
    <2> DEFINE offers == StepOffers(samples)
               share == MajorityAgreement(offers, steps)
    <2>1. DOMAIN offers = 1..n /\ \A i \in 1..n : offers[i] = samples[i].steps
      BY <1>1 DEF StepOffers, Offers
    <2>2. \A i \in 1..n : Lone(offers[i])
      BY <1>2, <2>1 DEF Answers, Lone
    <2>3. Threshold(samples) \in Nat /\ 2 * Threshold(samples) > n
      BY <1>1 DEF Threshold, n
    <2> HIDE DEF offers
    <2>4. /\ ValidSamples(offers) # 0 => share \in Shares
          /\ (ValidSamples(offers) # 0 => share = Whole) <=> \A i \in 1..n : offers[i] \subseteq steps
      <3>1. steps = MajorityFrom(Tally(offers), Threshold(samples))
        BY DEF offers
      <3>2. QED
        BY <1>1, <2>1, <2>2, <2>3, <3>1, StepsTell
    <2> HIDE DEF share
    <2>5. /\ Recorded(offers, share) \in Seq(Shares) /\ Len(Recorded(offers, share)) \in 0..1
          /\ AllWhole(Recorded(offers, share)) <=> (ValidSamples(offers) # 0 => share = Whole)
      BY <2>4, RecordedShare
    <2>6. (\A i \in 1..n : offers[i] \subseteq steps) <=> \A i \in 1..n : samples[i].steps \subseteq steps
      BY <2>1
    <2>7. QED
      BY <2>4, <2>5, <2>6 DEF offers, share, Fits
  <1>5. /\ Fits(third, 0, 1)
        /\ AllWhole(third) <=> \A i \in 1..n : samples[i].source \subseteq source
    <2> DEFINE offers == SourceOffers(samples)
               share == MajorityAgreement(offers, source)
    <2>1. DOMAIN offers = 1..n /\ \A i \in 1..n : offers[i] = samples[i].source
      BY <1>1 DEF SourceOffers, Offers
    <2>2. \A i \in 1..n : Lone(offers[i])
      BY <1>2, <2>1 DEF Answers, Lone
    <2>3. Threshold(samples) \in Nat /\ 2 * Threshold(samples) > n
      BY <1>1 DEF Threshold, n
    <2> HIDE DEF offers
    <2>4. /\ ValidSamples(offers) # 0 => share \in Shares
          /\ (ValidSamples(offers) # 0 => share = Whole) <=> \A i \in 1..n : offers[i] \subseteq source
      <3>1. source = MajorityFrom(Tally(offers), Threshold(samples))
        BY DEF offers
      <3>2. QED
        BY <1>1, <2>1, <2>2, <2>3, <3>1, StepsTell
    <2> HIDE DEF share
    <2>5. /\ Recorded(offers, share) \in Seq(Shares) /\ Len(Recorded(offers, share)) \in 0..1
          /\ AllWhole(Recorded(offers, share)) <=> (ValidSamples(offers) # 0 => share = Whole)
      BY <2>4, RecordedShare
    <2>6. (\A i \in 1..n : offers[i] \subseteq source) <=> \A i \in 1..n : samples[i].source \subseteq source
      BY <2>1
    <2>7. QED
      BY <2>4, <2>5, <2>6 DEF offers, share, Fits
  <1>6. ASSUME NEW slot
        PROVE  /\ Fits(Text(slot), 0, 1)
               /\ AllWhole(Text(slot))
                     <=> \A i \in 1..n : samples[i].context[slot] \in {NoText, context[slot]}
    <2> DEFINE offers == SlotOffers(samples, slot)
               share == ScalarAgreement(offers, context[slot])
    <2>1. /\ DOMAIN offers = 1..n
          /\ \A i \in 1..n : offers[i] = TextOffer(samples[i].context[slot])
      BY <1>1 DEF SlotOffers, Offers
    <2> HIDE DEF offers
    <2>2. ValidSamples(offers) = 0 <=> \A i \in 1..n : offers[i] = {}
      BY <1>1, <2>1, ValidCount
    <2>3. /\ ValidSamples(offers) # 0 => share \in Shares
          /\ ValidSamples(offers) # 0 =>
                (share = Whole <=> \A i \in 1..n : offers[i] = {} \/ context[slot] \in offers[i])
      BY <1>1, <2>1, ScalarTells
    <2> HIDE DEF share
    <2>4. /\ Recorded(offers, share) \in Seq(Shares) /\ Len(Recorded(offers, share)) \in 0..1
          /\ AllWhole(Recorded(offers, share)) <=> (ValidSamples(offers) # 0 => share = Whole)
      BY <2>3, RecordedShare
    <2>5. (\A i \in 1..n : offers[i] = {} \/ context[slot] \in offers[i])
             <=> \A i \in 1..n : samples[i].context[slot] \in {NoText, context[slot]}
      BY <2>1 DEF TextOffer
    <2>6. QED
      BY <2>2, <2>3, <2>4, <2>5 DEF offers, share, Fits
  <1>7. /\ Fits(last, 0, 1)
        /\ AllWhole(last) <=>
              \A i, j \in 1..n : OpcodesIn(samples[i]) # {} /\ OpcodesIn(samples[j]) # {}
                                    => OpcodesIn(samples[i]) = OpcodesIn(samples[j])
    <2> DEFINE offers == OpcodeOffers(samples)
               share == SetAgreement(offers)
               named == UNION ToSet(offers)
    <2>1. DOMAIN offers = 1..n /\ \A i \in 1..n : offers[i] = OpcodesIn(samples[i])
      BY <1>1 DEF OpcodeOffers, Offers, OpcodesIn
    <2> HIDE DEF offers
    <2>2. named = UNION {OpcodesIn(s) : s \in ToSet(samples)}
      <3>1. ToSet(offers) = {OpcodesIn(samples[i]) : i \in 1..n}
        BY <2>1 DEF ToSet
      <3>2. {OpcodesIn(s) : s \in ToSet(samples)} = {OpcodesIn(samples[i]) : i \in 1..n}
        BY <1>2
      <3>3. QED
        BY <3>1, <3>2
    <2>3. IsFiniteSet(named)
      <3>1. IsFiniteSet(ToSet(Alphabet))
        <4>1. Alphabet \in Seq(ToSet(Alphabet))
          BY ProtocolEvidenceAssumption
        <4>2. IsFiniteSet(DOMAIN Alphabet)
          BY <4>1, FS_Interval
        <4> DEFINE f == [i \in DOMAIN Alphabet |-> Alphabet[i]]
        <4>3. f \in Surjection(DOMAIN Alphabet, ToSet(Alphabet))
          BY DEF Surjection, ToSet
        <4> HIDE DEF f
        <4>4. QED
          BY <4>2, <4>3, FS_Surjection
      <3>2. named \in SUBSET ToSet(Alphabet)
        BY <1>2, <2>1 DEF ToSet, OpcodesIn, Answers
      <3> HIDE DEF named
      <3>3. QED
        BY <3>1, <3>2, FS_Subset
    <2>4. n * Cardinality(named) <= Resolution
      BY <2>2 DEF n
    <2>5. /\ ValidSamples(offers) # 0 => share \in Shares
          /\ (ValidSamples(offers) # 0 => share = Whole)
                <=> \A i, j \in 1..n : offers[i] # {} /\ offers[j] # {} => offers[i] = offers[j]
      BY <1>1, <2>1, <2>3, <2>4, SetTells
    <2> HIDE DEF share
    <2>6. /\ Recorded(offers, share) \in Seq(Shares) /\ Len(Recorded(offers, share)) \in 0..1
          /\ AllWhole(Recorded(offers, share)) <=> (ValidSamples(offers) # 0 => share = Whole)
      BY <2>5, RecordedShare
    <2>7. QED
      BY <2>1, <2>5, <2>6 DEF offers, share, Fits
  <1>8. all = first \o second \o third \o Text("type") \o Text("init") \o Text("destroy") \o Text("lifetime") \o last
    BY DEF Agreements
  <1> DEFINE s2 == first \o second
             t3 == s2 \o third
             s3 == t3 \o Text("type")
             s4 == s3 \o Text("init")
             s5 == s4 \o Text("destroy")
             s6 == s5 \o Text("lifetime")
             s7 == s6 \o last
  <1> HIDE DEF first, second, third, Text, last, all
  <1>9. Fits(s2, 1, 2) /\ (AllWhole(s2) <=> AllWhole(first) /\ AllWhole(second))
    BY <1>3, <1>4, WholeWithin
  <1> HIDE DEF s2
  <1>10. Fits(t3, 1, 3) /\ (AllWhole(t3) <=> AllWhole(s2) /\ AllWhole(third))
    BY <1>9, <1>5, WholeWithin
  <1> HIDE DEF t3
  <1>11. Fits(s3, 1, 4) /\ (AllWhole(s3) <=> AllWhole(t3) /\ AllWhole(Text("type")))
    BY <1>10, <1>6, WholeWithin
  <1> HIDE DEF s3
  <1>12. Fits(s4, 1, 5) /\ (AllWhole(s4) <=> AllWhole(s3) /\ AllWhole(Text("init")))
    BY <1>11, <1>6, WholeWithin
  <1> HIDE DEF s4
  <1>13. /\ Fits(s5, 1, 6)
         /\ AllWhole(s5) <=> AllWhole(s4) /\ AllWhole(Text("destroy"))
    BY <1>12, <1>6, WholeWithin
  <1> HIDE DEF s5
  <1>14. /\ Fits(s6, 1, 7)
         /\ AllWhole(s6) <=> AllWhole(s5) /\ AllWhole(Text("lifetime"))
    BY <1>13, <1>6, WholeWithin
  <1> HIDE DEF s6
  <1>15. Fits(s7, 1, 8) /\ (AllWhole(s7) <=> AllWhole(s6) /\ AllWhole(last))
    BY <1>14, <1>7, WholeWithin
  <1>16. all = s7
    BY <1>8 DEF s7, s6, s5, s4, s3, t3, s2
  <1> HIDE DEF s7
  <1>17. AllWhole(all) <=>
            /\ \A i \in 1..n : samples[i].multi = multi
            /\ \A i \in 1..n : samples[i].steps \subseteq steps
            /\ \A i \in 1..n : samples[i].source \subseteq source
            /\ \A slot \in Slots : \A i \in 1..n : samples[i].context[slot] \in {NoText, context[slot]}
            /\ \A i, j \in 1..n : OpcodesIn(samples[i]) # {} /\ OpcodesIn(samples[j]) # {}
                                    => OpcodesIn(samples[i]) = OpcodesIn(samples[j])
    <2>1. (\A slot \in Slots : AllWhole(Text(slot)))
             <=> AllWhole(Text("type")) /\ AllWhole(Text("init")) /\ AllWhole(Text("destroy"))
                 /\ AllWhole(Text("lifetime"))
      BY DEF Slots
    <2>2. (\A slot \in Slots : AllWhole(Text(slot)))
             <=> \A slot \in Slots : \A i \in 1..n : samples[i].context[slot] \in {NoText, context[slot]}
      BY <1>6
    <2>3. QED
      BY <1>3, <1>4, <1>5, <1>7, <1>9, <1>10, <1>11, <1>12, <1>13, <1>14, <1>15, <1>16, <2>1, <2>2
  <1>18. AllWhole(all) <=>
                     /\ \A s \in ToSet(samples) :
                           /\ s.multi = multi /\ s.steps \subseteq steps /\ s.source \subseteq source
                           /\ \A slot \in Slots : s.context[slot] \in {NoText, context[slot]}
                     /\ \A s, t \in ToSet(samples) :
                           OpcodesIn(s) # {} /\ OpcodesIn(t) # {} => OpcodesIn(s) = OpcodesIn(t)
    <2>1. (\A s \in ToSet(samples) : s.multi = multi) <=> \A i \in 1..n : samples[i].multi = multi
      BY <1>2
    <2>2. (\A s \in ToSet(samples) : s.steps \subseteq steps) <=> \A i \in 1..n : samples[i].steps \subseteq steps
      BY <1>2
    <2>3. (\A s \in ToSet(samples) : s.source \subseteq source)
             <=> \A i \in 1..n : samples[i].source \subseteq source
      BY <1>2
    <2>4. (\A s \in ToSet(samples) : \A slot \in Slots : s.context[slot] \in {NoText, context[slot]})
             <=> \A slot \in Slots : \A i \in 1..n : samples[i].context[slot] \in {NoText, context[slot]}
      BY <1>2
    <2>5. (\A s, t \in ToSet(samples) : OpcodesIn(s) # {} /\ OpcodesIn(t) # {} => OpcodesIn(s) = OpcodesIn(t))
             <=> \A i, j \in 1..n : OpcodesIn(samples[i]) # {} /\ OpcodesIn(samples[j]) # {}
                                       => OpcodesIn(samples[i]) = OpcodesIn(samples[j])
      BY <1>2
    <2>6. QED
      BY <1>17, <2>1, <2>2, <2>3, <2>4, <2>5
  <1>19. QED
    BY <1>15, <1>16, <1>18 DEF all, Fits

(* The confidence of a vote.                                                *)
LEMMA ConfidenceTells ==
    ASSUME NEW A, NEW samples \in Seq(A), Answers(A), samples # <<>>, NEW rejections \in Nat,
           Resolvable(samples, rejections)
    PROVE  LET c == VoteConventions(samples, rejections)
           IN  c.confidence = Whole <=> rejections = 0 /\ Unanimous(ToSet(samples), c)
  <1> DEFINE c == VoteConventions(samples, rejections)
             all == Agreements(samples, c.multi, c.steps, c.source, c.context)
             n == Len(samples)
             validity == Rounded(Whole * n, n + rejections)
  <1>1. /\ c.steps = MajorityFrom(Tally(StepOffers(samples)), Threshold(samples))
        /\ c.source = MajorityFrom(Tally(SourceOffers(samples)), Threshold(samples))
        /\ c.confidence = Rounded(validity * MeanOf(all), Whole)
    BY DEF VoteConventions
  <1>2. n \in Nat /\ n # 0 /\ n + rejections \in 1..Resolution /\ n \in 0..(n + rejections) /\ n <= Resolution
    <2>1. n \in Nat /\ n # 0
      OBVIOUS
    <2>2. n + rejections <= Resolution
      BY DEF Resolvable
    <2> HIDE DEF n
    <2>3. n + rejections <= 2000
      BY <2>2 DEF Resolution
    <2>4. n + rejections \in 1..2000 /\ n \in 0..(n + rejections) /\ n <= 2000
      BY <2>1, <2>3
    <2>5. QED
      BY <2>1, <2>4 DEF Resolution
  <1>3. n * Cardinality(UNION {OpcodesIn(s) : s \in ToSet(samples)}) <= Resolution
    BY DEF Resolvable
  <1> HIDE DEF c
  <1>4. /\ all \in Seq(Shares) /\ Len(all) \in 1..8
        /\ AllWhole(all) <=> Unanimous(ToSet(samples), c)
    BY <1>1, <1>2, <1>3, AgreementsTell DEF Unanimous, AgreesWith
  <1> HIDE DEF all
  <1>5. MeanOf(all) \in 0..Whole /\ (MeanOf(all) = Whole <=> AllWhole(all))
    BY <1>4, TellingMean
  <1>6. validity \in 0..Whole /\ (validity = Whole <=> rejections = 0)
    <2> DEFINE d == n + rejections
    <2>0. n = d <=> rejections = 0
      BY <1>2
    <2> HIDE DEF d
    <2>1. /\ Rounded(Whole * n, d) \in 0..Whole
          /\ n = d => Rounded(Whole * n, d) = Whole
          /\ n # d => Rounded(Whole * n, d) <= Whole - 5
      BY <1>2, RoundedShare DEF d
    <2> DEFINE share == Rounded(Whole * n, d)
    <2> HIDE DEF share
    <2>2. share \in 0..Whole /\ (share = Whole <=> n = d)
      BY <2>1 DEF share, Whole
    <2>3. QED
      BY <2>0, <2>2 DEF share, d
  <1> HIDE DEF validity
  <1>7. c.confidence = Whole <=> validity = Whole /\ MeanOf(all) = Whole
    BY <1>1, <1>5, <1>6, WholeProduct
  <1>8. QED
    BY <1>4, <1>5, <1>6, <1>7 DEF c

(* The inductive strengthening: a vote is one of some samples.              *)
CountInv ==
    /\ rejected \in Nat
    /\ phase = "merging" /\ conventions # NoConventions => accepted # <<>>

(* Every step keeps it.                                                     *)
LEMMA CountStep ==
    ASSUME CountInv, [Next]_vars
    PROVE  CountInv'
  <1>1. CASE SampleFails
    BY <1>1 DEF SampleFails, End, CountInv
  <1>2. CASE Vote
    BY <1>2 DEF Vote, End, CountInv
  <1>3. CASE Mine
    BY <1>3 DEF Mine, Start, CountInv
  <1>4. CASE UNCHANGED rejected /\ phase' # "merging"
    BY <1>4 DEF CountInv
  <1>5. CASE rejected' = 0 /\ phase' = "idle"
    BY <1>5 DEF CountInv
  <1>6. CASE UNCHANGED <<phase, accepted, rejected, conventions>>
    BY <1>6 DEF CountInv
  <1>7. QED
    BY <1>1, <1>2, <1>3, <1>4, <1>5, <1>6
    DEF Next, MineFails, Start, Sample, Merge, Store, WriteFile, Kill, Load, Answer, End, miningVars, vars

(* Up to the resolution of its shares, the confidence is whole exactly      *)
(* where no sample was rejected and none contradicts what was selected,     *)
(* whatever the samples are (_vote_conventions).                            *)
THEOREM ConfidenceHolds == Spec => []ConfidenceShowsDissent
  <1>1. Init => CountInv
    BY DEF Init, CountInv
  <1>2. SamplesInv /\ EvidenceInv /\ CountInv => ConfidenceShowsDissent
    <2> SUFFICES ASSUME SamplesInv, EvidenceInv, CountInv, phase = "merging",
                        conventions # NoConventions, Resolvable(accepted, rejected)
                 PROVE  conventions.confidence = Whole
                           <=> rejected = 0 /\ Unanimous(ToSet(accepted), conventions)
      BY DEF ConfidenceShowsDissent
    <2>1. /\ accepted \in Seq(Scope.answers) /\ accepted # <<>> /\ rejected \in Nat
          /\ conventions = VoteConventions(accepted, rejected)
      BY DEF SamplesInv, EvidenceInv, CountInv
    <2>2. Answers(Scope.answers)
      BY ProtocolEvidenceAssumption DEF EvidenceInv, Scope, Answers
    <2>3. QED
      BY <2>1, <2>2, ConfidenceTells
  <1>3. Spec => []CountInv
    BY <1>1, CountStep, PTL DEF Spec
  <1>4. QED
    BY <1>2, <1>3, SamplesKept, EvidenceKept, PTL
=============================================================================
