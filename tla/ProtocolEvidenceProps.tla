------------------------ MODULE ProtocolEvidenceProps ------------------------
EXTENDS ProtocolEvidence

---------------------------------------------------------------------------
(* What was mined.                                                          *)

(* Everything the miner finds begins before the size that a guard asks for. *)
ReadsWithin(p, bases, n) ==
    /\ n \in Nat
    /\ {l.offset : l \in Loads(p, bases) \cup LiteralGuards(p)}
          \cup Dispatch(p, bases, Variables(p, bases)) \subseteq 0..(n - 1)

(* A parser that checks the size before it reads has a frame that is        *)
(* accepted, with the payload after the header and no two fields at one     *)
(* offset: what the miner takes for the base of the payload must never lie  *)
(* on a real field (mine_protocol_facts, FrameModel.__post_init__).  And a  *)
(* length that is compared with the size always finds its payload.          *)
GuardedFrameIsDisjoint ==
    facts # Nothing =>
        /\ (\E n \in facts.header : MinSizeGuard(parser) # {} /\ ReadsWithin(parser, Bases(parser), n)) =>
              FrameAccepted(FrameModel(parser, facts))
        /\ (\E f \in facts.fields : f.role = "payload_length") /\ facts.header # {} =>
              \E f \in facts.fields : f.role = "payload"

---------------------------------------------------------------------------
(* What was voted.                                                          *)

Claims(c) ==
    {<<"opcode", o.opcode>> : o \in c.operations} \cup {<<"steps", n>> : n \in c.steps}
    \cup {<<"source", x>> : x \in c.source}
    \cup {<<"snippet", s>> : s \in c.evidence \cup c.sequence}

States(sample, slot, text) == sample.context[slot] = text

(* Opcodes, bound, its source and snippets pass the vote one by one, and    *)
(* yet any two that passed were stated together by one sample               *)
(* (_vote_conventions).                                                     *)
ClaimsShareASample ==
    phase = "merging" /\ conventions # NoConventions =>
        \A a, b \in Claims(conventions) :
            \E sample \in ToSet(accepted) : {a, b} \subseteq Claims(sample)

(* The samples that state a text.                                           *)
Stating(samples, slot, text) == {i \in DOMAIN samples : States(samples[i], slot, text)}

(* Claims that passed were made together; a text of the context passes with *)
(* a plurality, and none was stated by more samples (_vote_conventions).    *)
VotedTogether ==
    /\ ClaimsShareASample
    /\ phase = "merging" /\ conventions # NoConventions =>
          \A slot \in Slots, sample \in ToSet(accepted) :
             sample.context[slot] # NoText =>
                Cardinality(Stating(accepted, slot, sample.context[slot]))
                    <= Cardinality(Stating(accepted, slot, conventions.context[slot]))

(* Shares are parts of ten thousand: a mean of them tells one vote among as *)
(* many as these from none.                                                 *)
Resolution == 2000

OpcodesIn(sample) == {o.opcode : o \in sample.operations}

Resolvable(samples, rejections) ==
    /\ Len(samples) + rejections <= Resolution
    /\ Len(samples) * Cardinality(UNION {OpcodesIn(s) : s \in ToSet(samples)}) <= Resolution

AgreesWith(sample, c) ==
    /\ sample.multi = c.multi
    /\ sample.steps \subseteq c.steps /\ sample.source \subseteq c.source
    /\ \A slot \in Slots : sample.context[slot] \in {NoText, c.context[slot]}

Unanimous(samples, c) ==
    /\ \A s \in samples : AgreesWith(s, c)
    /\ \A s, t \in samples : OpcodesIn(s) # {} /\ OpcodesIn(t) # {} => OpcodesIn(s) = OpcodesIn(t)

(* The confidence is whole exactly where no sample was rejected and none    *)
(* contradicts what was selected: the mean of shares, each rounded, must    *)
(* neither hide a dissent nor charge a sample for what it leaves open       *)
(* (_vote_conventions).  A share of many more votes can hide one.           *)
(* one.                                                                     *)
ConfidenceShowsDissent ==
    phase = "merging" /\ conventions # NoConventions /\ Resolvable(accepted, rejected) =>
        (conventions.confidence = Whole <=> rejected = 0 /\ Unanimous(ToSet(accepted), conventions))

---------------------------------------------------------------------------
(* What was written.                                                        *)

IR == mined[disk["ir"]]

(* The files of the directory are of one command, unless the last one that  *)
(* wrote was killed: a command that fails leaves those of an earlier one    *)
(* as they are, and one that completes repairs what a killed one left.  A   *)
(* plan is taken only where IR, contract and triplet are about one          *)
(* function, killed or not (write_protocol, Stage4Generator.run).           *)
WholeUnlessInterrupted ==
    /\ phase # "writing" /\ ~interrupted => Cardinality({disk[f] : f \in DOMAIN disk}) = 1
    /\ plan.accepted /\ disk["ir"] # 0 => IR.entry = Scope.isf /\ Contract.entry = Scope.isf

(* The inductive strengthening.  The files already written are of the       *)
(* command at work, and until the first is written, or once the last one    *)
(* is, all are of one command; a plan that is asked for or taken is based   *)
(* on an IR and a contract that were found in order.                        *)
FileNames == {"facts", "conventions", "ir", "protocol", "contract"}

OfOneCommand == \A f, g \in FileNames : disk[f] = disk[g]

Remainders ==
    {Files, <<"conventions", "ir", "protocol", "contract">>, <<"ir", "protocol", "contract">>,
     <<"protocol", "contract">>, <<"contract">>}

Written(rest) == FileNames \ {rest[i] : i \in DOMAIN rest}

InOrder == Reconciled /\ Contract.entry = Scope.isf

FilesInv ==
    /\ DOMAIN disk = FileNames
    /\ IF phase = "writing"
       THEN /\ pending \in Remainders
            /\ \A f \in Written(pending) : disk[f] = Len(mined)
            /\ pending = Files /\ ~interrupted => OfOneCommand
       ELSE ~interrupted => OfOneCommand
    /\ phase = "planning" => InOrder
    /\ plan.accepted => phase = "idle" /\ InOrder

---------------------------------------------------------------------------
(* What a plan is held to.                                                  *)

OperationsOf(ir) == IF ir.conventions = NoConventions THEN {} ELSE ir.conventions.operations

(* No opcode reads what a later one writes, unless it writes it itself.     *)
Runnable(order, operations) ==
    LET at(i) == CHOOSE o \in operations : o.opcode = order[i] IN
    \A i, j \in DOMAIN order :
       i < j => at(j).writes \cap (at(i).reads \ at(i).writes) = {}

OrdersOf(operations) ==
    LET opcodes == {o.opcode : o \in operations} IN
    {o \in [1..Cardinality(opcodes) -> opcodes] : IsInjective(o)}

Bounded(bindings) == [bindings EXCEPT !.steps = {OtherCap}]

StrategyOf(bindings) == [steps |-> bindings.steps, sampled |-> bindings.sampling]

(* Whatever the contract, a plan that keeps it can be written exactly where *)
(* some order of the opcodes lets each run after those whose state it       *)
(* reads; and a plan that is taken has such an order and every opcode,      *)
(* frame and repair of the IR, whatever it changed                          *)
(* (protocol_contract_projection, validate_plan_contract).  To copy the     *)
(* projection is not enough: it lists the opcodes by name.                  *)
PlansAsContracted ==
    /\ phase = "planning" /\ projection # NoProjection =>
          LET operations == OperationsOf(IR)
              plans == {[Bounded(projection) EXCEPT !.opcodes = o] : o \in OrdersOf(operations)}
          IN  (\E p \in plans : Conforms(p, StrategyOf(p), projection))
                 <=> \E o \in OrdersOf(operations) : Runnable(o, operations)
    /\ plan.accepted /\ disk["ir"] # 0 =>
          /\ plan.bindings.frame = IR.frame
          /\ ToSet(plan.bindings.opcodes) = {o.opcode : o \in OperationsOf(IR)}
          /\ Runnable(plan.bindings.opcodes, OperationsOf(IR))

Evidence(ir) == IF ir.conventions = NoConventions THEN {} ELSE Snippets(ir.conventions)

(* Every function that a plan may bind, or that its lifecycle calls, has    *)
(* one definition a harness can link to, or comes from the C library, and   *)
(* was met in the source or named by a snippet; what a model merely states  *)
(* as init or destroy gives no licence to call it (reconcile_protocol_ir,   *)
(* validate_plan_contract).                                                 *)
CallsAreAnchored ==
    plan.accepted /\ disk["ir"] # 0 =>
        LET b == plan.bindings
            lifecycle == IF b.context = NoContext THEN {} ELSE {b.context.init, b.context.destroy} \ {""}
            definitions(name) == {r \in Scope.rows : r.name = name /\ r.defined /\ ~r.static}
            backed(name) == name \in IR.quoted \/ \E s \in Evidence(IR) : name \in s.names
        IN  /\ \A name \in b.helpers : Cardinality(definitions(name)) = 1 /\ backed(name)
            /\ \A name \in lifecycle :
                  (Cardinality(definitions(name)) = 1 \/ name \in Library) /\ backed(name)
=============================================================================
