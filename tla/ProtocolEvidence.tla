-------------------------- MODULE ProtocolEvidence --------------------------
(***************************************************************************)
(* The command protocol-mine and the reader of what it leaves.  The        *)
(* command mines a parser, may ask a language model for samples of the     *)
(* conventions, merges both, and writes five files one after the other     *)
(* into an artifact directory that may hold those of an earlier command.   *)
(* Stage 4 reads two of the five, settles the IR against the project, and  *)
(* takes a plan only if its bindings keep the contract.                    *)
(***************************************************************************)
EXTENDS ProtocolContract

(* A project is [parsers, isf, rows, answers, samples, commands]: the       *)
(* parsers its sources hold one after the other, the entry of the triplet,  *)
(* the rows of functions.json, the samples the model may give, how many a   *)
(* command asks for, and a bound of the commands.                           *)
CONSTANT Projects

(* The alphabet has every opcode and every text a sample may name, and what *)
(* a snippet calls it mentions.                                             *)
ASSUME ProtocolEvidenceAssumption ==
    /\ Alphabet \in Seq(ToSet(Alphabet))
    /\ \A i \in DOMAIN Projects :
          /\ Projects[i].samples \in Nat \ {0} /\ Projects[i].commands \in Nat
          /\ \A answer \in Projects[i].answers :
                /\ \A n, m \in answer.steps : n = m
                /\ \A x, y \in answer.source : x = y
                /\ \A o \in answer.operations : o.opcode \in ToSet(Alphabet)
                /\ \A s \in Snippets(answer) : s.calls \subseteq s.names
                /\ \A slot \in Slots :
                      answer.context[slot] # NoText => answer.context[slot].text \in ToSet(Alphabet)

(* The text of a parser is finite, and its numbers are integers.            *)
ASSUME ParserAssumption ==
    \A i \in DOMAIN Projects : \A p \in Projects[i].parsers :
        /\ p.body \in Seq(ToSet(p.body)) /\ IsFiniteSet(PartsOf(p))
        /\ \A c \in DOMAIN p.constants : p.constants[c] \in Int
        /\ \A e \in UNION {Parts(q) : q \in PartsOf(p)} :
              /\ e.k = "num" => e.value \in Int
              /\ e.k = "byte" => e.index \in Int

VARIABLES
    project,      \* index of the project
    phase,        \* "idle", "sampling", "merging", "writing" or "planning"
    parser,       \* the parser this command mines
    facts,        \* what it mined
    failFast,     \* whether the first failed sample ends the command
    accepted,     \* samples that were valid
    rejected,     \* how many were not
    conventions,  \* what they were voted to
    mined,        \* IRs that were to be written, in their order
    disk,         \* file -> index of the IR it was written from, or 0
    pending,      \* files still to write
    interrupted,  \* the last command that wrote was killed between two files
    commands,     \* commands so far
    projection,   \* what this run of Stage 4 asks a plan to keep
    plan          \* the last plan: [bindings, changed, accepted]

miningVars == <<parser, facts, failFast, accepted, rejected, conventions>>
diskVars == <<mined, disk, pending, interrupted>>
vars == <<project, phase, commands, miningVars, diskVars, projection, plan>>

Scope == Projects[project]

Files == <<"facts", "conventions", "ir", "protocol", "contract">>

Nothing == [k |-> "nothing"]

NoPlan == [accepted |-> FALSE, changed |-> "not asked"]
Refused == [accepted |-> FALSE, changed |-> "refused"]

---------------------------------------------------------------------------
Init ==
    /\ project \in DOMAIN Projects
    /\ phase = "idle" /\ commands = 0
    /\ parser = Nothing /\ facts = Nothing /\ failFast = FALSE
    /\ accepted = <<>> /\ rejected = 0 /\ conventions = Nothing
    /\ mined = <<>> /\ disk = [f \in ToSet(Files) |-> 0] /\ pending = <<>> /\ interrupted = FALSE
    /\ projection = Nothing /\ plan = NoPlan

(* The command ends; nothing of it is kept but the files.                   *)
End ==
    /\ phase' = "idle"
    /\ parser' = Nothing /\ facts' = Nothing /\ failFast' = FALSE
    /\ accepted' = <<>> /\ rejected' = 0 /\ conventions' = Nothing

Start ==
    /\ phase = "idle" /\ commands < Scope.commands
    /\ commands' = commands + 1
    /\ plan' = NoPlan
    /\ UNCHANGED <<project, diskVars, projection, accepted, rejected>>

(* --with-llm takes --fail-fast-on-llm-error along.                         *)
Mine ==
    /\ Start
    /\ \E p \in Scope.parsers, fast \in BOOLEAN, model \in BOOLEAN :
          /\ fast => model
          /\ parser' = p /\ facts' = MineProtocolFacts(p) /\ failFast' = fast
          /\ phase' = IF model THEN "sampling" ELSE "merging"
          /\ conventions' = IF model THEN Nothing ELSE NoConventions

(* The source cannot be read, there is no client, or the function is not    *)
(* in the source.                                                           *)
MineFails == Start /\ UNCHANGED <<phase, parser, facts, failFast, conventions>>

Asked == Len(accepted) + rejected

Sample ==
    /\ phase = "sampling" /\ Asked < Scope.samples
    /\ \E answer \in Scope.answers : accepted' = Append(accepted, answer)
    /\ UNCHANGED <<project, phase, commands, parser, facts, failFast, rejected, conventions,
                   diskVars, projection, plan>>

(* The provider fails, or its answer is not a valid sample.                 *)
SampleFails ==
    /\ phase = "sampling" /\ Asked < Scope.samples
    /\ IF failFast THEN End
       ELSE rejected' = rejected + 1
            /\ UNCHANGED <<phase, parser, facts, failFast, accepted, conventions>>
    /\ UNCHANGED <<project, commands, diskVars, projection, plan>>

Vote ==
    /\ phase = "sampling" /\ Asked = Scope.samples
    /\ IF accepted = <<>> THEN End
       ELSE /\ conventions' = VoteConventions(accepted, rejected)
            /\ phase' = "merging"
            /\ UNCHANGED <<parser, facts, failFast, accepted, rejected>>
    /\ UNCHANGED <<project, commands, diskVars, projection, plan>>

(* Mutant: the facts are written before the merge is known to hold. *)
ToWrite_FactsFirst(ir) == IF Coherent(ir) THEN Files ELSE <<"facts">>

(* One merge, before the first file.                                        *)
ToWrite(ir) == IF Coherent(ir) THEN Files ELSE <<>>

Store(ir) ==
    /\ pending' = ToWrite(ir)
    /\ IF pending' = <<>> THEN End /\ UNCHANGED mined
       ELSE mined' = Append(mined, ir) /\ phase' = "writing" /\ UNCHANGED miningVars

Merge ==
    /\ phase = "merging"
    /\ Store(MergedIR(parser, facts, conventions))
    /\ UNCHANGED <<project, commands, disk, interrupted, projection, plan>>

WriteFile ==
    /\ phase = "writing"
    /\ disk' = [disk EXCEPT ![Head(pending)] = Len(mined)]
    /\ pending' = Tail(pending)
    /\ IF Tail(pending) = <<>> THEN End /\ interrupted' = FALSE
       ELSE UNCHANGED <<phase, miningVars, interrupted>>
    /\ UNCHANGED <<project, commands, mined, projection, plan>>

(* A kill, or a file that cannot be written.                                *)
Kill ==
    /\ phase \in {"sampling", "merging", "writing"}
    /\ End
    /\ pending' = <<>>
    /\ interrupted' = (interrupted \/ (phase = "writing" /\ pending # Files))
    /\ UNCHANGED <<project, commands, mined, disk, projection, plan>>

---------------------------------------------------------------------------
(* Stage 4.                                                                 *)

Contract ==
    IF disk["contract"] = 0 THEN TargetContractFor(Scope.isf)
    ELSE TargetContractOf(mined[disk["contract"]])

(* With no IR the run is that of the triplet alone.                         *)
Reconciled == disk["ir"] = 0 \/ Diagnostics(mined[disk["ir"]], Scope.isf, Scope.rows) = {}

Projected ==
    IF disk["ir"] = 0 THEN NoProjection
    ELSE LET ir == mined[disk["ir"]] IN Projection(ir, CallableHelpers(ir, Scope.rows))

(* A run that is refused asks no model.                                     *)
Load ==
    /\ phase = "idle" /\ plan = NoPlan
    /\ IF Reconciled /\ Contract.entry = Scope.isf
       THEN projection' = Projected /\ phase' = "planning" /\ UNCHANGED plan
       ELSE plan' = Refused /\ UNCHANGED <<projection, phase>>
    /\ UNCHANGED <<project, commands, miningVars, diskVars>>

(* What a model makes of the bindings it is given: it may put the opcodes   *)
(* in another order, and change one thing.                                  *)
OtherCap == 5

Changes == {"nothing", "frame", "cap", "caps", "repairs", "context", "helpers", "dependencies", "opcode"}

Changed(change) ==
    CASE change = "frame" -> [projection EXCEPT !.frame.payload = {}]
      [] change = "cap" -> [projection EXCEPT !.steps = {OtherCap}]
      [] change = "repairs" -> [projection EXCEPT !.repairs = {}]
      [] change = "context" -> [projection EXCEPT !.context = NoContext]
      [] change = "helpers" -> [projection EXCEPT !.helpers = @ \cup StrongSources(mined[disk["ir"]])]
      [] change = "dependencies" -> [projection EXCEPT !.dependencies = {}]
      [] change = "opcode" -> [projection EXCEPT !.opcodes = IF @ = <<>> THEN @ ELSE Tail(@)]
      [] OTHER -> projection

StrategyFor(bindings, change) ==
    [steps |-> IF change = "caps" THEN {OtherCap} ELSE bindings.steps, sampled |-> bindings.sampling]

Orders(opcodes) == {o \in [DOMAIN opcodes -> ToSet(opcodes)] : IsInjective(o)}

Judge(bindings, strategy, change) ==
    plan' = [bindings |-> bindings, changed |-> change,
             accepted |-> Conforms(bindings, strategy, projection)]

Answer ==
    /\ phase = "planning"
    /\ IF projection = NoProjection
       THEN \E bindings \in {NoBindings, NoProjection} :
               Judge(bindings, [steps |-> {}, sampled |-> FALSE], "nothing")
       ELSE \E change \in Changes :
               LET changed == Changed(change) IN
               \E order \in Orders(changed.opcodes) :
                  Judge([changed EXCEPT !.opcodes = order], StrategyFor(changed, change), change)
    /\ phase' = "idle" /\ projection' = Nothing
    /\ UNCHANGED <<project, commands, miningVars, diskVars>>

---------------------------------------------------------------------------
Next ==
    \/ Mine \/ MineFails
    \/ Sample \/ SampleFails \/ Vote
    \/ Merge \/ WriteFile \/ Kill
    \/ Load \/ Answer

Spec == Init /\ [][Next]_vars
=============================================================================
