----------------------------- MODULE ProtocolIR -----------------------------
(***************************************************************************)
(* The canonical protocol IR: the facts of a parser and the conventions of *)
(* a language model, put into one record, and the two documents made of it *)
(* (protocol.json and target_contract.json).  Nothing is discovered here,  *)
(* and what does not fit together is refused.                              *)
(*                                                                         *)
(* Identifiers of contracts are digests of their contents: a contract is   *)
(* its own identifier.                                                     *)
(***************************************************************************)
EXTENDS ProtocolMining, ProtocolConventions

NoConventions == [confidence |-> 6000]

(* The name of the bound, where one constant has its value or only one of   *)
(* those that do says that it limits payloads.                              *)
MaxPayloadSymbol(p, max) ==
    LET named == {c \in DOMAIN p.constants : p.constants[c] \in max}
        hinted == named \cap p.limits
    IN  CASE Cardinality(named) = 1 -> named
          [] Cardinality(hinted) = 1 -> hinted
          [] OTHER -> {}

(* The measured base, or the header's size where there is none or where it  *)
(* lies in the header.                                                      *)
PayloadOffset(facts) ==
    IF facts.payload = {} \/ \E b \in facts.payload, h \in facts.header : b < h
    THEN facts.header ELSE facts.payload

FrameField(f, sized) ==
    [offset |-> f.offset, width |-> f.width, order |-> f.order, role |-> f.role, value |-> f.value,
     sized |-> f.width = 0 /\ sized]

(* The payload has the size that a length field says, if there is one.      *)
FrameModel(p, facts) ==
    LET sized == \E f \in facts.fields : f.role = "payload_length" IN
    [header |-> facts.header, payload |-> PayloadOffset(facts), max |-> facts.max,
     symbol |-> MaxPayloadSymbol(p, facts.max),
     fields |-> {FrameField(f, sized) : f \in facts.fields}]

(* Mutant: fields may share an offset. *)
FrameAccepted_Overlaid(frame) ==
    \A b \in frame.payload, h \in frame.header : b >= h

FrameAccepted(frame) ==
    /\ \A f, g \in frame.fields : f.offset = g.offset => f = g
    /\ \A f \in frame.fields : f.offset >= 0
    /\ \A b \in frame.payload, h \in frame.header : b >= h

---------------------------------------------------------------------------
(* The IR.                                                                  *)

Symbols(operation) == operation.writes \cup operation.reads \cup operation.guards

Mentioned(evidence) == UNION {{u.member : u \in s.uses} : s \in evidence}

Evidenced(operation) == Symbols(operation) \subseteq Mentioned(operation.evidence)

Coherent(ir) ==
    /\ FrameAccepted(ir.frame)
    /\ ir.conventions # NoConventions => \A o \in ir.conventions.operations : Evidenced(o)

MergedIR(p, facts, conventions) ==
    [entry |-> p.entry, frame |-> FrameModel(p, facts), quoted |-> facts.quoted,
     conventions |-> conventions]

(* The calls its evidence quotes.  What the slots of the context say is no  *)
(* evidence, and neither are requirements and notes.                        *)
StrongSources(ir) ==
    LET c == ir.conventions IN
    ir.quoted \cup
    IF c = NoConventions THEN {}
    ELSE UNION {s.calls : s \in Snippets(c)}

---------------------------------------------------------------------------
(* The contracts.                                                           *)

(* protocol.json: the frame without roles, the loop, the context, the       *)
(* opcodes; what these write and read is not part of it.                    *)
ProtocolDocument(ir) ==
    LET c == ir.conventions
        bare(f) == [f EXCEPT !.role = "none"]
        frame == [ir.frame EXCEPT !.fields = {bare(f) : f \in @}]
    IN  IF c = NoConventions THEN [entry |-> ir.entry, frame |-> frame]
        ELSE [entry |-> ir.entry, frame |-> frame, preferred |-> c.multi, steps |-> c.steps,
              context |-> c.context, operations |-> {o.opcode : o \in c.operations}]

HasFrameEvidence(frame) == frame.fields # {} \/ frame.header # {} \/ frame.payload # {}

TargetContractOf(ir) ==
    LET framed == HasFrameEvidence(ir.frame)
        looped == ir.conventions # NoConventions
    IN  [entry |-> ir.entry,
         mode |-> IF framed THEN "framed" ELSE IF looped /\ ir.conventions.multi THEN "state_sequence" ELSE "raw_bytes",
         status |-> IF framed THEN "known" ELSE "unknown",
         confidence |-> IF looped THEN ir.conventions.confidence ELSE Whole,
         document |-> ProtocolDocument(ir)]

(* Without a contract on disk: raw bytes, and the triplet's resources.      *)
TargetContractFor(isf) ==
    [entry |-> isf, mode |-> "raw_bytes", status |-> "unknown", confidence |-> 0, document |-> [entry |-> isf]]
=============================================================================
