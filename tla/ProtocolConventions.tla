------------------------ MODULE ProtocolConventions ------------------------
(***************************************************************************)
(* The inferred half of a protocol contract: samples of a language model,  *)
(* put together field by field by a vote.                                  *)
(*                                                                         *)
(* A sample is a record [multi, steps, source, sequence, context,          *)
(* evidence, operations]: whether frames come in sequences, the bound of   *)
(* one and where it is from (sets of at most one), the snippets that       *)
(* support it; the four slots of the context, each a text                  *)
(* [text, form, name] or NoText, and the snippets that support them; the   *)
(* stateful opcodes, each [opcode, evidence].  A snippet is [text, code,   *)
(* names, calls, uses]: the functions it mentions, those it calls and the  *)
(* members it uses, [member, guarded, form] with the form "assigned",      *)
(* "freed" or "used".  Ties go to the text that comes first in the         *)
(* Alphabet.                                                               *)
(***************************************************************************)
EXTENDS Integers, Sequences, FiniteSets, SequencesExt

CONSTANT Alphabet

Slots == {"type", "init", "destroy", "lifetime"}

NoText == [text |-> ""]

(* Every snippet a sample, or a vote, rests on.                             *)
Snippets(c) == c.evidence \cup c.sequence \cup UNION {o.evidence : o \in c.operations}

Position(text) == CHOOSE i \in DOMAIN Alphabet : Alphabet[i] = text

(* Mutant: half of the samples are a majority. *)
Threshold_Half(samples) == Len(samples) \div 2

Threshold(samples) == Len(samples) \div 2 + 1

---------------------------------------------------------------------------
(* One tally is the source of the selection and of the summary alike. An    *)
(* offer is the set of candidates one sample has for a field.               *)

Offers(samples, Offer(_)) == [i \in DOMAIN samples |-> Offer(samples[i])]

Tally(offers) ==
    [c \in UNION ToSet(offers) |-> Cardinality({i \in DOMAIN offers : c \in offers[i]})]

ValidSamples(offers) == Cardinality({i \in DOMAIN offers : offers[i] # {}})

Reaching(tally, threshold) == {c \in DOMAIN tally : tally[c] >= threshold}

Leaders(tally) == {c \in DOMAIN tally : \A d \in DOMAIN tally : tally[d] <= tally[c]}

MajorityFrom(tally, threshold) == Leaders(tally) \cap Reaching(tally, threshold)

First(texts) == CHOOSE t \in texts : \A u \in texts : Position(t.text) <= Position(u.text)

MajorityOrMode(tally, threshold) ==
    CASE DOMAIN tally = {} -> NoText
      [] MajorityFrom(tally, threshold) # {} -> First(MajorityFrom(tally, threshold))
      [] OTHER -> First(Leaders(tally))

TextOffer(t) == IF t = NoText THEN {} ELSE {t}

SlotOffers(samples, slot) == Offers(samples, LAMBDA s : TextOffer(s.context[slot]))

MultiOffers(samples) == Offers(samples, LAMBDA s : {s.multi})

StepOffers(samples) == Offers(samples, LAMBDA s : s.steps)

SourceOffers(samples) == Offers(samples, LAMBDA s : s.source)

OpcodeOffers(samples) == Offers(samples, LAMBDA s : {o.opcode : o \in s.operations})

---------------------------------------------------------------------------
(* A snippet that looks like code says what it writes and reads; a member   *)
(* that is freed is neither.                                                *)

Members(evidence, Wanted(_)) ==
    {u.member : u \in {w \in UNION {s.uses : s \in {t \in evidence : t.code}} : Wanted(w)}}

StatefulOperation(opcode, evidence) ==
    [opcode |-> opcode, evidence |-> evidence,
     writes |-> Members(evidence, LAMBDA u : u.form = "assigned"),
     reads |-> Members(evidence, LAMBDA u : u.form = "used"),
     guards |-> Members(evidence, LAMBDA u : u.guarded)]

(* The evidence of an opcode is that of any sample that names it.           *)
StatefulOperations(samples) ==
    LET evidence(opcode) ==
            UNION {o.evidence : o \in {p \in UNION {s.operations : s \in ToSet(samples)} :
                                           p.opcode = opcode}}
    IN  {StatefulOperation(o, evidence(o)) :
            o \in {p \in Reaching(Tally(OpcodeOffers(samples)), Threshold(samples)) :
                      evidence(p) # {}}}

Supported(samples, Offer(_)) ==
    Reaching(Tally(Offers(samples, Offer)), Threshold(samples))

---------------------------------------------------------------------------
(* The summary: how far the samples agree, in parts of ten thousand.        *)

Whole == 10000

Rounded(n, d) == (2 * n + d) \div (2 * d)

Votes(tally, selected) == IF selected \in DOMAIN tally THEN tally[selected] ELSE 0

(* Mutant: a sample that leaves a field open counts against it. *)
ScalarAgreement_All(offers, selected) ==
    Rounded(Whole * Votes(Tally(offers), selected), Cardinality(DOMAIN offers))

ScalarAgreement(offers, selected) ==
    Rounded(Whole * Votes(Tally(offers), selected), ValidSamples(offers))

(* Each sample casts one vote for every candidate it has.                   *)
Ballots(offers) == {b \in (DOMAIN offers) \X (UNION ToSet(offers)) : b[2] \in offers[b[1]]}

SetAgreement(offers) ==
    Rounded(Whole * Cardinality(Ballots(offers)), ValidSamples(offers) * Cardinality(UNION ToSet(offers)))

(* Only a field that some sample states is recorded.                        *)
Recorded(offers, agreement) == IF ValidSamples(offers) = 0 THEN <<>> ELSE <<agreement>>

(* What no majority selected agrees with no one.                            *)
MajorityAgreement(offers, selected) ==
    IF selected = {} THEN 0 ELSE ScalarAgreement(offers, CHOOSE c \in selected : TRUE)

Agreements(samples, multi, steps, source, context) ==
    LET text(slot) == Recorded(SlotOffers(samples, slot),
                               ScalarAgreement(SlotOffers(samples, slot), context[slot]))
    IN  Recorded(MultiOffers(samples), ScalarAgreement(MultiOffers(samples), multi))
        \o Recorded(StepOffers(samples), MajorityAgreement(StepOffers(samples), steps))
        \o Recorded(SourceOffers(samples), MajorityAgreement(SourceOffers(samples), source))
        \o text("type") \o text("init") \o text("destroy") \o text("lifetime")
        \o Recorded(OpcodeOffers(samples), SetAgreement(OpcodeOffers(samples)))

MeanOf(numbers) == Rounded(FoldLeft(+, 0, numbers), Len(numbers))

VoteConventions(samples, rejected) ==
    LET threshold == Threshold(samples)
        steps == MajorityFrom(Tally(StepOffers(samples)), threshold)
        source == MajorityFrom(Tally(SourceOffers(samples)), threshold)
        multi == FALSE \notin Leaders(Tally(MultiOffers(samples)))
        context == [slot \in Slots |-> MajorityOrMode(Tally(SlotOffers(samples, slot)), threshold)]
        mean == MeanOf(Agreements(samples, multi, steps, source, context))
        validity == Rounded(Whole * Len(samples), Len(samples) + rejected)
    IN  [multi |-> multi, steps |-> steps, source |-> source, context |-> context,
         sequence |-> Supported(samples, LAMBDA s : s.sequence),
         evidence |-> Supported(samples, LAMBDA s : s.evidence),
         operations |-> StatefulOperations(samples),
         confidence |-> Rounded(validity * mean, Whole)]
=============================================================================
