---------------------------- MODULE UsageReview ----------------------------
(***************************************************************************)
(* The language model's review of the mined usage patterns.  It is asked   *)
(* about batches of patterns of one resource type; a batch it does not     *)
(* answer properly is halved, a single pattern is asked about again and    *)
(* then kept as mined.  What it says of a pattern counts only within what  *)
(* the code itself shows, and groups only patterns of one lifecycle.       *)
(*                                                                         *)
(* Every request is counted against the build's budget, answered or not.   *)
(***************************************************************************)
EXTENDS Integers, Sequences, SequencesExt

CONSTANTS
    Types,       \* the resource types, as a sequence in their order
    BatchSize,   \* patterns in a request
    Retries,     \* repetitions of a request about a single pattern
    Labels       \* the merge groups the model may name

ASSUME UsageReviewAssumption ==
    /\ Types \in Seq(ToSet(Types))
    /\ BatchSize \in Nat \ {0} /\ Retries \in Nat

VARIABLES
    pending,     \* the requests still to make, the next one first
    reviews,     \* what is known of the patterns reviewed so far
    calls        \* requests made to the model, by the whole build

reviewVars == <<pending, reviews>>

NoReviews == <<>>

(***************************************************************************)
(* A pattern is mined by UsageMining: an identity, the static facts that   *)
(* make two patterns the same lifecycle, the names of the calls from the   *)
(* producer to the cleanup, and how often it was seen.                     *)
(***************************************************************************)
StaticFacts(p) ==
    <<p.kind, p.type, p.producer, p.binding, p.producerAt, p.cleanup, p.cleanupAt, p.cleanupHow,
      p.path, p.conditions>>

(* A finite set of numbers, the smallest first.                             *)
InOrder(S) ==
    [k \in 1..Cardinality(S) |-> CHOOSE x \in S : Cardinality({y \in S : y < x}) = k - 1]

(* The batches of each type in turn, patterns ordered by identity.          *)
Batches(patterns) ==
    LET ofType(t) == InOrder({p.id : p \in {q \in patterns : q.type = t}})
        cut(s) == [k \in 1..((Len(s) + BatchSize - 1) \div BatchSize) |->
                      [batch |-> SubSeq(s, (k - 1) * BatchSize + 1,
                                        IF k * BatchSize < Len(s) THEN k * BatchSize ELSE Len(s)),
                       retries |-> Retries]]
    IN  FlattenSeq([i \in DOMAIN Types |-> cut(ofType(Types[i]))])

---------------------------------------------------------------------------
(* One answer about one pattern.                                            *)

(* The calls of a sequence at some of its places.                           *)
CallsAt(s, places) ==
    LET place == InOrder(places) IN [k \in DOMAIN place |-> s[place[k]]]

(* The model may answer with any of the calls, in any order; the client     *)
(* lets all of it through.  One reversal stands for every wrong order.      *)
Raw(p) ==
    [valid : BOOLEAN, kind : {p.kind, "not_lifecycle"}, confident : BOOLEAN,
     required : {CallsAt(p.sequence, places) : places \in (SUBSET DOMAIN p.sequence) \ {{}}}
                \cup {Reverse(p.sequence)},
     group : Labels]

Occurrences(name, s) == Cardinality({i \in DOMAIN s : s[i] = name})

(* required keeps the order of the calls, both ends and every call of an    *)
(* input function.                                                          *)
IsSubsequenceOf(s, t) ==
    LET matched[i \in 0..Len(t)] ==
            IF i = 0 THEN 0
            ELSE LET n == matched[i - 1] IN
                 IF n < Len(s) /\ s[n + 1] = t[i] THEN n + 1 ELSE n
    IN  matched[Len(t)] = Len(s)

IsSafe(p, raw, isf) ==
    /\ raw.kind \in {p.kind, "not_lifecycle"}
    /\ raw.required # <<>> /\ IsSubsequenceOf(raw.required, p.sequence)
    /\ raw.required[1] = Head(p.sequence)
    /\ Last(raw.required) = Last(p.sequence)
    /\ \A name \in isf \cap ToSet(p.sequence) :
          Occurrences(name, raw.required) >= Occurrences(name, p.sequence)

(* The pattern as mined, when there is no usable answer.                    *)
Fallback(p, status) == [status |-> status, required |-> p.sequence, group |-> ""]

Constrained(p, raw, isf) ==
    IF ~IsSafe(p, raw, isf) THEN Fallback(p, "invalid_response")
    ELSE [status |-> IF raw.valid /\ raw.kind = p.kind THEN "accepted"
                     ELSE IF ~raw.valid /\ raw.confident THEN "rejected"
                     ELSE "uncertain",
          required |-> raw.required, group |-> raw.group]

---------------------------------------------------------------------------
(* The review.                                                              *)

StartReview(patterns) ==
    /\ pending' = Batches(patterns)
    /\ reviews' = NoReviews

Named(patterns, id) == CHOOSE p \in patterns : p.id = id

Affordable(limit) == pending # <<>> /\ calls < limit

(* One decision for each pattern of the batch.                              *)
ReviewAnswered(patterns, isf, limit) ==
    /\ Affordable(limit)
    /\ LET batch == ToSet(Head(pending).batch)
           outcomes == [id \in batch |->
                {Constrained(Named(patterns, id), raw, isf) : raw \in Raw(Named(patterns, id))}]
       IN  \E answer \in [batch -> UNION Range(outcomes)] :
              /\ \A id \in batch : answer[id] \in outcomes[id]
              /\ reviews' = [id \in batch \cup DOMAIN reviews |->
                                IF id \in batch THEN answer[id] ELSE reviews[id]]
    /\ pending' = Tail(pending)
    /\ calls' = calls + 1

(* Mutant: a repetition is not counted. *)
ReviewFailed_Forever(patterns, limit) ==
    /\ Affordable(limit)
    /\ LET batch == Head(pending).batch
           half == Len(batch) \div 2
       IN  pending' = IF Len(batch) = 1 THEN pending
                      ELSE <<[batch |-> SubSeq(batch, 1, half), retries |-> Retries],
                             [batch |-> SubSeq(batch, half + 1, Len(batch)), retries |-> Retries]>>
                           \o Tail(pending)
    /\ calls' = calls + 1
    /\ UNCHANGED reviews

(* A failed request, an unreadable answer, or one about other patterns.     *)
ReviewFailed(patterns, limit) ==
    /\ Affordable(limit)
    /\ LET request == Head(pending)
           batch == request.batch
           half == Len(batch) \div 2
           again(s, n) == [batch |-> s, retries |-> n]
       IN  IF Len(batch) > 1
           THEN /\ pending' = <<again(SubSeq(batch, 1, half), Retries),
                                again(SubSeq(batch, half + 1, Len(batch)), Retries)>>
                              \o Tail(pending)
                /\ UNCHANGED reviews
           ELSE IF request.retries > 0
           THEN /\ pending' = <<again(batch, request.retries - 1)>> \o Tail(pending)
                /\ UNCHANGED reviews
           ELSE /\ reviews' = [id \in {batch[1]} \cup DOMAIN reviews |->
                                  IF id = batch[1]
                                  THEN Fallback(Named(patterns, id), "provider_error")
                                  ELSE reviews[id]]
                /\ pending' = Tail(pending)
    /\ calls' = calls + 1

---------------------------------------------------------------------------
(* The groups.  Only an accepted pattern goes by the model's group name,    *)
(* and even then only with patterns of the same lifecycle and calls.        *)

(* Mutant: the model's group is all that counts. *)
GroupKey_LabelOnly(p, review) ==
    IF review.status = "accepted" THEN <<review.group, 0>> ELSE <<"", p.id>>

GroupKey(p, review) ==
    <<IF review.status = "accepted" THEN <<review.group, 0>> ELSE <<"", p.id>>,
      StaticFacts(p), review.required, review.status>>

ReviewOf(p) == IF p.id \in DOMAIN reviews THEN reviews[p.id] ELSE Fallback(p, "not_reviewed")

GroupOf(patterns, p) ==
    {q.id : q \in {r \in patterns : GroupKey(r, ReviewOf(r)) = GroupKey(p, ReviewOf(p))}}

(* A reviewed pattern names its group, and the support all of it has.       *)
Reviewed(patterns) ==
    {[pattern |-> p, review |-> ReviewOf(p), members |-> GroupOf(patterns, p),
      support |-> MapThenSumSet(LAMBDA q : q.support, {q \in patterns : q.id \in GroupOf(patterns, p)})]
        : p \in patterns}
=============================================================================
