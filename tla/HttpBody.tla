------------------------------ MODULE HttpBody ------------------------------
(***************************************************************************)
(* One request of the bounded HTTP client: the answer's status, its        *)
(* declared length if it has one, and its body, chunk by chunk, read into  *)
(* a buffer that never holds more than the limit.  A chunk is its length.  *)
(*                                                                         *)
(* The peer is external.  An HTTP library delivers no more than a declared *)
(* length and reports an early end as an error; without a declaration      *)
(* (chunked transfer) the peer may send as much as it likes and stop at    *)
(* will.                                                                   *)
(***************************************************************************)
EXTENDS Integers

CONSTANTS
    Limit,      \* MAX_RESPONSE_BYTES
    MaxBody     \* bound: the longest body the peer sends

ASSUME BodyAssumption == Limit \in Nat /\ MaxBody \in Nat /\ Limit < MaxBody

Undeclared == -1

VARIABLES
    outcome,    \* "sent", "reading" or how the request ended
    success,    \* the answer has a success status
    declared,   \* content_length
    sent,       \* what the peer has sent of the body
    ended,      \* the peer has sent all of it
    offered,    \* the chunk that is delivered next, or 0
    body        \* the length of the buffer

bodyVars == <<outcome, success, declared, sent, ended, offered, body>>

BodyInit ==
    /\ outcome = "sent" /\ success = FALSE /\ declared = Undeclared
    /\ sent = 0 /\ ended = FALSE /\ offered = 0 /\ body = 0

DeclaredTooBig(length) == length # Undeclared /\ length > Limit

(* Seeded bug: a chunk is taken as long as there is any room. *)
NoRoomAtAll(chunk) == body >= Limit

(* limit.saturating_sub(body.len()) *)
Overflows(chunk) == chunk > (IF body <= Limit THEN Limit - body ELSE 0)

(* The request fails, or its answer begins. *)
RequestFails ==
    /\ outcome = "sent" /\ outcome' = "failed"
    /\ UNCHANGED <<success, declared, sent, ended, offered, body>>

AnswerBegins(ok, length) ==
    /\ outcome = "sent"
    /\ success' = ok /\ declared' = length
    /\ ended' = (length = 0)
    /\ outcome' = CASE ~ok -> "failed"
                    [] ok /\ DeclaredTooBig(length) -> "too_big"
                    [] OTHER -> "reading"
    /\ UNCHANGED <<sent, offered, body>>

(* A chunk arrives; the peer may be done with it. *)
ChunkArrives(chunk, final) ==
    /\ outcome = "reading" /\ ~ended /\ offered = 0
    /\ sent + chunk <= (IF declared = Undeclared THEN MaxBody ELSE declared)
    /\ declared # Undeclared => (final <=> sent + chunk = declared)
    /\ sent' = sent + chunk /\ offered' = chunk /\ ended' = final
    /\ UNCHANGED <<outcome, success, declared, body>>

TakeChunk ==
    /\ outcome = "reading" /\ offered > 0
    /\ IF Overflows(offered)
       THEN outcome' = "too_big" /\ UNCHANGED body
       ELSE body' = body + offered /\ UNCHANGED outcome
    /\ offered' = 0
    /\ UNCHANGED <<success, declared, sent, ended>>

ReadBreaks ==
    /\ outcome = "reading" /\ ~ended /\ offered = 0
    /\ outcome' = "broken"
    /\ UNCHANGED <<success, declared, sent, ended, offered, body>>

BodyRead == offered = 0 /\ ended

(* The whole body is parsed; an empty one is no JSON. *)
Parse(valid) ==
    /\ outcome = "reading" /\ BodyRead
    /\ valid => body > 0
    /\ outcome' = IF valid THEN "ok" ELSE "not_json"
    /\ UNCHANGED <<success, declared, sent, ended, offered, body>>

BodyNext ==
    \/ RequestFails
    \/ \E ok \in BOOLEAN, length \in {Undeclared} \cup 0 .. MaxBody : AnswerBegins(ok, length)
    \/ \E chunk \in 1 .. MaxBody, final \in BOOLEAN : ChunkArrives(chunk, final)
    \/ TakeChunk \/ ReadBreaks
    \/ \E valid \in BOOLEAN : Parse(valid)

BodySpec == BodyInit /\ [][BodyNext]_bodyVars

-----------------------------------------------------------------------------
(* The buffer never outgrows the limit, however the body is cut into       *)
(* chunks and whatever length was declared.                                *)
BufferBounded == body <= Limit

(* What is parsed is the whole body; half an answer is never an answer.    *)
AcceptsOnlyWhole == outcome = "ok" => ended /\ body = sent /\ success

(* Only a body that is too big, or was announced as such, is refused as    *)
(* too big: one of exactly the limit is read, in whatever chunks.          *)
RefusesOnlyTooBig == outcome = "too_big" => sent > Limit \/ declared > Limit

(* The limit bounds the buffer and cuts off nothing that fits: an answer   *)
(* is accepted only in full and refused as too big only if it is.          *)
LimitIsExact == BufferBounded /\ AcceptsOnlyWhole /\ RefusesOnlyTooBig

=============================================================================
