---------------------------- MODULE BobEnvelope ----------------------------
(***************************************************************************)
(* The outer layer of an answer from Bob: whether it is a JSON-RPC or      *)
(* legacy envelope, whose call it answers, and whether it reports an       *)
(* error.  An id is that of this call, of another one, or absent.          *)
(***************************************************************************)
Response == [jsonrpc : BOOLEAN, id : {"none", "own", "other"},
             result : BOOLEAN, error : {"none", "null", "error"}]

JsonRpc(id) == [jsonrpc |-> TRUE, id |-> id, result |-> TRUE, error |-> "none"]
Legacy(id) == [jsonrpc |-> FALSE, id |-> id, result |-> TRUE, error |-> "none"]
(* A raw result may have an `id' of its own, as a transaction has. *)
Raw(id) == [jsonrpc |-> FALSE, id |-> id, result |-> FALSE, error |-> "none"]

(* What a node answers to a call, and the forms in which an answer to      *)
(* another call shows that it is one.  An envelope without an id that is   *)
(* not JSON-RPC, Legacy("none"), and a raw result carry nothing the check  *)
(* could compare: it accepts them, and those of another call cannot be     *)
(* told apart.  They are answers here, and not among the strays.           *)
Answers == {JsonRpc("own"), [JsonRpc("own") EXCEPT !.error = "null"],
            Legacy("own"), Legacy("none"), Raw("none"), Raw("other")}
Failures == {[JsonRpc("own") EXCEPT !.error = "error"], [Legacy("none") EXCEPT !.error = "error"]}
Strays == {JsonRpc("other"), JsonRpc("none"), Legacy("other")}

Envelope(r) == r.jsonrpc \/ (r.id # "none" /\ (r.result \/ r.error # "none"))

(* BoundedBobClient::call *)
MatchesCall(r) == Envelope(r) => r.id = "own"

(* extract_result: an error that is not null takes precedence over a result. *)
HasResult(r) == r.error # "error"

=============================================================================
