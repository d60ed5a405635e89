----------------------------- MODULE Endpoints -----------------------------
(***************************************************************************)
(* The URLs of the HTTP backends, made from what the operator gives as an  *)
(* endpoint.  The part of an endpoint before its query or fragment is the  *)
(* sequence of its pieces between slashes, "http://h/a/" is                *)
(* <<"http:", "", "h", "a", "">>, and the rest is one name.                *)
(***************************************************************************)
EXTENDS Integers, Sequences, SequencesExt

Endpoint(base, suffix) == [base |-> base, suffix |-> suffix]

(* trim_end_matches('/') *)
TrimEnd(base) ==
    LET last == Max({0} \cup {n \in DOMAIN base : base[n] # ""})
    IN  IF last = 0 THEN <<"">> ELSE SubSeq(base, 1, last)

(* strip_suffix of "/p1/.../pn"; something stays before the first slash.   *)
EndsWith(base, path) == Len(base) > Len(path) /\ IsSuffix(path, base)
Stripped(base, path) == TrimEnd(SubSeq(base, 1, Len(base) - Len(path)))

(* Seeded bug: the shortest of the paths is tried first. *)
ShortestFirst(kind) ==
    IF kind = "rpc" THEN <<<<"v1">>, <<"live", "v1">>, <<"query", "v1">>>>
    ELSE IF kind = "bob" THEN <<<<"qubic">>>> ELSE <<>>

(* The operation paths an endpoint may come with, in the order they are tried. *)
KnownPaths(kind) ==
    IF kind = "rpc" THEN <<<<"live", "v1">>, <<"query", "v1">>, <<"v1">>>>
    ELSE IF kind = "bob" THEN <<<<"qubic">>>> ELSE <<>>

HasScheme(base) ==
    \E i \in 1 .. Len(base) - 2 : base[i] \in {"http:", "https:"} /\ base[i + 1] = ""

(* normalize_endpoint *)
NormalizeEndpoint(kind, endpoint) ==
    LET base == TrimEnd(endpoint.base)
        paths == KnownPaths(kind)
        found == {k \in DOMAIN paths : EndsWith(base, paths[k])}
        first == CHOOSE k \in found : \A j \in found : k <= j
        root == IF found = {} THEN base ELSE Stripped(base, paths[first])
    IN  Endpoint(IF HasScheme(root) THEN root ELSE <<"http:", "">> \o root, endpoint.suffix)

(* append_endpoint_path, with a path that does not begin with a slash.     *)
AppendEndpointPath(endpoint, path) ==
    Endpoint(TrimEnd(endpoint.base) \o path, endpoint.suffix)

(* RpcBackend has two clients; tick data come from the query service. *)
ServiceOf(root, operation) ==
    AppendEndpointPath(root, IF operation = "getTickData" THEN <<"query", "v1">> ELSE <<"live", "v1">>)

UrlFor(client, operation) == AppendEndpointPath(client, <<operation>>)

BobEndpoint(root) == AppendEndpointPath(root, <<"qubic">>)

(* Where an operation of a backend goes; a light node's endpoint is dialled. *)
UrlOf(kind, root, operation) ==
    CASE kind = "rpc" -> UrlFor(ServiceOf(root, operation), operation)
      [] kind = "bob" -> BobEndpoint(root)
      [] OTHER -> root

=============================================================================
