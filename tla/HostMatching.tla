---------------------------- MODULE HostMatching ----------------------------
(***************************************************************************)
(* Which page may use which record: autofill/url_match.rs.  A host is the  *)
(* sequence of its labels, lower-cased by the URL parser (external); ""    *)
(* is the nothing between two dots or after a final one.                   *)
(***************************************************************************)
EXTENDS Naturals, Sequences

CONSTANT NoHost    \* what cannot be used as a host

ASSUME HostAssumption == NoHost \notin Seq(STRING)

NoWebsite == [scheme |-> "none", odd |-> FALSE, host |-> <<"">>]

WithoutFinalDot(h) ==
    IF Len(h) > 1 /\ h[Len(h)] = "" THEN SubSeq(h, 1, Len(h) - 1) ELSE h

WithoutWww(h) == IF Len(h) > 1 /\ h[1] = "www" THEN Tail(h) ELSE h

CanonicalAutofillHost(h) ==
    LET canonical == WithoutWww(WithoutFinalDot(h))
    IN IF \A i \in 1..Len(canonical) : canonical[i] # "" THEN canonical ELSE NoHost

\* Only https, and nothing that a URL parser would have to repair or that names a
\* user (odd); the port, the path and the query are not looked at.
ParseUrl(url) == IF url.scheme = "https" /\ ~url.odd
                 THEN CanonicalAutofillHost(url.host)
                 ELSE NoHost

\* A host with a second www label, which is left after the first is taken off.
HasTwoWww(h) ==
    LET x == WithoutFinalDot(h) IN Len(x) > 2 /\ x[1] = "www" /\ x[2] = "www"

Https(h) == [scheme |-> "https", odd |-> FALSE, host |-> h]

\* The host of a page against the website and the further hosts of a record.
MatchesSaved(host, record) ==
    /\ host # NoHost
    /\ \/ host = ParseUrl(record.website)
       \/ \E allowed \in record.hosts : host = ParseUrl(Https(allowed))

\* What docs/security/autofill-v2-host-handling.md promises, said without the
\* canonical form: the same name, up to a final dot and one www label in front.
SameSite(a, b) ==
    LET x == WithoutFinalDot(a)
        y == WithoutFinalDot(b)
    IN x = y \/ x = <<"www">> \o y \/ y = <<"www">> \o x
=============================================================================
