------------------------------ MODULE MCAutofill ------------------------------
(* Pages and websites for Autofill.                                            *)
EXTENDS Autofill

\* A site under its www name and with a dot at the end, one of its subdomains, a host
\* that can have no website, and a page that is not encrypted.
TwoPages == {Https(<<"www", "site", "org", "">>), Https(<<"org">>)}

\* Pages that are not quite a host, or have more than one www.
OddPages == {Https(<<"www", "www", "site", "org">>), Https(<<"org">>), Https(<<"site", "", "org">>),
             Https(<<"site", "org">>)}

FewWebsites == {Https(<<"site", "org">>), NoWebsite}

===============================================================================
