-------------------------- MODULE MCQuoteLifecycle --------------------------
(* Two quotes, three principals (two makers race for a quote while a third  *)
(* decides), one free and one priced premium.                               *)
EXTENDS QuoteLifecycle

CONSTANTS q1, q2, ann, ben, cem

MCQuotes == {q1, q2}
MCPrincipals == {ann, ben, cem}
MCPremiums == {0, 5}
=============================================================================
