------------------------------ MODULE MCPrices ------------------------------
(***************************************************************************)
(* Prices: the lease of one household's refresh, the quotes that the       *)
(* refreshes of three households fetch in one event loop, and two readers  *)
(* of a portfolio.  A behaviour follows one of them.                       *)
(*                                                                         *)
(* All three refreshes want one symbol, so a waiter can be cancelled       *)
(* through a future that is neither its own nor its canceller's; the one   *)
(* that wants a second symbol has one slot for both.                       *)
(***************************************************************************)
EXTENDS PriceRefresh, Portfolio, TLC

CONSTANTS r1, r2, r3, k1, k2, h1, h2, c1, c2

VARIABLE part

priceVars == <<vars, quoteVars, portfolioVars, part>>

MCWants == (r1 :> {k1}) @@ (r2 :> {k1, k2}) @@ (r3 :> {k1})
MCHoldingsOf == (c1 :> {h1, h2}) @@ (c2 :> {h2})
MCSymbolOf == (h1 :> k1) @@ (h2 :> k2)
MCForeign == (h1 :> {"cost", "worth"}) @@ (h2 :> {"worth"})

Parts == {"lease", "quotes", "portfolio"}

\* The parts that rest stay in one of their initial states.
MCInit ==
    /\ part \in Parts
    /\ Init /\ QuotesInit /\ PortfolioInit
    /\ snap[k1] = NoRow /\ snap[k2] # NoRow
    /\ part # "portfolio" => fx = NoRow

InLease(A) == part = "lease" /\ A /\ UNCHANGED <<quoteVars, portfolioVars, part>>
InQuotes(A) == part = "quotes" /\ A /\ UNCHANGED <<vars, portfolioVars, part>>
InPortfolio(A) == part = "portfolio" /\ A /\ UNCHANGED <<vars, part>>

MCNext ==
    \/ InLease(Next)
    \/ InQuotes(QuotesNext)
    \/ InPortfolio(PortfolioNext /\ UNCHANGED quoteVars)
    \/ InPortfolio(Tick /\ UNCHANGED portfolioVars)

\* Coroutines and tasks are resumed, and promptly so from some time on; a
\* heartbeat that nobody renews grows old; and refreshes keep being requested
\* (the page asks again when it is opened).  A provider answers or times out.
MCFairness ==
    /\ \A w \in Worker : WF_priceVars(InLease(Serve(w)))
    /\ \A r \in Request : WF_priceVars(InLease(EnsureTask(r)))
    /\ WF_priceVars(InLease(Ageing)) /\ <>[][Prompt]_priceVars
    /\ WF_priceVars(InLease(\E r \in Request, w \in Worker : TakeLease(r, w)))
    /\ \A r \in Refresh : /\ WF_priceVars(InQuotes(LoopStep(r)))
                          /\ \A k \in Key : WF_priceVars(InQuotes(NetworkStep(r, k)))

MCSpec == MCInit /\ [][MCNext]_priceVars /\ MCFairness
=============================================================================
