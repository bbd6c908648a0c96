------------------------------ MODULE MCAgents -------------------------------
EXTENDS AgentRun

CONSTANTS good, trap, peg, rug, wbnb, a, b, c, d

\* An honest token with the worst marks an honest token can get.
MCHonest ==
  [pair |-> TRUE, buys |-> TRUE, sells |-> TRUE, buyTax |-> 12, sellTax |-> 25,
   owner |-> "eoa", verified |-> TRUE, powers |-> 3, mint |-> FALSE, proxy |-> TRUE,
   burned |-> 0, days |-> 3]

\* A token that cannot be sold and has the best marks in all other respects.
MCTrap ==
  [pair |-> TRUE, buys |-> TRUE, sells |-> FALSE, buyTax |-> 0, sellTax |-> 0,
   owner |-> "renounced", verified |-> TRUE, powers |-> 0, mint |-> FALSE, proxy |-> FALSE,
   burned |-> 100, days |-> 400]

\* A verified token an account can mint, without a pair.
MCPeg ==
  [MCHonest EXCEPT !.pair = FALSE, !.mint = TRUE, !.powers = 1, !.days = 40]

\* The same unverified and traded.
MCRug ==
  [MCHonest EXCEPT !.buyTax = 0, !.sellTax = 5, !.verified = FALSE, !.mint = TRUE,
                   !.burned = 60]

MCTokens == {good, trap, peg, rug, wbnb}

MCTruth ==
  [t \in MCTokens |-> CASE t = good -> MCHonest [] t = trap -> MCTrap
                         [] t = peg -> MCPeg [] t = rug -> MCRug
                         [] t = wbnb -> [MCTrap EXCEPT !.sells = TRUE]]

MCPools == {a, b, c, d}

MCLegs ==
  [p \in MCPools |-> CASE p = a -> <<good, wbnb>> [] p = b -> <<good, trap>>
                        [] p = c -> <<peg, rug>>  [] p = d -> <<peg, wbnb>>]

Candle(o, l, h, x) == [open |-> o, low |-> l, high |-> h, close |-> x]

\* Candles inside the band, touching lines from either side, and two that leave it.
MCCandles ==
  {k \in {Candle(480, l, h, x) : l \in {400, 440, 480}, h \in {460, 510, 610}, x \in {450, 500}} :
     k.close \in k.low..k.high /\ k.open \in k.low..k.high}
  \cup {Candle(410, 320, 410, 330), Candle(600, 600, 700, 690)}

MCPrices == {-25, -7, 0, 4, 11, 33}
=============================================================================
