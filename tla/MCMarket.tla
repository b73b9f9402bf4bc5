------------------------------- MODULE MCMarket -------------------------------
EXTENDS Market

\* Two prices apart by more than the breaker allows, the second with a decimal
\* to cut off, and one print for each way to be refused.
MCQuotes ==
  LET quote(m, e, c, p) == [mantissa |-> m, exponent |-> e, confidence |-> c, publishers |-> p]
  IN  { quote(2, -1, 1, 2), quote(7, -2, 3, 2),
        quote(-2, -1, 1, 2),  \* not positive
        quote(2, -1, 2, 2),   \* confidence too wide
        quote(2, -1, 1, 1),   \* too few publishers
        quote(2, 0, 1, 2),    \* over the band
        quote(12, -3, 1, 2) } \* too many decimals
MCAges == -1..2

\* Paused or open; the two switches only refuse trades, each on its side.
MCGates ==
  { [paused |-> p, mintOpen |-> ~p, redemptionsEnabled |-> TRUE] : p \in BOOLEAN }
MCExemptFlags == { {"mint"} }
=============================================================================
