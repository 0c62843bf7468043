------------------------------- MODULE MCCore -------------------------------
(***************************************************************************)
(* Core for TLC: objects whose values are ints.                            *)
(***************************************************************************)
EXTENDS Core

\* Constants that are operators or functions.
MCNamesOf == [c \in Class |-> IF c = "unit" THEN {"x", "y"} ELSE {"h"}]

MCNameOrder == <<"h", "x", "y">>

MCValue == 0 .. 2

MCGetDelta(v, w) == DeltaInt(v, w)

MCInterp(v, d, t) == InterpInt(v, d, t)

MCCrc(values) == values

MCBytes(v) == BytesInt(v)

MCParse(bytes) == ParseInt(bytes)

MCCreated(c) == [n \in NamesOf[c] |-> 0]

\* One to four bytes per character.  (Which three and four bytes are too long
\* for their character makes no difference to two bytes.)
MCUtf8(bytes) ==
  LET n == Len(bytes)
      Continued(j, m) == j + m <= n /\ \A i \in j + 1 .. j + m : bytes[i] \in 128 .. 191
      valid[j \in 1 .. n + 4] ==
        \/ j = n + 1
        \/ j <= n /\ bytes[j] < 128 /\ valid[j + 1]
        \/ j <= n /\ bytes[j] \in 194 .. 223 /\ Continued(j, 1) /\ valid[j + 2]
        \/ j <= n /\ bytes[j] \in 224 .. 239 /\ Continued(j, 2) /\ valid[j + 3]
        \/ j <= n /\ bytes[j] \in 240 .. 244 /\ Continued(j, 3) /\ valid[j + 4]
  IN  valid[1]
=============================================================================
