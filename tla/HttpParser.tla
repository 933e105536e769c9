------------------------------ MODULE HttpParser ------------------------------
(***************************************************************************)
(* Http::HttpParser::ParseQuery, as an operator, and what it is meant to   *)
(* compute.  A string is a sequence of the two separators and of one       *)
(* character that stands for all the others; spaces, which TrimSpace       *)
(* removes around keys and values, are left out.                           *)
(***************************************************************************)
EXTENDS Naturals, Sequences

Equals    == "="
Ampersand == "&"
Letter    == "a"
Characters == {Equals, Ampersand, Letter}

NoQueries == [k \in {} |-> <<>>]

\* _queries.emplace, try_emplace: a key that is there keeps its value.
Assign(queries, key, val)  == [k \in DOMAIN queries \cup {key} |->
                                  IF k = key THEN val ELSE queries[k]]
Emplace(queries, key, val) == IF key \in DOMAIN queries THEN queries
                                                        ELSE Assign(queries, key, val)

\* One turn of the loop: pos is the first position of the current token.
Turn(str, s, i) ==
    CASE str[i] = Equals    -> [s EXCEPT !.key = SubSeq(str, s.pos, i - 1), !.pos = i + 1]
      [] str[i] = Ampersand -> [s EXCEPT !.queries = Emplace(@, s.key, SubSeq(str, s.pos, i - 1)),
                                         !.pos = i + 1]
      [] OTHER -> s

\* What the loop has after each of its turns.
Turns(str) == LET s[i \in 0 .. Len(str)] ==
                      IF i = 0 THEN [key |-> <<>>, pos |-> 1, queries |-> NoQueries]
                               ELSE Turn(str, s[i - 1], i)
              IN  s

AfterLoop(str) == Turns(str)[Len(str)]

\* The last token has no ampersand behind it; a string without separators has
\* no query.
LoopOnly(str)   == AfterLoop(str).queries
ParseQuery(str) ==
    LET s == AfterLoop(str) IN
    IF s.pos = 1 THEN NoQueries
                 ELSE Emplace(s.queries, s.key, SubSeq(str, s.pos, Len(str)))

-----------------------------------------------------------------------------
(* The reference: a query string is a list of <key>=<value> separated by   *)
(* ampersands; the first value of a key counts.                            *)

Bounds(str) == {b \in (1 .. Len(str) + 1) \X (0 .. Len(str)) :
                   /\ b[1] <= b[2] + 1
                   /\ b[1] = 1 \/ str[b[1] - 1] = Ampersand
                   /\ b[2] = Len(str) \/ str[b[2] + 1] = Ampersand
                   /\ \A i \in b[1] .. b[2] : str[i] # Ampersand}

EqualsIn(str, b) == {i \in b[1] .. b[2] : str[i] = Equals}
KeyIn(str, b)    == SubSeq(str, b[1], (CHOOSE i \in EqualsIn(str, b) : TRUE) - 1)
ValueIn(str, b)  == SubSeq(str, (CHOOSE i \in EqualsIn(str, b) : TRUE) + 1, b[2])

WellFormed(str) == \A b \in Bounds(str) : \E i \in b[1] .. b[2] : EqualsIn(str, b) = {i}

Expected(str) ==
    LET Of(k) == {b \in Bounds(str) : KeyIn(str, b) = k} IN
    [k \in {KeyIn(str, b) : b \in Bounds(str)} |->
        ValueIn(str, CHOOSE b \in Of(k) : \A c \in Of(k) : b[1] <= c[1])]
==============================================================================
