----------------------------- MODULE RequestText -----------------------------
(***************************************************************************)
(* The text functions of HttpServer request dispatch (HttpServer.cpp) as   *)
(* operators, and what they are meant to compute, in terms of positions    *)
(* and cuts instead of loops.  A text is a sequence of characters, each a  *)
(* string of length one.                                                   *)
(***************************************************************************)
EXTENDS Naturals, Sequences, SequencesExt

\* The capital letters of the instances; std::regex::icase and equality ignore
\* case in patterns only.
LowerCase == [A |-> "a", B |-> "b"]
ICase(c) == IF c \in DOMAIN LowerCase THEN LowerCase[c] ELSE c

-----------------------------------------------------------------------------
(* Mistakes the mutation runs put in the place of the definitions below.   *)

MutEscaped == {"+", "(", ")"}                   \* '.' goes through unescaped
MutPut(params, key, value) ==                   \* insert() in place of []
    [k \in DOMAIN params \cup {key} |-> IF k \in DOMAIN params THEN params[k] ELSE value]

-----------------------------------------------------------------------------
(* Wildcards.  A regular expression is a sequence of atoms.                *)

IsWildcard(path) == \E i \in DOMAIN path : path[i] \in {"*", "?"}

Escaped == {".", "+", "(", ")", "[", "]", "{", "}", "^", "$", "|", "\\"}

Atom(star, any, char) == [star |-> star, any |-> any, char |-> char]

\* ".*", ".", an escaped character, or the character, which is "any" for '.'.
AtomOf(c) ==
    CASE c = "*" -> Atom(TRUE, TRUE, c)
      [] c = "?" -> Atom(FALSE, TRUE, c)
      [] c \in Escaped -> Atom(FALSE, FALSE, c)
      [] OTHER -> Atom(FALSE, c = ".", c)

WildcardToRegex(path) == [i \in DOMAIN path |-> AtomOf(path[i])]

\* std::regex_match: the numbers of atoms that can be behind once a text is read,
\* those that match nothing included.
Skip(re, S) == {j \in 0..Len(re) : \E i \in S : i <= j /\ \A k \in i + 1..j : re[k].star}

\* An ECMAScript "." takes any character but the ends of lines, which Beast's parser
\* never lets into a target.
TakesChar(atom, c) == atom.any \/ ICase(atom.char) = ICase(c)

ReadChar(re, S, c) ==
    Skip(re, {j \in 0..Len(re) :
                 \/ j < Len(re) /\ j \in S /\ re[j + 1].star /\ TakesChar(re[j + 1], c)
                 \/ j > 0 /\ j - 1 \in S /\ ~re[j].star /\ TakesChar(re[j], c)})

MatchPath(path, re) ==
    Len(re) \in FoldLeft(LAMBDA S, c : ReadChar(re, S, c), Skip(re, {0}), path)

\* "supports wildcards: * and ?": the path can be cut into one part for each
\* character of the pattern, any for *, one character for ?, itself for others.
Covers(pattern, path) ==
    \E cut \in [0..Len(pattern) -> 0..Len(path)] :
        /\ cut[0] = 0 /\ cut[Len(pattern)] = Len(path)
        /\ \A i \in 1..Len(pattern) :
              /\ cut[i - 1] <= cut[i]
              /\ pattern[i] # "*" =>
                     /\ cut[i] = cut[i - 1] + 1
                     /\ pattern[i] = "?" \/ ICase(pattern[i]) = ICase(path[cut[i]])

-----------------------------------------------------------------------------
(* Targets and query parameters.                                           *)

\* handleRequest() cuts the target at its first '?'.
PathOf(target) ==
    LET q == SelectInSeq(target, LAMBDA c : c = "?")
    IN IF q = 0 THEN target ELSE SubSeq(target, 1, q - 1)
QueryOf(target) ==
    LET q == SelectInSeq(target, LAMBDA c : c = "?")
    IN IF q = 0 THEN <<>> ELSE SubSeq(target, q + 1, Len(target))

\* boost::split without token compression.
AddChar(parts, c, sep) ==
    IF c = sep THEN Append(parts, <<>>) ELSE [parts EXCEPT ![Len(parts)] = Append(@, c)]

Split(text, sep) == FoldLeft(LAMBDA parts, c : AddChar(parts, c, sep), << <<>> >>, text)

Put(params, key, value) ==
    [k \in DOMAIN params \cup {key} |-> IF k = key THEN value ELSE params[k]]

AddPair(params, pair) ==
    LET kv == Split(pair, "=")
    IN CASE Len(kv) = 2 -> Put(params, kv[1], kv[2])
         [] Len(kv) = 1 -> Put(params, kv[1], <<>>)
         [] OTHER -> params

ParseQueryParams(query) ==
    IF query = <<>> THEN <<>> ELSE FoldLeft(AddPair, <<>>, Split(query, "&"))

\* What a query says: each key that some pair gives, with the value of the last
\* such pair.  A pair <<i, j>> is what lies from i to j between two '&'s or ends, and
\* has one '=' at most.
Among(text, c, i, j) == {k \in i..j : text[k] = c}

PairsOf(query) ==
    LET n == Len(query)
    IN {p \in (1..n + 1) \X (0..n) :
           LET i == p[1] j == p[2]
           IN /\ i <= j + 1 /\ n > 0
              /\ i = 1 \/ query[i - 1] = "&"
              /\ j = n \/ query[j + 1] = "&"
              /\ Among(query, "&", i, j) = {}
              /\ \A k, l \in Among(query, "=", i, j) : k = l}

EqualsOf(query, p) ==
    LET equals == Among(query, "=", p[1], p[2])
    IN IF equals = {} THEN p[2] + 1 ELSE CHOOSE k \in equals : TRUE

KeyOf(query, p) == SubSeq(query, p[1], EqualsOf(query, p) - 1)
ValueOf(query, p) == SubSeq(query, EqualsOf(query, p) + 1, p[2])

Winner(query, key) ==
    CHOOSE p \in PairsOf(query) :
        /\ KeyOf(query, p) = key
        /\ \A o \in PairsOf(query) : KeyOf(query, o) = key => o[1] <= p[1]

ParamsOf(query) ==
    [key \in {KeyOf(query, p) : p \in PairsOf(query)} |-> ValueOf(query, Winner(query, key))]
=============================================================================
