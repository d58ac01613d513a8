------------------------------- MODULE Config -------------------------------
(***************************************************************************)
(* TC_Config (src/cpp/util/src/tc_config.cpp): a tree of TC_ConfigDomain, *)
(* each with parameters (_param, a map, and _key, their insertion order)   *)
(* and sub-domains (_subdomain, a map, and _domain, their insertion       *)
(* order).  parse() reads lines into the tree, tostr() writes it back;    *)
(* parseString, insertDomain, insertDomainParam and joinConfig are the    *)
(* operations that change it.                                              *)
(*                                                                        *)
(* Text is kept at the level the round trip depends on: a string is a     *)
(* sequence of one-character strings over a small alphabet, so trimming,  *)
(* escaping, '=' splitting and the '#' and '<' tests are computed as the  *)
(* code does them.  A domain is named by its path from the root; the tree *)
(* is a record of two functions over the paths that exist:                *)
(*   par[p]: <<key, value>> pairs in _key order (the map and the vector   *)
(*           always hold the same keys);                                  *)
(*   sub[p]: the names in _domain order.                                  *)
(***************************************************************************)
EXTENDS Integers, Sequences, SequencesExt

CONSTANTS
  Lines,     \* lines a configuration file may hold (sequences of characters)
  MaxLines,  \* bound: lines in a parsed text
  CurPaths,  \* domain paths insertDomain/insertDomainParam are called with
  Names,     \* names of domains they add
  Keys,      \* parameter names they add
  Vals       \* parameter values they add

TAB == "\t"
WS == {" ", TAB, "\r", "\n"}   \* what TC_Common::trim(s, " \r\n\t") strips

\* Character codes, for std::map<string, ...>'s order.
Code(c) ==
  CASE c = TAB -> 9 [] c = "\n" -> 10 [] c = "\r" -> 13 [] c = " " -> 32
    [] c = "#" -> 35 [] c = "/" -> 47 [] c = "<" -> 60 [] c = "=" -> 61
    [] c = ">" -> 62 [] c = "\\" -> 92 [] c = "a" -> 97 [] c = "k" -> 107
    [] c = "n" -> 110 [] c = "r" -> 114 [] c = "t" -> 116 [] c = "x" -> 120
    [] c = "y" -> 121

RECURSIVE StrLess(_, _)
StrLess(s, t) ==
  IF s = <<>> THEN t # <<>>
  ELSE IF t = <<>> THEN FALSE
  ELSE IF s[1] # t[1] THEN Code(s[1]) < Code(t[1])
  ELSE StrLess(Tail(s), Tail(t))

\* TC_Common::trim(s, " \r\n\t")
Trim(s) ==
  LET I == {i \in 1 .. Len(s) : s[i] \notin WS}
  IN IF I = {} THEN <<>> ELSE SubSeq(s, Min(I), Max(I))

VARIABLES
  conf,    \* the TC_Config's _root, as [par, sub]
  status   \* "ok" | "error": whether the last parse threw

EmptyConf == [par |-> (<<>> :> <<>>), sub |-> (<<>> :> <<>>)]

Init == conf = EmptyConf /\ status = "ok"

-----------------------------------------------------------------------------
(* TC_ConfigDomain                                                        *)

\* addSubDomain(name), lines 103-114: a new name goes to the end of _domain.
AddSubDomain(c, p, n) ==
  IF Append(p, n) \in DOMAIN c.sub THEN c
  ELSE [par |-> c.par @@ (Append(p, n) :> <<>>),
        sub |-> [c.sub EXCEPT ![p] = Append(@, n)] @@ (Append(p, n) :> <<>>)]

\* setParamValue(name, value), lines 191-207: _param[name] = value and the
\* name moves to the end of _key.
SetParam(c, p, k, v) ==
  [c EXCEPT !.par[p] = Append(SelectSeq(@, LAMBDA e : e[1] # k), <<k, v>>)]

\* insertParamValue(m), lines 165-189, for one pair: map::insert keeps an
\* existing value, and a new key goes to the end of _key.
InsertParam(c, p, k, v) ==
  IF \E i \in 1 .. Len(c.par[p]) : c.par[p][i][1] = k THEN c
  ELSE [c EXCEPT !.par[p] = Append(@, <<k, v>>)]

\* parse(s), lines 251-304: the escapes \\ \r \n \t \=; any other backslash
\* throws.  The result is [ok, val].
EscOf == [c \in {"\\", "r", "n", "t", "="} |->
            CASE c = "r" -> "\r" [] c = "n" -> "\n" [] c = "t" -> TAB
              [] OTHER -> c]

RECURSIVE Unescape(_, _, _)
Unescape(s, i, acc) ==
  IF i > Len(s) THEN [ok |-> TRUE, val |-> acc]
  ELSE IF s[i] = "\\" /\ i < Len(s)
    THEN IF s[i + 1] \in DOMAIN EscOf
           THEN Unescape(s, i + 2, Append(acc, EscOf[s[i + 1]]))
           ELSE [ok |-> FALSE, val |-> acc]
  ELSE IF s[i] = "\\" THEN [ok |-> FALSE, val |-> acc]
  ELSE Unescape(s, i + 1, Append(acc, s[i]))

ParseEscapes(s) == Unescape(s, 1, <<>>)

\* reverse_parse(s), lines 306-345 ('<' and '>' throw; no name or key in
\* this model holds them).
EscapeChar(c) ==
  CASE c = "\\" -> <<"\\", "\\">> [] c = "\r" -> <<"\\", "r">>
    [] c = "\n" -> <<"\\", "n">> [] c = TAB -> <<"\\", "t">>
    [] c = "=" -> <<"\\", "=">> [] OTHER -> <<c>>

ReverseParse(s) == FlattenSeq([i \in 1 .. Len(s) |-> EscapeChar(s[i])])

\* setParamValue(line), lines 210-249: the first '=' not right after a
\* backslash splits the line; name and value are trimmed and unescaped.
\* With no such '=', the whole line is the name, not unescaped, and the
\* value is empty.  Result: [ok, conf].
SetParamLine(c, p, line) ==
  LET P == {i \in 1 .. Len(line) : line[i] = "=" /\ ~(i > 1 /\ line[i - 1] = "\\")}
  IN IF P = {} THEN [ok |-> TRUE, conf |-> SetParam(c, p, line, <<>>)]
     ELSE LET i == Min(P)
              n == ParseEscapes(Trim(SubSeq(line, 1, i - 1)))
              v == IF i < Len(line) THEN ParseEscapes(Trim(SubSeq(line, i + 1, Len(line))))
                                    ELSE [ok |-> TRUE, val |-> <<>>]
          IN IF n.ok /\ v.ok THEN [ok |-> TRUE, conf |-> SetParam(c, p, n.val, v.val)]
                             ELSE [ok |-> FALSE, conf |-> c]

\* A domain's _name: the constructor trims the name it is given.
NameOf(p) == IF p = <<>> THEN <<>> ELSE Trim(p[Len(p)])

-----------------------------------------------------------------------------
(* TC_Config::parse(istream), lines 459-533: _root.destroy(), then one    *)
(* line at a time with a stack of domains.  A throw leaves the lines      *)
(* already read in the tree.  Result: [ok, conf].                         *)

Fail(c) == [ok |-> FALSE, conf |-> c]

RECURSIVE ParseFrom(_, _, _, _)
ParseFrom(ls, i, c, stk) ==
  IF i > Len(ls)
    THEN IF Len(stk) # 1 THEN Fail(c) ELSE [ok |-> TRUE, conf |-> c]
  ELSE
    LET line == Trim(ls[i])
        R == {j \in 1 .. Len(line) : line[j] = ">"}
    IN
    IF line = <<>> \/ line[1] = "#" THEN ParseFrom(ls, i + 1, c, stk)
    ELSE IF line[1] = "<"
      THEN IF R = {} THEN Fail(c)
           ELSE IF Len(line) > 1 /\ line[2] = "/"
             THEN IF stk = <<>> \/ NameOf(stk[Len(stk)]) # SubSeq(line, 3, Min(R) - 1)
                    THEN Fail(c)
                    ELSE ParseFrom(ls, i + 1, c, SubSeq(stk, 1, Len(stk) - 1))
           ELSE IF stk = <<>> THEN Fail(c)   \* top() of an empty stack: a crash
           ELSE LET n == SubSeq(line, 2, Min(R) - 1)
                    top == stk[Len(stk)]
                IN ParseFrom(ls, i + 1, AddSubDomain(c, top, n), Append(stk, Append(top, n)))
    ELSE IF stk = <<>> THEN Fail(c)
    ELSE LET r == SetParamLine(c, stk[Len(stk)], line)
         IN IF r.ok THEN ParseFrom(ls, i + 1, r.conf, stk) ELSE Fail(r.conf)

ParseText(ls) == ParseFrom(ls, 1, EmptyConf, <<<<>>>>)

-----------------------------------------------------------------------------
(* tostr                                                                  *)

Tabs(n) == [j \in 1 .. n |-> TAB]

\* TC_ConfigDomain::tostr(i), lines 389-435: the domain's lines, each
\* parameter one tab deeper, "key" alone when the value is empty.
RECURSIVE DomainStr(_, _, _)
DomainStr(c, p, i) ==
  LET name == ReverseParse(NameOf(p))
      KeyLine(e) == <<TAB>> \o Tabs(i) \o ReverseParse(e[1])
                      \o (IF e[2] = <<>> THEN <<>> ELSE <<"=">> \o ReverseParse(e[2]))
      ps == c.par[p]
      ds == c.sub[p]
  IN << Tabs(i) \o <<"<">> \o name \o <<">">> >>
     \o [j \in 1 .. Len(ps) |-> KeyLine(ps[j])]
     \o FlattenSeq([j \in 1 .. Len(ds) |-> DomainStr(c, Append(p, ds[j]), i + 1)])
     \o << Tabs(i) \o <<"<", "/">> \o name \o <<">">> >>

\* TC_Config::tostr(), lines 779-792: the root's sub-domains in the order
\* of the std::map _subdomain (by name); the root's own parameters are not
\* written.
ToStr(c) ==
  LET tops == SortSeq(c.sub[<<>>], StrLess)
  IN FlattenSeq([j \in 1 .. Len(tops) |-> DomainStr(c, <<tops[j]>>, 0)])

-----------------------------------------------------------------------------
(* Looking a configuration up                                             *)

\* getSubTcConfigDomain(itBegin, itEnd), lines 127-162: follow the names
\* down from cur through the _subdomain maps.
RECURSIVE Reaches(_, _, _)
Reaches(c, cur, rest) ==
  \/ rest = <<>>
  \/ /\ Append(cur, Head(rest)) \in DOMAIN c.sub
     /\ Reaches(c, Append(cur, Head(rest)), Tail(rest))

\* searchTcConfigDomain(domains) != NULL, lines 713-721.
HasDomain(c, p) == Reaches(c, <<>>, p)

\* getDomainKey(path), lines 632-646: _key, or empty for a missing domain.
GetDomainKey(c, p) ==
  IF HasDomain(c, p) THEN [i \in 1 .. Len(c.par[p]) |-> c.par[p][i][1]] ELSE <<>>

\* getDomainMap(path), lines 600-630: _param, or an empty map.
GetDomainMap(c, p) ==
  IF HasDomain(c, p)
    THEN [k \in {c.par[p][i][1] : i \in 1 .. Len(c.par[p])} |->
            LET i == CHOOSE j \in 1 .. Len(c.par[p]) : c.par[p][j][1] = k
            IN c.par[p][i][2]]
    ELSE [k \in {} |-> <<>>]

\* get(sName, sDefault), lines 577-597: getParamValue(name) (lines 116-125)
\* of the domain, or sDefault when the domain or the name is missing.
Get(c, p, k, dflt) ==
  LET m == GetDomainMap(c, p) IN IF k \in DOMAIN m THEN m[k] ELSE dflt

\* getDomainVector(path), lines 664-705: _domain (the root's for "/").
GetDomainVector(c, p) == IF HasDomain(c, p) THEN c.sub[p] ELSE <<>>

-----------------------------------------------------------------------------
(* Operations on a TC_Config                                              *)

Texts == UNION {[1 .. n -> Lines] : n \in 0 .. MaxLines}

\* Adds the domains of path p that are missing, as insertDomain and
\* insertDomainParam do with bCreate.
RECURSIVE Create(_, _, _)
Create(c, p, i) ==
  IF i > Len(p) THEN c ELSE Create(AddSubDomain(c, SubSeq(p, 1, i - 1), p[i]), p, i + 1)

\* parseString(buffer), lines 556-562.
ParseString(t) ==
  LET r == ParseText(t)
  IN /\ conf' = r.conf
     /\ status' = IF r.ok THEN "ok" ELSE "error"

\* insertDomain(sCurDomain, sAddDomain, bCreate), lines 723-749: -1 when
\* the current domain is missing and bCreate is false.
InsertDomain(p, n, create) ==
  /\ HasDomain(conf, p) \/ create
  /\ conf' = AddSubDomain(Create(conf, p, 1), p, n)
  /\ UNCHANGED status

\* insertDomainParam(sCurDomain, m, bCreate), lines 751-777, m one pair.
InsertDomainParam(p, k, v, create) ==
  /\ HasDomain(conf, p) \/ create
  /\ conf' = InsertParam(Create(conf, p, 1), p, k, v)
  /\ UNCHANGED status

\* joinConfig(cf, bUpdate), lines 794-806: parseString of the two tostr()
\* texts, this one first when bUpdate.
JoinConfig(t, update) ==
  LET cf == ParseText(t).conf
      buf == IF update THEN ToStr(conf) \o ToStr(cf) ELSE ToStr(cf) \o ToStr(conf)
  IN /\ ParseText(t).ok
     /\ ParseString(buf)

Next ==
  \/ \E t \in Texts : ParseString(t)
  \/ \E p \in CurPaths, n \in Names, b \in BOOLEAN : InsertDomain(p, n, b)
  \/ \E p \in CurPaths, k \in Keys, v \in Vals, b \in BOOLEAN :
       InsertDomainParam(p, k, v, b)
  \/ \E t \in Texts, b \in BOOLEAN : JoinConfig(t, b)

Spec == Init /\ [][Next]_<<conf, status>>

-----------------------------------------------------------------------------
(* Properties                                                             *)

\* Section 8.1: a configuration that parsed, written out with tostr() and
\* parsed again, is the same configuration: the same parameters with the
\* same values in the same order, and the same domains in the same order,
\* at every level, as getDomainKey, getDomainMap, getDomainVector and get see
\* them.  joinConfig() relies on it.
RoundTrip ==
  status = "ok" =>
    LET r == ParseText(ToStr(conf))
    IN /\ r.ok
       /\ \A p \in DOMAIN conf.sub \cup DOMAIN r.conf.sub :
            /\ GetDomainKey(r.conf, p) = GetDomainKey(conf, p)
            /\ GetDomainMap(r.conf, p) = GetDomainMap(conf, p)
            /\ GetDomainVector(r.conf, p) = GetDomainVector(conf, p)
            /\ \A k \in Keys : Get(r.conf, p, k, <<>>) = Get(conf, p, k, <<>>)

=============================================================================
