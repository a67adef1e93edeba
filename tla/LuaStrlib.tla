----------------------------- MODULE LuaStrlib -----------------------------
(***************************************************************************)
(* Pattern matching in the string library of the Lua 5.4.6 sources in      *)
(* tar/lua-5.4.6/src (lstrlib.c): the backtracking matcher with its        *)
(* captures, undone when a choice fails, and find, match, gmatch and gsub; *)
(* and the meaning of a pattern, as the sequence of ways each of its items *)
(* can match.                                                              *)
(*                                                                         *)
(* A pattern is a sequence of items; the matcher sees their characters     *)
(* only.  A text taken from the subject is <<position, length>>.  Three of *)
(* the ten character classes stand for all.                                *)
(***************************************************************************)
EXTENDS Integers, Sequences, FiniteSets

CONSTANTS
  Alphabet,     \* a sequence of all items: kind, text, set, rep, n
  Families,     \* of calls: f, items, src, init, repl, max, a set of each
  ClassOf,      \* the characters of a class, by its letter
  Complement,   \* the class of which a capital letter is the complement
  CharCode(_),  \* the order of the characters
  MaxCaptures,  \* LUA_MAXCAPTURES
  MaxCCalls     \* MAXCCALLS

NUL == "NUL"    \* what is read at the end of a string
NULL == 0
Err == -1       \* an error in the pattern
TooComplex == -2
CAP_UNFINISHED == -1
CAP_POSITION == -2
Digit == [d \in {"0", "1", "2"} |-> IF d = "0" THEN 0 ELSE IF d = "1" THEN 1 ELSE 2]
Specials == {"^", "$", "*", "+", "?", ".", "(", "[", "%", "-"}

-----------------------------------------------------------------------------
(* c: the subject src and the pattern pat; nothing is read beyond the      *)
(* character that ends them.  m: captures, level, depth, and s, the end of *)
(* the match, NULL or an error.                                            *)

S(c, i) == Append(c.src, NUL)[i]
P(c, i) == Append(c.pat, NUL)[i]
SrcEnd(c) == Len(c.src) + 1
PEnd(c) == Len(c.pat) + 1

At(m, s) == [m EXCEPT !.s = s]
prepstate == [cap |-> [i \in 1..MaxCaptures |-> <<NULL, 0>>], level |-> 0,
              depth |-> MaxCCalls, s |-> NULL]
reprepstate(m) == [m EXCEPT !.level = 0]

check_capture(m, l) ==
  IF l = 0 \/ l > m.level THEN Err ELSE IF m.cap[l][2] = CAP_UNFINISHED THEN Err ELSE l

capture_to_close(m) ==
  LET open == {l \in 1..m.level : m.cap[l][2] = CAP_UNFINISHED}
  IN  IF open = {} THEN Err ELSE CHOOSE l \in open : \A k \in open : k <= l

RECURSIVE BracketEnd(_, _)
BracketEnd(c, p) ==
  IF p = PEnd(c) THEN Err
  ELSE LET q == IF P(c, p) = "%" /\ p + 1 < PEnd(c) THEN p + 2 ELSE p + 1
       IN  IF P(c, q) = "]" THEN q + 1 ELSE BracketEnd(c, q)

classend(c, p) ==
  CASE P(c, p) = "%" -> IF p + 1 = PEnd(c) THEN Err ELSE p + 2
    [] P(c, p) = "[" -> BracketEnd(c, IF P(c, p + 1) = "^" THEN p + 2 ELSE p + 1)
    [] OTHER -> p + 1

match_class(ch, cl) ==
  CASE cl \in DOMAIN ClassOf -> ch \in ClassOf[cl]
    [] cl \in DOMAIN Complement -> ch \notin ClassOf[Complement[cl]]
    [] OTHER -> ch = cl

RECURSIVE BracketHas(_, _, _, _)
BracketHas(c, ch, p, ec) ==
  /\ p < ec
  /\ CASE P(c, p) = "%" -> match_class(ch, P(c, p + 1)) \/ BracketHas(c, ch, p + 2, ec)
       [] P(c, p) # "%" /\ P(c, p + 1) = "-" /\ p + 2 < ec ->
            \/ CharCode(P(c, p)) <= CharCode(ch) /\ CharCode(ch) <= CharCode(P(c, p + 2))
            \/ BracketHas(c, ch, p + 3, ec)
       [] OTHER -> P(c, p) = ch \/ BracketHas(c, ch, p + 1, ec)

matchbracketclass(c, ch, p, ec) ==
  IF P(c, p + 1) = "^" THEN ~BracketHas(c, ch, p + 2, ec)
  ELSE BracketHas(c, ch, p + 1, ec)

singlematch(c, s, p, ep) ==
  /\ s < SrcEnd(c)
  /\ CASE P(c, p) = "." -> TRUE
       [] P(c, p) = "%" -> match_class(S(c, s), P(c, p + 1))
       [] P(c, p) = "[" -> matchbracketclass(c, S(c, s), p, ep - 1)
       [] OTHER -> P(c, p) = S(c, s)

RECURSIVE Balance(_, _, _, _)
Balance(c, s, p, cont) ==
  IF s >= SrcEnd(c) THEN NULL
  ELSE CASE S(c, s) = P(c, p + 1) ->
              IF cont = 1 THEN s + 1 ELSE Balance(c, s + 1, p, cont - 1)
         [] S(c, s) # P(c, p + 1) /\ S(c, s) = P(c, p) -> Balance(c, s + 1, p, cont + 1)
         [] OTHER -> Balance(c, s + 1, p, cont)

matchbalance(c, s, p) ==
  IF p >= PEnd(c) - 1 THEN Err
  ELSE IF S(c, s) # P(c, p) THEN NULL ELSE Balance(c, s + 1, p, 1)

(* a position capture has no length the rest of the subject could hold *)
match_capture(c, m, s, d) ==
  LET l == check_capture(m, d)
      init == m.cap[l][1]
      len == m.cap[l][2]
  IN  IF l = Err THEN Err
      ELSE IF /\ len # CAP_POSITION /\ SrcEnd(c) - s >= len
              /\ \A i \in 0..(len - 1) : S(c, init + i) = S(c, s + i)
           THEN s + len ELSE NULL

Frontier(c, s, p, ep) ==
  /\ ~matchbracketclass(c, IF s = 1 THEN NUL ELSE S(c, s - 1), p, ep - 1)
  /\ matchbracketclass(c, S(c, s), p, ep - 1)

RECURSIVE match(_, _, _, _), Item(_, _, _, _), max_expand(_, _, _, _, _, _),
          min_expand(_, _, _, _, _)

(* the deepest call fails; the others undo what they had chosen *)
match(c, m, s, p) ==
  IF m.depth = 0 THEN At(m, TooComplex)
  ELSE LET r == Item(c, [m EXCEPT !.depth = @ - 1], s, p)
       IN  [r EXCEPT !.depth = @ + 1]

UndoStart(r) == [r EXCEPT !.level = @ - 1]
UndoEnd_Never(r, l) == r
UndoEnd(r, l) == [r EXCEPT !.cap[l][2] = CAP_UNFINISHED]

start_capture(c, m, s, p, what) ==
  IF m.level >= MaxCaptures THEN At(m, Err)
  ELSE LET l == m.level + 1
           r == match(c, [m EXCEPT !.cap[l] = <<s, what>>, !.level = l], s, p)
       IN  IF r.s = NULL THEN UndoStart(r) ELSE r

end_capture(c, m, s, p) ==
  LET l == capture_to_close(m)
      r == match(c, [m EXCEPT !.cap[l] = <<@[1], s - @[1]>>], s, p)
  IN  IF l = Err THEN At(m, Err) ELSE IF r.s = NULL THEN UndoEnd(r, l) ELSE r

(* i repetitions of the item at p, then fewer; one more, then more *)
max_expand(c, m, s, i, p, ep) ==
  LET r == match(c, m, s + i, ep + 1)
  IN  IF r.s # NULL \/ i = 0 THEN r ELSE max_expand(c, r, s, i - 1, p, ep)

min_expand(c, m, s, p, ep) ==
  LET r == match(c, m, s, ep + 1)
  IN  IF r.s # NULL \/ ~singlematch(c, s, p, ep) THEN r
      ELSE min_expand(c, r, s + 1, p, ep)

Repetitions(c, s, p, ep) ==
  CHOOSE i \in 0..(SrcEnd(c) - s) :
    /\ \A j \in 0..(i - 1) : singlematch(c, s + j, p, ep)
    /\ ~singlematch(c, s + i, p, ep)

(* a class and its suffix *)
Default(c, m, s, p) ==
  LET ep == classend(c, p)
      suffix == P(c, ep)
  IN  IF ep = Err THEN At(m, Err)
      ELSE IF ~singlematch(c, s, p, ep)
           THEN IF suffix \in {"*", "?", "-"} THEN Item(c, m, s, ep + 1) ELSE At(m, NULL)
           ELSE CASE suffix = "?" ->
                       LET r == match(c, m, s + 1, ep + 1)
                       IN  IF r.s # NULL THEN r ELSE Item(c, r, s, ep + 1)
                  [] suffix = "+" ->
                       max_expand(c, m, s + 1, Repetitions(c, s + 1, p, ep), p, ep)
                  [] suffix = "*" -> max_expand(c, m, s, Repetitions(c, s, p, ep), p, ep)
                  [] suffix = "-" -> min_expand(c, m, s, p, ep)
                  [] OTHER -> Item(c, m, s + 1, ep)

(* after 'init:' in match *)
Item(c, m, s, p) ==
  IF p = PEnd(c) THEN At(m, s)
  ELSE LET x == P(c, p)
           y == P(c, p + 1)
           goOn(e, q) == IF e \in {NULL, Err} THEN At(m, e) ELSE Item(c, m, e, q)
       IN
       CASE x = "(" -> IF y = ")" THEN start_capture(c, m, s, p + 2, CAP_POSITION)
                       ELSE start_capture(c, m, s, p + 1, CAP_UNFINISHED)
         [] x = ")" -> end_capture(c, m, s, p + 1)
         [] x = "$" /\ p + 1 = PEnd(c) -> At(m, IF s = SrcEnd(c) THEN s ELSE NULL)
         [] x = "%" /\ y = "b" -> goOn(matchbalance(c, s, p + 2), p + 4)
         [] x = "%" /\ y = "f" ->
              LET ep == classend(c, p + 2)
              IN  IF P(c, p + 2) # "[" \/ ep = Err THEN At(m, Err)
                  ELSE goOn(IF Frontier(c, s, p + 2, ep) THEN s ELSE NULL, ep)
         [] x = "%" /\ y \in DOMAIN Digit -> goOn(match_capture(c, m, s, Digit[y]), p + 2)
         [] OTHER -> Default(c, m, s, p)

-----------------------------------------------------------------------------
(* Captures and the functions of the library.  A result is a sequence of   *)
(* texts, <<>> for none.                                                   *)

Failed(why) == <<<<why, why>>>>

get_onecapture(m, i, s, e) ==
  IF i > m.level THEN IF i = 1 THEN <<s, e - s>> ELSE <<Err, Err>>
  ELSE IF m.cap[i][2] = CAP_UNFINISHED THEN <<Err, Err>> ELSE m.cap[i]

(* s is NULL when the whole match is not wanted *)
push_captures(m, s, e) ==
  LET n == IF m.level = 0 /\ s # NULL THEN 1 ELSE m.level
      caps == [i \in 1..n |-> get_onecapture(m, i, s, e)]
  IN  IF \E i \in 1..n : caps[i] = <<Err, Err>> THEN Failed(Err) ELSE caps

nospecials(pat) == \A i \in 1..Len(pat) : pat[i] \notin Specials

posrelatI(pos, len) ==
  IF pos > 0 THEN pos ELSE IF pos = 0 \/ pos < -len THEN 1 ELSE len + pos + 1

(* the first place at or after s1 where the text is found *)
lmemfind(c, s1) ==
  LET there == {s \in s1..(SrcEnd(c) - Len(c.pat)) :
                  \A i \in 1..Len(c.pat) : S(c, s + i - 1) = P(c, i)}
  IN  IF there = {} THEN NULL ELSE CHOOSE s \in there : \A q \in there : s <= q

RECURSIVE FindFrom(_, _, _, _)
FindFrom(c, m, s1, find) ==
  LET anchor == c.anchor
      r == match(c, reprepstate(m), s1, 1)
  IN  CASE r.s \in {Err, TooComplex} -> Failed(r.s)
        [] r.s > 0 /\ find ->
             LET caps == push_captures(r, NULL, NULL)
             IN  IF caps = Failed(Err) THEN caps ELSE <<<<s1, r.s - s1>>>> \o caps
        [] r.s > 0 /\ ~find -> push_captures(r, s1, r.s)
        [] OTHER -> IF s1 < SrcEnd(c) /\ ~anchor THEN FindFrom(c, r, s1 + 1, find)
                    ELSE <<>>

(* the pattern with its anchor skipped *)
Anchored(src, pat) ==
  IF pat # <<>> /\ pat[1] = "^" THEN [src |-> src, pat |-> Tail(pat), anchor |-> TRUE]
  ELSE [src |-> src, pat |-> pat, anchor |-> FALSE]

str_find_aux(src, pat, start, find) ==
  LET init == posrelatI(start, Len(src))
      c == [src |-> src, pat |-> pat]
      s2 == lmemfind(c, init)
  IN  CASE init > SrcEnd(c) -> <<>>
        [] init <= SrcEnd(c) /\ find /\ nospecials(pat) ->
             IF s2 = NULL THEN <<>> ELSE <<<<s2, Len(pat)>>>>
        [] OTHER -> FindFrom(Anchored(src, pat), prepstate, init, find)

(* What add_s and add_value add for the match s..e-1.  The replacement is  *)
(* a string: "%0", "%1", "%2", an ordinary "x", "%x" (an error); or        *)
(* "function", which gives nil; or "table", which has the value X for the  *)
(* texts of one character.                                                 *)
X == <<0, 1>>
Changes(m, repl, s, e) ==
  repl # "function" /\ (repl = "table" => get_onecapture(m, 1, s, e)[2] = 1)
add_value(m, repl, s, e) ==
  CASE repl = "x" -> X
    [] repl = "%x" -> <<Err, Err>>
    [] repl = "%0" -> <<s, e - s>>
    [] repl = "function" -> IF push_captures(m, s, e) = Failed(Err) THEN <<Err, Err>>
                            ELSE <<s, e - s>>
    [] repl = "%1" -> get_onecapture(m, 1, s, e)
    [] repl = "%2" -> get_onecapture(m, 2, s, e)
    [] repl = "table" -> LET key == get_onecapture(m, 1, s, e)
                         IN  IF key[2] = 1 THEN X
                             ELSE IF key[1] = Err THEN key ELSE <<s, e - s>>

-----------------------------------------------------------------------------
(* A call.  'gmatch' gives its matches one at a time, 'gsub' calls the     *)
(* replacement once for each.                                              *)

VARIABLES
  call,       \* the call being done
  phase,      \* "called", "running", "done"
  ms,         \* MatchState
  src,        \* the current position
  lastmatch,  \* the end of the last match
  n,          \* the number of substitutions
  changed,
  out         \* the results, a sequence of texts for each

vars == <<call, phase, ms, src, lastmatch, n, changed, out>>

RECURSIVE TextOf(_)
TextOf(items) == IF items = <<>> THEN <<>> ELSE Head(items).text \o TextOf(Tail(items))

(* a call names the items by their places in Alphabet *)
Items(c) == [i \in 1..Len(c.items) |-> Alphabet[c.items[i]]]
Pattern(c) == TextOf(Items(c))

Init ==
  /\ \E x \in Families : \E f \in x.f, p \in x.items, text \in x.src, i \in x.init,
                          r \in x.repl, k \in x.max :
       call = [f |-> f, items |-> p, src |-> text, init |-> i, repl |-> r, max |-> k]
  /\ phase = "called" /\ ms = prepstate
  /\ src = 1 /\ lastmatch = NULL /\ n = 0 /\ changed = FALSE /\ out = <<>>

Finish(result) == phase' = "done" /\ out' = result

(* str_find, str_match *)
Find ==
  /\ phase = "called" /\ call.f \in {"find", "match"}
  /\ \E r \in {str_find_aux(call.src, Pattern(call), call.init, call.f = "find")} :
       Finish(<<r>>)
  /\ UNCHANGED <<call, ms, src, lastmatch, n, changed>>

Gmatch ==
  /\ phase = "called" /\ call.f = "gmatch"
  /\ LET init == posrelatI(call.init, Len(call.src))
         end == Len(call.src) + 1
     IN  src' = IF init > end THEN end + 1 ELSE init
  /\ phase' = "running"
  /\ UNCHANGED <<call, ms, lastmatch, n, changed, out>>

(* in gmatch a leading '^' is an ordinary character *)
GContext == [src |-> call.src, pat |-> Pattern(call), anchor |-> FALSE]

NewMatch(r) == r.s # NULL /\ r.s # lastmatch

RECURSIVE Scan(_, _, _)
Scan(c, m, s) ==
  IF s > SrcEnd(c) THEN [m |-> At(m, NULL), at |-> s]
  ELSE LET r == match(c, reprepstate(m), s, 1)
       IN  IF NewMatch(r) THEN [m |-> r, at |-> s] ELSE Scan(c, r, s + 1)

GmatchAux ==
  /\ phase = "running" /\ call.f = "gmatch"
  /\ \E r \in {Scan(GContext, ms, src)} : \E e \in {r.m.s} :
       \E caps \in {IF e > 0 THEN push_captures(r.m, r.at, e) ELSE Failed(e)} :
       /\ ms' = r.m
       /\ IF caps[1][1] > 0
          THEN /\ src' = e /\ lastmatch' = e /\ out' = Append(out, caps)
               /\ UNCHANGED phase
          ELSE /\ Finish(IF e = NULL THEN out ELSE <<caps>>)
               /\ UNCHANGED <<src, lastmatch>>
  /\ UNCHANGED <<call, n, changed>>

Gsub ==
  /\ phase = "called" /\ call.f = "gsub" /\ phase' = "running" /\ out' = <<<<>>>>
  /\ UNCHANGED <<call, ms, src, lastmatch, n, changed>>

SContext == Anchored(call.src, Pattern(call))

(* the rest of the subject is added, unless nothing was changed *)
GsubEnd(at, b, some) ==
  Finish(IF some THEN <<Append(b, <<at, Len(call.src) + 1 - at>>)>>
         ELSE <<<<<<1, Len(call.src)>>>>>>)

GsubNext ==
  /\ phase = "running" /\ call.f = "gsub"
  /\ UNCHANGED call
  /\ IF n >= call.max
     THEN GsubEnd(src, out[1], changed) /\ UNCHANGED <<ms, src, lastmatch, n, changed>>
     ELSE \E r \in {match(SContext, reprepstate(ms), src, 1)} :
          LET c == SContext
              value == add_value(r, call.repl, src, r.s)
          IN
          /\ ms' = r
          /\ CASE r.s < 0 -> Finish(<<Failed(r.s)>>) /\ UNCHANGED <<src, lastmatch, n, changed>>
               [] r.s > 0 /\ NewMatch(r) ->
                    /\ n' = n + 1 /\ src' = r.s /\ lastmatch' = r.s
                    /\ changed' = (changed \/ Changes(r, call.repl, src, r.s))
                    /\ IF value[1] = Err THEN Finish(<<Failed(Err)>>)
                       ELSE IF c.anchor THEN GsubEnd(r.s, Append(out[1], value), changed')
                       ELSE out' = <<Append(out[1], value)>> /\ UNCHANGED phase
               [] r.s >= 0 /\ ~NewMatch(r) ->
                    /\ UNCHANGED <<lastmatch, n, changed>>
                    /\ IF src < SrcEnd(c)
                       THEN /\ src' = src + 1
                            /\ IF c.anchor THEN GsubEnd(src + 1, Append(out[1], <<src, 1>>), changed)
                               ELSE out' = <<Append(out[1], <<src, 1>>)>> /\ UNCHANGED phase
                       ELSE GsubEnd(src, out[1], changed) /\ UNCHANGED src

Next == Find \/ Gmatch \/ GmatchAux \/ Gsub \/ GsubNext
Spec == Init /\ [][Next]_vars

-----------------------------------------------------------------------------
(* What a pattern means.  An item matches a set of characters a number of  *)
(* times, opens or closes a capture, or has a condition of its own; of the *)
(* ways to match the items in order, the first is taken, each item trying  *)
(* its numbers of repetitions in the order its suffix says.                *)

RunFrom(text, set, s) ==
  CHOOSE i \in 0..(Len(text) + 1 - s) :
    /\ \A j \in 0..(i - 1) : text[s + j] \in set
    /\ s + i <= Len(text) => text[s + i] \notin set

Descending(k, last) == [i \in 1..(k - last + 1) |-> k + 1 - i]
Counts(rep, k) ==
  CASE rep = "*" -> Descending(k, 0)
    [] rep = "+" -> Descending(k, 1)
    [] rep = "-" -> [i \in 1..(k + 1) |-> i - 1]
    [] rep = "?" -> IF k > 0 THEN <<1, 0>> ELSE <<0>>
    [] rep = ""  -> IF k > 0 THEN <<1>> ELSE <<>>

Way(e, caps) == [e |-> e, caps |-> caps]
NoWay == Way(NULL, <<>>)
BadPattern == Way(Err, <<>>)
Char(text, s) == IF s \in 1..Len(text) THEN text[s] ELSE NUL

(* the shortest balanced text from s *)
BalancedEnd(text, s, x, y) ==
  LET Balanced(e) == LET count(ch) == Cardinality({i \in s..e : text[i] = ch})
                     IN  count(y) = IF x = y THEN 2 ELSE count(x)
      ends == {e \in (s + 1)..Len(text) : text[e] = y /\ Balanced(e)}
  IN  IF Char(text, s) # x \/ ends = {} THEN NULL
      ELSE 1 + CHOOSE e \in ends : \A f \in ends : e <= f

RECURSIVE Best(_, _, _, _, _), FirstOf(_, _, _, _, _, _)

(* the first way from position s for the items from k on *)
Best(text, items, k, s, caps) ==
  IF k > Len(items) THEN Way(s, caps)
  ELSE LET it == items[k]
           On(e) == IF e = NULL THEN NoWay ELSE Best(text, items, k + 1, e, caps)
           open == {l \in 1..Len(caps) : caps[l][2] = CAP_UNFINISHED}
           last == CHOOSE l \in open : \A j \in open : j <= l
       IN
       CASE it.kind = "one" ->
              FirstOf(text, items, k, s, caps, Counts(it.rep, RunFrom(text, it.set, s)))
         [] it.kind \in {"open", "position"} ->
              IF Len(caps) >= MaxCaptures THEN BadPattern
              ELSE Best(text, items, k + 1, s,
                        Append(caps, <<s, IF it.kind = "open" THEN CAP_UNFINISHED
                                          ELSE CAP_POSITION>>))
         [] it.kind = "close" ->
              IF open = {} THEN BadPattern
              ELSE Best(text, items, k + 1, s, [caps EXCEPT ![last][2] = s - caps[last][1]])
         [] it.kind = "back" ->
              IF it.n \notin 1..Len(caps) \ open THEN BadPattern
              ELSE LET q == caps[it.n]
                   IN  On(IF /\ q[2] >= 0 /\ s + q[2] - 1 <= Len(text)
                             /\ SubSeq(text, s, s + q[2] - 1) = SubSeq(text, q[1], q[1] + q[2] - 1)
                          THEN s + q[2] ELSE NULL)
         [] it.kind = "balance" -> On(BalancedEnd(text, s, it.text[3], it.text[4]))
         [] it.kind = "frontier" ->
              On(IF Char(text, s - 1) \notin it.set /\ Char(text, s) \in it.set THEN s ELSE NULL)
         [] it.kind = "end" ->
              IF k = Len(items) THEN On(IF s = Len(text) + 1 THEN s ELSE NULL)
              ELSE FirstOf(text, items, k, s, caps, Counts("", RunFrom(text, {"$"}, s)))
         [] it.kind = "bad" -> BadPattern

(* the first of these numbers of repetitions with which the rest matches *)
FirstOf(text, items, k, s, caps, counts) ==
  IF counts = <<>> THEN NoWay
  ELSE LET w == Best(text, items, k + 1, s + Head(counts), caps)
       IN  IF w.e # NULL THEN w ELSE FirstOf(text, items, k, s, caps, Tail(counts))

(* the whole match and its captures, as the functions give them *)
Whole(w, s) == <<s, w.e - s>>
Given(w, s) ==
  IF w.e = Err \/ \E i \in 1..Len(w.caps) : w.caps[i][2] = CAP_UNFINISHED THEN Failed(Err)
  ELSE IF w.caps = <<>> THEN <<Whole(w, s)>> ELSE w.caps

(* where the next match after one that ended at 'last' starts, and it *)
RECURSIVE NextWay(_, _, _, _, _)
NextWay(text, items, s, last, anchor) ==
  LET w == Best(text, items, 1, s, <<>>)
  IN  IF w.e # NULL /\ w.e # last THEN [at |-> s, w |-> w]
      ELSE IF s > Len(text) \/ anchor THEN [at |-> NULL, w |-> NoWay]
      ELSE NextWay(text, items, s + 1, last, anchor)

(* all matches, from s; an error ends them *)
RECURSIVE AllWays(_, _, _, _, _, _)
AllWays(text, items, s, last, anchor, max) ==
  LET x == NextWay(text, items, s, last, anchor)
  IN  IF max = 0 \/ s > Len(text) + 1 \/ x.at = NULL THEN <<>>
      ELSE IF x.w.e = Err \/ anchor THEN <<x>>
      ELSE <<x>> \o AllWays(text, items, x.w.e, x.w.e, anchor, max - 1)

-----------------------------------------------------------------------------
(* Properties. *)

Unanchored(items) == IF items # <<>> /\ items[1].text = <<"^">> THEN Tail(items) ELSE items
IsAnchored(items) == items # Unanchored(items)

(* items that the matcher calls itself for *)
Nesting(items) ==
  Cardinality({i \in 1..Len(items) : items[i].kind \in {"open", "position", "close"}
                                     \/ items[i].rep # ""})

AsFound(x, find) ==
  CASE x.at = NULL -> <<>>
    [] x.at # NULL /\ x.w.e = Err -> Failed(Err)
    [] OTHER -> LET given == Given(x.w, x.at)
                IN  IF ~find \/ given = Failed(Err) THEN given
                    ELSE <<Whole(x.w, x.at)>> \o x.w.caps

Found(c, find) ==
  LET init == posrelatI(c.init, Len(c.src))
      pat == Pattern(c)
      exact == {s \in init..(Len(c.src) + 1 - Len(pat)) :
                  SubSeq(c.src, s, s + Len(pat) - 1) = pat}
  IN  IF init > Len(c.src) + 1 THEN <<>>
      ELSE IF find /\ nospecials(pat)
           THEN IF exact = {} THEN <<>>
                ELSE <<<<CHOOSE s \in exact : \A q \in exact : s <= q, Len(pat)>>>>
      ELSE AsFound(NextWay(c.src, Unanchored(Items(c)), init, NULL, IsAnchored(Items(c))), find)

(* the results of these matches; an error is all there is *)
Results(ws) ==
  LET r == [i \in 1..Len(ws) |-> AsFound(ws[i], FALSE)]
  IN  IF \E i \in 1..Len(r) : r[i] = Failed(Err) THEN <<Failed(Err)>> ELSE r

Replaced(x, repl) ==
  LET cap(i) == IF Len(x.w.caps) < i /\ i > 1 THEN <<Err, Err>>
                ELSE IF x.w.caps = <<>> THEN Whole(x.w, x.at)
                ELSE IF x.w.caps[i][2] = CAP_UNFINISHED THEN <<Err, Err>> ELSE x.w.caps[i]
  IN  CASE x.w.e = Err \/ repl = "%x" -> <<Err, Err>>
        [] repl = "x" -> X
        [] repl = "%0" -> Whole(x.w, x.at)
        [] repl = "%1" -> cap(1)
        [] repl = "%2" -> cap(2)
        [] repl = "function" -> IF Given(x.w, x.at) = Failed(Err) THEN <<Err, Err>>
                                ELSE Whole(x.w, x.at)
        [] repl = "table" -> IF cap(1)[2] = 1 THEN X ELSE IF cap(1)[1] = Err THEN cap(1)
                             ELSE Whole(x.w, x.at)

(* a text, a character at a time *)
RECURSIVE Characters(_)
Characters(texts) ==
  IF texts = <<>> THEN <<>>
  ELSE LET t == Head(texts)
       IN  (IF t[1] > 0 /\ t[2] >= 0 THEN [i \in 1..t[2] |-> <<t[1] + i - 1, 1>>] ELSE <<t>>)
             \o Characters(Tail(texts))

(* the subject from 'from' on, with these matches replaced *)
RECURSIVE Substituted(_, _, _, _)
Substituted(text, ws, from, repl) ==
  IF ws = <<>> THEN <<<<from, Len(text) + 1 - from>>>>
  ELSE <<<<from, Head(ws).at - from>>, Replaced(Head(ws), repl)>>
         \o Substituted(text, Tail(ws), Head(ws).w.e, repl)

(* What find, match, gmatch and gsub give is what the pattern means: the   *)
(* first way its items match, at the first position, with its captures,    *)
(* whatever choices were tried before it and undone; the matches of gmatch *)
(* and gsub follow one another, none of them empty at the end of the one   *)
(* before; an error is given exactly when a bad item is reached.  Only     *)
(* patterns of many repetitions and captures are too complex, and between  *)
(* two matches the depth is what it was (the assertion of reprepstate).    *)
PatternsAsMeant ==
  /\ phase = "running" /\ ms.s >= 0 => ms.depth = MaxCCalls
  /\ CASE phase = "called" \/ (out = <<>> /\ phase = "running") -> TRUE
       [] out = <<Failed(TooComplex)>> -> Nesting(Items(call)) >= MaxCCalls
       [] phase = "done" /\ call.f \in {"find", "match"} ->
            out = <<Found(call, call.f = "find")>>
       [] call.f = "gmatch" ->
            LET r == Results(AllWays(call.src, Items(call),
                                     posrelatI(call.init, Len(call.src)), NULL, FALSE, 99))
            IN  IF phase = "done" THEN out = r
                ELSE r = <<Failed(Err)>> \/ (Len(out) <= Len(r) /\ out = SubSeq(r, 1, Len(out)))
       [] phase = "done" /\ call.f = "gsub" ->
            LET ws == AllWays(call.src, Unanchored(Items(call)), 1, NULL,
                              IsAnchored(Items(call)), call.max)
            IN  IF \E i \in 1..Len(ws) : Replaced(ws[i], call.repl)[1] = Err
                THEN out = <<Failed(Err)>>
                ELSE /\ n = Len(ws)
                     /\ Characters(out[1])
                          = Characters(Substituted(call.src, ws, 1, call.repl))
       [] phase = "running" /\ call.f = "gsub" -> TRUE
=============================================================================
