---------------------------- MODULE ConsoleProofs ----------------------------
(***************************************************************************)
(* Proofs about Console: where glyphs are drawn whatever interrupts what,  *)
(* and that the screen shows what a terminal would.                        *)
(*                                                                         *)
(* The first part is about vga_putchar: what a terminal shows, the records *)
(* a step leaves (Steps), what stays true of the cursor in any call        *)
(* (InCall) and in one that nothing interrupts (During), and what follows  *)
(* for a whole call and for vga_print, which are steps repeated.  The      *)
(* second part is about Console.                                           *)
(***************************************************************************)
EXTENDS Console, LeastNumbers, SequenceTheorems

-----------------------------------------------------------------------------
(* The terminal.                                                           *)

\* Characters.  The provers do not know of a literal that it is a string.
Chars == STRING \cup {"nul", "nl", "cr", "bs", "blank", "a", "A", "1", "!"}

\* Functions from some places to characters.
Pictures == UNION {[S -> Chars] : S \in SUBSET (Int \X Int)}

Terminals == [row : Nat, col : {k \in Nat : k < Columns}, cells : Pictures]

\* A row has at least one cell, and nothing is left of it.
LEMMA Screen ==
    /\ Columns \in Nat /\ 1 <= Columns /\ Width = 8 * Columns
    /\ Height \in Nat /\ 16 <= Height /\ Height % 16 = 0
    /\ Width \in Nat /\ 8 <= Width /\ Width % 8 = 0
BY ScreenAssumption DEF Columns, FONT_WIDTH

\* The cursor after one more character.
LEMMA NextColumn ==
    ASSUME NEW k \in Nat, k < Columns
    PROVE  /\ k + 1 < Columns => (k + 1) \div Columns = 0 /\ (k + 1) % Columns = k + 1
           /\ k + 1 = Columns => (k + 1) \div Columns = 1 /\ (k + 1) % Columns = 0
<1>1. Columns \in Nat /\ 1 <= Columns
  BY Screen
<1> QED BY <1>1

\* A picture with one more character.
LEMMA PaintedFacts ==
    ASSUME NEW f \in Pictures, NEW a \in Int, NEW b \in Int, NEW c \in Chars
    PROVE  /\ Painted(f, <<a, b>>, c) \in Pictures
           /\ DOMAIN Painted(f, <<a, b>>, c) = DOMAIN f \cup {<<a, b>>}
           /\ \A p \in DOMAIN f \cup {<<a, b>>} :
                 Painted(f, <<a, b>>, c)[p] = IF p = <<a, b>> THEN c ELSE f[p]
<1> DEFINE D == DOMAIN f \cup {<<a, b>>}
<1>1. DOMAIN f \subseteq Int \X Int /\ \A p \in DOMAIN f : f[p] \in Chars
  BY DEF Pictures
<1>2. D \subseteq Int \X Int
  BY <1>1
<1>3. Painted(f, <<a, b>>, c) \in [D -> Chars]
  BY <1>1 DEF Painted
<1>4. Painted(f, <<a, b>>, c) \in Pictures
  <2> HIDE DEF D
  <2> QED BY <1>2, <1>3 DEF Pictures
<1> QED BY <1>4 DEF Painted

\* One more character leaves a terminal, and none of its rows again.
LEMMA TypedFacts ==
    ASSUME NEW t \in Terminals, NEW c \in Chars
    PROVE  Typed(t, c) \in Terminals /\ t.row <= Typed(t, c).row
<1>1. /\ t.row \in Nat /\ t.col \in Nat /\ t.col < Columns /\ t.cells \in Pictures
      /\ t = [row |-> t.row, col |-> t.col, cells |-> t.cells]
  BY DEF Terminals
<1>2. Columns \in Nat /\ 1 <= Columns
  BY Screen
<1>3. CASE c = "nl"
  <2>1. Typed(t, c) = [row |-> t.row + 1, col |-> 0, cells |-> t.cells]
    BY <1>1, <1>3 DEF Typed
  <2> QED BY <1>1, <1>2, <2>1 DEF Terminals
<1>4. CASE c = "cr"
  <2>1. Typed(t, c) = [row |-> t.row, col |-> 0, cells |-> t.cells]
    BY <1>1, <1>4 DEF Typed
  <2> QED BY <1>1, <1>2, <2>1 DEF Terminals
<1>5. CASE c = "bs"
  <2> DEFINE left == IF t.col = 0 THEN 0 ELSE t.col - 1
             p == Painted(t.cells, <<left, t.row>>, "blank")
  <2>1. Typed(t, c) = [row |-> t.row, col |-> left, cells |-> p]
    BY <1>1, <1>5 DEF Typed
  <2>2. left \in Nat /\ left < Columns
    BY <1>1, <1>2
  <2>3. p \in Pictures
    <3>1. t.cells \in Pictures /\ left \in Int /\ t.row \in Int /\ "blank" \in Chars
      BY <1>1, <2>2 DEF Chars
    <3> HIDE DEF left
    <3> QED BY <3>1, PaintedFacts
  <2> HIDE DEF left, p
  <2> QED BY <1>1, <2>1, <2>2, <2>3 DEF Terminals
<1>6. CASE c \notin {"nl", "cr", "bs"}
  <2> DEFINE r == t.row + (t.col + 1) \div Columns
             k == (t.col + 1) % Columns
             p == Painted(t.cells, <<t.col, t.row>>, c)
  <2>1. Typed(t, c) = [row |-> r, col |-> k, cells |-> p]
    BY <1>6 DEF Typed
  <2>2. r \in Nat /\ t.row <= r /\ k \in Nat /\ k < Columns
    <3>1. CASE t.col + 1 < Columns
      <4>1. (t.col + 1) \div Columns = 0 /\ (t.col + 1) % Columns = t.col + 1
        BY <1>1, <3>1, NextColumn
      <4> QED BY <1>1, <3>1, <4>1
    <3>2. CASE t.col + 1 = Columns
      <4>1. (t.col + 1) \div Columns = 1 /\ (t.col + 1) % Columns = 0
        BY <1>1, <3>2, NextColumn
      <4> QED BY <1>1, <1>2, <3>2, <4>1
    <3> QED BY <1>1, <1>2, <3>1, <3>2
  <2>3. p \in Pictures
    <3>1. t.cells \in Pictures /\ t.col \in Int /\ t.row \in Int
      BY <1>1
    <3> QED BY <3>1, PaintedFacts
  <2> HIDE DEF r, k, p
  <2> QED BY <2>1, <2>2, <2>3 DEF Terminals
<1> QED BY <1>3, <1>4, <1>5, <1>6


\* f[n] is what a terminal shows after the first n characters of s.
Follows(s, f) == f = [n \in 0 .. Len(s) |-> IF n = 0 THEN Blank ELSE Typed(f[n - 1], s[n])]

LEMMA FollowsFacts ==
    ASSUME NEW s, Len(s) \in Nat, NEW f, Follows(s, f)
    PROVE  /\ f[0] = Blank
           /\ \A n \in Nat : n + 1 <= Len(s) => f[n + 1] = Typed(f[n], s[n + 1])
<1>1. \A n \in 0 .. Len(s) : f[n] = IF n = 0 THEN Blank ELSE Typed(f[n - 1], s[n])
  BY DEF Follows
<1>2. ASSUME NEW n \in Nat, n + 1 <= Len(s) PROVE f[n + 1] = Typed(f[n], s[n + 1])
  <2>1. n + 1 \in 0 .. Len(s) /\ n + 1 # 0 /\ (n + 1) - 1 = n
    BY <1>2
  <2> QED BY <1>1, <2>1
<1> QED BY <1>1, <1>2

LEMMA FollowsExists ==
    ASSUME NEW s, Len(s) \in Nat
    PROVE  \E f : Follows(s, f)
<1> DEFINE Goes(f, k) == f = [n \in 0 .. k |-> IF n = 0 THEN Blank ELSE Typed(f[n - 1], s[n])]
           S == {k \in Nat : \E f : Goes(f, k)}
<1>1. 0 \in S
  <2>1. Goes([n \in 0 .. 0 |-> Blank], 0)
    OBVIOUS
  <2> QED BY <2>1
<1>2. ASSUME NEW k \in Nat, k \in S PROVE k + 1 \in S
  <2>1. PICK f : Goes(f, k)
    BY <1>2
  <2> DEFINE g == [n \in 0 .. k + 1 |-> IF n <= k THEN f[n] ELSE Typed(f[k], s[k + 1])]
  <2>2. ASSUME NEW n \in 0 .. k + 1
        PROVE  g[n] = IF n = 0 THEN Blank ELSE Typed(g[n - 1], s[n])
    <3>1. n # 0 => n - 1 \in 0 .. k + 1 /\ n - 1 <= k
      OBVIOUS
    <3>2. n # 0 => g[n - 1] = f[n - 1]
      <4> SUFFICES ASSUME n # 0 PROVE g[n - 1] = f[n - 1]
        OBVIOUS
      <4> QED BY <3>1
    <3>3. CASE n <= k
      <4>1. n \in 0 .. k /\ g[n] = f[n]
        BY <3>3
      <4>2. f[n] = IF n = 0 THEN Blank ELSE Typed(f[n - 1], s[n])
        BY <2>1, <4>1
      <4> HIDE DEF g
      <4> QED BY <3>2, <4>1, <4>2
    <3>4. CASE n = k + 1
      <4>1. g[n] = Typed(f[k], s[k + 1]) /\ n # 0 /\ n - 1 = k
        BY <3>4
      <4> HIDE DEF g
      <4> QED BY <3>2, <3>4, <4>1
    <3> QED BY <3>3, <3>4
  <2>3. g = [n \in 0 .. k + 1 |-> g[n]]
    OBVIOUS
  <2>4. Goes(g, k + 1)
    <3> HIDE DEF g
    <3> QED BY <2>2, <2>3
  <2> HIDE DEF g, Goes
  <2> QED BY <2>4
<1>3. Len(s) \in S
  <2> HIDE DEF S
  <2> QED BY <1>1, <1>2, Induction
<1>4. PICK f : Goes(f, Len(s))
  BY <1>3
<1>5. Follows(s, f)
  BY <1>4 DEF Follows
<1> QED BY <1>5

LEMMA TerminalIs ==
    ASSUME NEW s, Len(s) \in Nat
    PROVE  \E f : Follows(s, f) /\ Terminal(s) = f[Len(s)]
<1>1. Terminal(s) = (CHOOSE f : Follows(s, f))[Len(s)]
  BY DEF Terminal, Follows
<1>2. Follows(s, CHOOSE f : Follows(s, f))
  BY FollowsExists
<1> QED BY <1>1, <1>2

\* One more character.
LEMMA TerminalAppend ==
    ASSUME NEW s \in Seq(Chars), NEW c \in Chars
    PROVE  Terminal(Append(s, c)) = Typed(Terminal(s), c)
<1> DEFINE r == Append(s, c)
<1>1. /\ Len(s) \in Nat /\ Len(r) = Len(s) + 1
      /\ r[Len(s) + 1] = c
      /\ \A n \in 1 .. Len(s) : r[n] = s[n]
  BY AppendProperties
<1> HIDE DEF r
<1>2. PICK f : Follows(s, f) /\ Terminal(s) = f[Len(s)]
  BY <1>1, TerminalIs
<1>3. PICK g : Follows(r, g) /\ Terminal(r) = g[Len(r)]
  BY <1>1, TerminalIs
<1> DEFINE S == {n \in Nat : n <= Len(s) => f[n] = g[n]}
<1>4. Len(r) \in Nat
  BY <1>1
<1>5. 0 \in S
  BY <1>1, <1>2, <1>3, <1>4, FollowsFacts
<1>6. ASSUME NEW n \in Nat, n \in S PROVE n + 1 \in S
  <2> SUFFICES ASSUME n + 1 <= Len(s) PROVE f[n + 1] = g[n + 1]
    OBVIOUS
  <2>1. f[n] = g[n]
    BY <1>1, <1>6
  <2>2. f[n + 1] = Typed(f[n], s[n + 1])
    BY <1>1, <1>2, FollowsFacts
  <2>3. g[n + 1] = Typed(g[n], r[n + 1])
    BY <1>1, <1>3, <1>4, FollowsFacts
  <2>4. r[n + 1] = s[n + 1]
    BY <1>1
  <2> QED BY <2>1, <2>2, <2>3, <2>4
<1>7. f[Len(s)] = g[Len(s)]
  <2>1. Len(s) \in S
    <3> HIDE DEF S
    <3> QED BY <1>1, <1>5, <1>6, Induction
  <2> QED BY <1>1, <2>1
<1>8. g[Len(s) + 1] = Typed(g[Len(s)], r[Len(s) + 1])
  BY <1>1, <1>3, <1>4, FollowsFacts
<1> QED BY <1>1, <1>2, <1>3, <1>7, <1>8 DEF r

\* Nothing at all.
LEMMA TerminalEmpty == Terminal(<<>>) = Blank /\ Blank \in Terminals
<1>1. Len(<<>>) = 0
  OBVIOUS
<1>2. Terminal(<<>>) = Blank
  BY <1>1, TerminalIs, FollowsFacts
<1>3. [p \in {} |-> "nul"] = <<>> /\ [p \in {} |-> "nul"] \in [{} -> Chars]
  BY DEF Chars
<1>4. Blank \in Terminals
  BY <1>3, Screen DEF Blank, Terminals, Pictures
<1> QED BY <1>2, <1>4

\* A terminal is always one.
LEMMA TerminalStays ==
    ASSUME NEW s \in Seq(Chars)
    PROVE  Terminal(s) \in Terminals
<1>1. Len(s) \in Nat /\ \A n \in 1 .. Len(s) : s[n] \in Chars
  BY ElementOfSeq, LenProperties
<1>2. PICK f : Follows(s, f) /\ Terminal(s) = f[Len(s)]
  BY <1>1, TerminalIs
<1> DEFINE S == {n \in Nat : n <= Len(s) => f[n] \in Terminals}
<1>3. 0 \in S
  BY <1>1, <1>2, FollowsFacts, TerminalEmpty
<1>4. ASSUME NEW n \in Nat, n \in S PROVE n + 1 \in S
  <2> SUFFICES ASSUME n + 1 <= Len(s) PROVE f[n + 1] \in Terminals
    OBVIOUS
  <2>1. f[n] \in Terminals /\ s[n + 1] \in Chars
    BY <1>1, <1>4
  <2>2. f[n + 1] = Typed(f[n], s[n + 1])
    BY <1>1, <1>2, FollowsFacts
  <2> QED BY <2>1, <2>2, TypedFacts
<1>5. Len(s) \in S
  <2> HIDE DEF S
  <2> QED BY <1>1, <1>3, <1>4, Induction
<1> QED BY <1>1, <1>2, <1>5

-----------------------------------------------------------------------------
(* One step of vga_putchar.                                                *)

Stages == {"begin", "arg_y", "arg_x", "draw", "load_x", "store_x", "wrap", "return",
           "load_y", "store_y", "scroll", "done"}

Consoles == [x : Int, y : Int, glyphs : Pictures, wild : BOOLEAN, c : Chars, at : Stages,
             dx : Int, dy : Int, l : Int]

\* A coordinate where a column of cells begins, lim or left of it.
Column(x, lim) == x \in Int /\ 0 <= x /\ x % 8 = 0 /\ x <= lim

\* A coordinate where a row of cells begins, or one so low that draw_glyph
\* leaves the framebuffer.
Line(y) == y \in Int /\ (y > Height - 16 \/ (0 <= y /\ y % 16 = 0))

\* A call of vga_putchar whose cursor was at lim at most when it began, where an
\* interruption may have moved the cursor to any cell of the screen, unless the
\* character is a backspace.
InCall(m, lim) ==
    /\ m \in Consoles /\ Line(m.y)
    /\ m.at = "begin" => Column(m.x, lim)
    /\ m.at \in {"arg_y", "arg_x", "draw"} =>
          Column(m.x, IF m.c = "bs" THEN Width - 8 ELSE lim)
    /\ m.at \in {"load_x", "store_x"} => Column(m.x, lim)
    /\ m.at = "load_x" /\ m.c = "bs" => m.x # 0
    /\ m.at = "store_x" => Column(m.l, lim) /\ (m.c = "bs" => m.l # 0)
    /\ m.at \in {"wrap", "return"} => Column(m.x, lim + 8)
    /\ m.at \in {"load_y", "store_y", "scroll", "done"} => Column(m.x, Width - 8)
    /\ m.at \in {"arg_x", "draw"} => Line(m.dy)
    /\ m.at = "draw" => Column(m.dx, lim)
    /\ m.at = "store_y" => Line(m.l)

\* Glyphs have been drawn in cells, in the framebuffer and not right of lim.
Near(f, lim) ==
    \A p \in DOMAIN f :
       Column(p[1], lim) /\ p[2] \in 0 .. Height - 16 /\ p[2] % 16 = 0

\* How many steps a call still makes, at most.
Left(m) ==
    CASE m.at = "begin"   -> 11
      [] m.at = "arg_y"   -> IF m.c = "bs" THEN 4 ELSE 10
      [] m.at = "arg_x"   -> IF m.c = "bs" THEN 3 ELSE 9
      [] m.at = "draw"    -> IF m.c = "bs" THEN 2 ELSE 8
      [] m.at = "load_x"  -> IF m.c = "bs" THEN 6 ELSE 7
      [] m.at = "store_x" -> IF m.c = "bs" THEN 5 ELSE 6
      [] m.at = "wrap"    -> 5
      [] m.at = "return"  -> 4
      [] m.at = "load_y"  -> 3
      [] m.at = "store_y" -> 2
      [] m.at = "scroll"  -> 1
      [] OTHER            -> 0

\* What a step does, branch by branch.
LEMMA Branches ==
    ASSUME NEW m
    PROVE  /\ m.at = "begin" => PutStep(m) = Begin(m)
           /\ m.at = "arg_y" => PutStep(m) = [m EXCEPT !.dy = m.y, !.at = "arg_x"]
           /\ m.at = "arg_x" => PutStep(m) = [m EXCEPT !.dx = m.x, !.at = "draw"]
           /\ m.at = "draw" /\ m.c = "bs" =>
                 PutStep(m) = [draw_glyph(m, "blank") EXCEPT !.at = "scroll"]
           /\ m.at = "draw" /\ m.c # "bs" =>
                 PutStep(m) = [draw_glyph(m, m.c) EXCEPT !.at = "load_x"]
           /\ m.at = "load_x" => PutStep(m) = [m EXCEPT !.l = m.x, !.at = "store_x"]
           /\ m.at = "store_x" /\ m.c = "bs" =>
                 PutStep(m) = [m EXCEPT !.x = m.l - 8, !.at = "arg_y"]
           /\ m.at = "store_x" /\ m.c # "bs" =>
                 PutStep(m) = [m EXCEPT !.x = m.l + 8, !.at = "wrap"]
           /\ m.at = "wrap" =>
                 PutStep(m) = [m EXCEPT !.at = IF m.x >= Width THEN "return" ELSE "scroll"]
           /\ m.at = "return" => PutStep(m) = [m EXCEPT !.x = 0, !.at = "load_y"]
           /\ m.at = "load_y" => PutStep(m) = [m EXCEPT !.l = m.y, !.at = "store_y"]
           /\ m.at = "store_y" => PutStep(m) = [m EXCEPT !.y = m.l + 16, !.at = "scroll"]
           /\ m.at = "scroll" /\ m.y >= Height =>
                 PutStep(m) = [m EXCEPT !.y = Height - 1, !.at = "done",
                                        !.wild = m.wild \/ MovesKernel]
           /\ m.at = "scroll" /\ ~(m.y >= Height) => PutStep(m) = [m EXCEPT !.at = "done"]
           /\ m.at = "done" => PutStep(m) = m
BY DEF PutStep, Wraps, Scrolls, FONT_WIDTH, FONT_HEIGHT

\* draw_glyph, wherever it is called.
LEMMA Drawing ==
    ASSUME NEW m \in Consoles, NEW g \in Chars, NEW lim \in Int, lim <= Width,
           NEW far \in Int, lim <= far,
           Line(m.dy), Column(m.dx, lim), Near(m.glyphs, far)
    PROVE  /\ draw_glyph(m, g) \in Consoles
           /\ Near(draw_glyph(m, g).glyphs, far)
           /\ m.wild => draw_glyph(m, g).wild
           /\ draw_glyph(m, g).x = m.x /\ draw_glyph(m, g).y = m.y
           /\ draw_glyph(m, g).c = m.c
<1>1. /\ m.dx \in Int /\ m.dy \in Int /\ m.glyphs \in Pictures /\ Height \in Nat /\ 16 <= Height
  BY Screen DEF Consoles
<1>2. CASE InFramebuffer(m.dx, m.dy)
  <2> DEFINE f == Painted(m.glyphs, <<m.dx, m.dy>>, g)
  <2>1. draw_glyph(m, g) = [m EXCEPT !.glyphs = f]
    BY <1>2 DEF draw_glyph
  <2>2. f \in Pictures /\ DOMAIN f = DOMAIN m.glyphs \cup {<<m.dx, m.dy>>}
    <3> DEFINE a == m.dx
               b == m.dy
               h == m.glyphs
    <3>1. a \in Int /\ b \in Int /\ h \in Pictures
      BY <1>1
    <3> HIDE DEF a, b, h
    <3>2. Painted(h, <<a, b>>, g) \in Pictures
          /\ DOMAIN Painted(h, <<a, b>>, g) = DOMAIN h \cup {<<a, b>>}
      BY <3>1, PaintedFacts
    <3> QED BY <3>2 DEF a, b, h
  <2>3. m.dy \in 0 .. Height - 16 /\ m.dy % 16 = 0
    BY <1>1, <1>2 DEF InFramebuffer, Line, FONT_HEIGHT
  <2>4. Column(m.dx, far)
    BY <1>1 DEF Column
  <2>5. Near(f, far)
    <3> SUFFICES ASSUME NEW p \in DOMAIN f
                 PROVE  Column(p[1], far) /\ p[2] \in 0 .. Height - 16 /\ p[2] % 16 = 0
      BY DEF Near
    <3>1. CASE p \in DOMAIN m.glyphs
      BY <3>1 DEF Near
    <3>2. CASE p = <<m.dx, m.dy>>
      BY <3>2, <2>3, <2>4
    <3> HIDE DEF f
    <3> QED BY <2>2, <3>1, <3>2
  <2> HIDE DEF f
  <2> QED BY <2>1, <2>2, <2>5 DEF Consoles
<1>3. CASE ~ InFramebuffer(m.dx, m.dy)
  <2> DEFINE r == draw_glyph(m, g)
  <2>1. r = [m EXCEPT !.wild = TRUE]
    BY <1>3 DEF draw_glyph
  <2> HIDE DEF r
  <2>2. /\ r.x = m.x /\ r.y = m.y /\ r.c = m.c
        /\ r \in Consoles /\ r.glyphs = m.glyphs /\ r.wild = TRUE
    BY <2>1 DEF Consoles
  <2> QED BY <2>2 DEF r
<1> QED BY <1>2, <1>3

\* r is m but for what is given.
Fields(r, m, x, y, at, dx, dy, l) ==
    /\ r \in Consoles
    /\ r.x = x /\ r.y = y /\ r.at = at /\ r.dx = dx /\ r.dy = dy /\ r.l = l
    /\ r.c = m.c /\ r.glyphs = m.glyphs /\ r.wild = m.wild

\* One coordinate and the place changed.
LEMMA Changed ==
    ASSUME NEW m \in Consoles, NEW i \in Int, NEW s \in Stages, NEW r
    PROVE  /\ r = [m EXCEPT !.at = s] => Fields(r, m, m.x, m.y, s, m.dx, m.dy, m.l)
           /\ r = [m EXCEPT !.x = i, !.at = s] => Fields(r, m, i, m.y, s, m.dx, m.dy, m.l)
           /\ r = [m EXCEPT !.y = i, !.at = s] => Fields(r, m, m.x, i, s, m.dx, m.dy, m.l)
           /\ r = [m EXCEPT !.dx = i, !.at = s] => Fields(r, m, m.x, m.y, s, i, m.dy, m.l)
           /\ r = [m EXCEPT !.dy = i, !.at = s] => Fields(r, m, m.x, m.y, s, m.dx, i, m.l)
           /\ r = [m EXCEPT !.l = i, !.at = s] => Fields(r, m, m.x, m.y, s, m.dx, m.dy, i)
<1>1. ASSUME r = [m EXCEPT !.at = s] PROVE Fields(r, m, m.x, m.y, s, m.dx, m.dy, m.l)
  BY <1>1 DEF Fields, Consoles
<1>2. ASSUME r = [m EXCEPT !.x = i, !.at = s] PROVE Fields(r, m, i, m.y, s, m.dx, m.dy, m.l)
  BY <1>2 DEF Fields, Consoles
<1>3. ASSUME r = [m EXCEPT !.y = i, !.at = s] PROVE Fields(r, m, m.x, i, s, m.dx, m.dy, m.l)
  BY <1>3 DEF Fields, Consoles
<1>4. ASSUME r = [m EXCEPT !.dx = i, !.at = s] PROVE Fields(r, m, m.x, m.y, s, i, m.dy, m.l)
  BY <1>4 DEF Fields, Consoles
<1>5. ASSUME r = [m EXCEPT !.dy = i, !.at = s] PROVE Fields(r, m, m.x, m.y, s, m.dx, i, m.l)
  BY <1>5 DEF Fields, Consoles
<1>6. ASSUME r = [m EXCEPT !.l = i, !.at = s] PROVE Fields(r, m, m.x, m.y, s, m.dx, m.dy, i)
  BY <1>6 DEF Fields, Consoles
<1> QED BY <1>1, <1>2, <1>3, <1>4, <1>5, <1>6

\* What a step that neither draws nor scrolls leaves, field by field.
LEMMA StepFields ==
    ASSUME NEW m \in Consoles
    PROVE  /\ m.at = "begin" /\ m.c = "nl" =>
                 Fields(PutStep(m), m, 0, m.y, "load_y", m.dx, m.dy, m.l)
           /\ m.at = "begin" /\ m.c = "cr" =>
                 Fields(PutStep(m), m, 0, m.y, "scroll", m.dx, m.dy, m.l)
           /\ m.at = "begin" /\ m.c = "bs" /\ m.x > 0 =>
                 Fields(PutStep(m), m, m.x, m.y, "load_x", m.dx, m.dy, m.l)
           /\ m.at = "begin" /\ m.c = "bs" /\ ~ (m.x > 0) =>
                 Fields(PutStep(m), m, m.x, m.y, "arg_y", m.dx, m.dy, m.l)
           /\ m.at = "begin" /\ m.c \notin {"nl", "cr", "bs"} =>
                 Fields(PutStep(m), m, m.x, m.y, "arg_y", m.dx, m.dy, m.l)
           /\ m.at = "arg_y" => Fields(PutStep(m), m, m.x, m.y, "arg_x", m.dx, m.y, m.l)
           /\ m.at = "arg_x" => Fields(PutStep(m), m, m.x, m.y, "draw", m.x, m.dy, m.l)
           /\ m.at = "load_x" => Fields(PutStep(m), m, m.x, m.y, "store_x", m.dx, m.dy, m.x)
           /\ m.at = "store_x" /\ m.c = "bs" =>
                 Fields(PutStep(m), m, m.l - 8, m.y, "arg_y", m.dx, m.dy, m.l)
           /\ m.at = "store_x" /\ m.c # "bs" =>
                 Fields(PutStep(m), m, m.l + 8, m.y, "wrap", m.dx, m.dy, m.l)
           /\ m.at = "wrap" /\ m.x >= Width =>
                 Fields(PutStep(m), m, m.x, m.y, "return", m.dx, m.dy, m.l)
           /\ m.at = "wrap" /\ ~ (m.x >= Width) =>
                 Fields(PutStep(m), m, m.x, m.y, "scroll", m.dx, m.dy, m.l)
           /\ m.at = "return" => Fields(PutStep(m), m, 0, m.y, "load_y", m.dx, m.dy, m.l)
           /\ m.at = "load_y" => Fields(PutStep(m), m, m.x, m.y, "store_y", m.dx, m.dy, m.y)
           /\ m.at = "store_y" =>
                 Fields(PutStep(m), m, m.x, m.l + 16, "scroll", m.dx, m.dy, m.l)
           /\ m.at = "scroll" /\ ~ (m.y >= Height) =>
                 Fields(PutStep(m), m, m.x, m.y, "done", m.dx, m.dy, m.l)
           /\ m.at = "done" => Fields(PutStep(m), m, m.x, m.y, "done", m.dx, m.dy, m.l)
<1> DEFINE r == PutStep(m)
<1>1. /\ m.x \in Int /\ m.y \in Int /\ m.l \in Int /\ m.l - 8 \in Int /\ m.l + 8 \in Int
      /\ m.l + 16 \in Int /\ 0 \in Int
  BY DEF Consoles
<1>2. {"arg_y", "arg_x", "draw", "load_x", "store_x", "wrap", "return",
       "load_y", "store_y", "scroll", "done"} \subseteq Stages
  BY DEF Stages
<1>3. ASSUME m.at = "begin", m.c = "nl"
      PROVE  Fields(r, m, 0, m.y, "load_y", m.dx, m.dy, m.l)
  <2>1. r = [m EXCEPT !.x = 0, !.at = "load_y"]
    BY <1>3, Branches DEF Begin
  <2> HIDE DEF r
  <2> QED BY <1>1, <1>2, <2>1, Changed
<1>4. ASSUME m.at = "begin", m.c = "cr"
      PROVE  Fields(r, m, 0, m.y, "scroll", m.dx, m.dy, m.l)
  <2>1. r = [m EXCEPT !.x = 0, !.at = "scroll"]
    BY <1>4, Branches DEF Begin
  <2> HIDE DEF r
  <2> QED BY <1>1, <1>2, <2>1, Changed
<1>5. ASSUME m.at = "begin", m.c = "bs", m.x > 0
      PROVE  Fields(r, m, m.x, m.y, "load_x", m.dx, m.dy, m.l)
  <2>1. r = [m EXCEPT !.at = "load_x"]
    BY <1>5, Branches DEF Begin
  <2> HIDE DEF r
  <2> QED BY <1>1, <1>2, <2>1, Changed
<1>6. ASSUME m.at = "begin", m.c = "bs", ~ (m.x > 0)
      PROVE  Fields(r, m, m.x, m.y, "arg_y", m.dx, m.dy, m.l)
  <2>1. r = [m EXCEPT !.at = "arg_y"]
    BY <1>6, Branches DEF Begin
  <2> HIDE DEF r
  <2> QED BY <1>1, <1>2, <2>1, Changed
<1>7. ASSUME m.at = "begin", m.c \notin {"nl", "cr", "bs"}
      PROVE  Fields(r, m, m.x, m.y, "arg_y", m.dx, m.dy, m.l)
  <2>1. r = [m EXCEPT !.at = "arg_y"]
    BY <1>7, Branches DEF Begin
  <2> HIDE DEF r
  <2> QED BY <1>1, <1>2, <2>1, Changed
<1>8. ASSUME m.at = "arg_y"
      PROVE  Fields(r, m, m.x, m.y, "arg_x", m.dx, m.y, m.l)
  <2>1. r = [m EXCEPT !.dy = m.y, !.at = "arg_x"]
    BY <1>8, Branches
  <2> HIDE DEF r
  <2> QED BY <1>1, <1>2, <2>1, Changed
<1>9. ASSUME m.at = "arg_x"
      PROVE  Fields(r, m, m.x, m.y, "draw", m.x, m.dy, m.l)
  <2>1. r = [m EXCEPT !.dx = m.x, !.at = "draw"]
    BY <1>9, Branches
  <2> HIDE DEF r
  <2> QED BY <1>1, <1>2, <2>1, Changed
<1>10. ASSUME m.at = "load_x"
      PROVE  Fields(r, m, m.x, m.y, "store_x", m.dx, m.dy, m.x)
  <2>1. r = [m EXCEPT !.l = m.x, !.at = "store_x"]
    BY <1>10, Branches
  <2> HIDE DEF r
  <2> QED BY <1>1, <1>2, <2>1, Changed
<1>11. ASSUME m.at = "store_x", m.c = "bs"
      PROVE  Fields(r, m, m.l - 8, m.y, "arg_y", m.dx, m.dy, m.l)
  <2>1. r = [m EXCEPT !.x = m.l - 8, !.at = "arg_y"]
    BY <1>11, Branches
  <2> HIDE DEF r
  <2> QED BY <1>1, <1>2, <2>1, Changed
<1>12. ASSUME m.at = "store_x", m.c # "bs"
      PROVE  Fields(r, m, m.l + 8, m.y, "wrap", m.dx, m.dy, m.l)
  <2>1. r = [m EXCEPT !.x = m.l + 8, !.at = "wrap"]
    BY <1>12, Branches
  <2> HIDE DEF r
  <2> QED BY <1>1, <1>2, <2>1, Changed
<1>13. ASSUME m.at = "wrap", m.x >= Width
      PROVE  Fields(r, m, m.x, m.y, "return", m.dx, m.dy, m.l)
  <2>1. r = [m EXCEPT !.at = "return"]
    BY <1>13, Branches
  <2> HIDE DEF r
  <2> QED BY <1>1, <1>2, <2>1, Changed
<1>14. ASSUME m.at = "wrap", ~ (m.x >= Width)
      PROVE  Fields(r, m, m.x, m.y, "scroll", m.dx, m.dy, m.l)
  <2>1. r = [m EXCEPT !.at = "scroll"]
    BY <1>14, Branches
  <2> HIDE DEF r
  <2> QED BY <1>1, <1>2, <2>1, Changed
<1>15. ASSUME m.at = "return"
      PROVE  Fields(r, m, 0, m.y, "load_y", m.dx, m.dy, m.l)
  <2>1. r = [m EXCEPT !.x = 0, !.at = "load_y"]
    BY <1>15, Branches
  <2> HIDE DEF r
  <2> QED BY <1>1, <1>2, <2>1, Changed
<1>16. ASSUME m.at = "load_y"
      PROVE  Fields(r, m, m.x, m.y, "store_y", m.dx, m.dy, m.y)
  <2>1. r = [m EXCEPT !.l = m.y, !.at = "store_y"]
    BY <1>16, Branches
  <2> HIDE DEF r
  <2> QED BY <1>1, <1>2, <2>1, Changed
<1>17. ASSUME m.at = "store_y"
      PROVE  Fields(r, m, m.x, m.l + 16, "scroll", m.dx, m.dy, m.l)
  <2>1. r = [m EXCEPT !.y = m.l + 16, !.at = "scroll"]
    BY <1>17, Branches
  <2> HIDE DEF r
  <2> QED BY <1>1, <1>2, <2>1, Changed
<1>18. ASSUME m.at = "scroll", ~ (m.y >= Height)
      PROVE  Fields(r, m, m.x, m.y, "done", m.dx, m.dy, m.l)
  <2>1. r = [m EXCEPT !.at = "done"]
    BY <1>18, Branches
  <2> HIDE DEF r
  <2> QED BY <1>1, <1>2, <2>1, Changed
<1>19. ASSUME m.at = "done" PROVE Fields(r, m, m.x, m.y, "done", m.dx, m.dy, m.l)
  <2>1. r = m
    BY <1>19, Branches
  <2> HIDE DEF r
  <2> QED BY <1>19, <2>1 DEF Fields
<1> QED BY <1>3, <1>4, <1>5, <1>6, <1>7, <1>8, <1>9, <1>10, <1>11, <1>12,
           <1>13, <1>14, <1>15, <1>16, <1>17, <1>18, <1>19

\* What the step that scrolls leaves.
LEMMA ScrollFields ==
    ASSUME NEW m \in Consoles, m.at = "scroll", m.y >= Height
    PROVE  /\ PutStep(m) \in Consoles
           /\ PutStep(m).x = m.x /\ PutStep(m).y = Height - 1 /\ PutStep(m).at = "done"
           /\ PutStep(m).c = m.c /\ PutStep(m).glyphs = m.glyphs
           /\ PutStep(m).wild <=> m.wild \/ MovesKernel
<1> DEFINE r == PutStep(m)
<1>1. r = [m EXCEPT !.y = Height - 1, !.at = "done", !.wild = m.wild \/ MovesKernel]
  BY Branches
<1>2. PICK w \in BOOLEAN : w = (m.wild \/ MovesKernel)
  OBVIOUS
<1>3. PICK i \in Int : i = Height - 1
  BY Screen
<1>4. PICK s \in Stages : s = "done"
  BY DEF Stages
<1>5. r = [m EXCEPT !.y = i, !.at = s, !.wild = w]
  BY <1>1, <1>2, <1>3, <1>4
<1> HIDE DEF r
<1>6. /\ r \in Consoles /\ r.x = m.x /\ r.y = i /\ r.at = s /\ r.c = m.c
      /\ r.glyphs = m.glyphs /\ r.wild = w
  BY <1>5 DEF Consoles
<1> QED BY <1>2, <1>3, <1>4, <1>6 DEF r

\* What a step leaves of a call.
Stepped(m, r, lim, far) ==
    /\ InCall(r, lim) /\ Near(r.glyphs, far)
    /\ m.wild => r.wild
    /\ r.c = m.c
    /\ Left(r) = 0 \/ Left(r) < Left(m)

\* Every step of a call keeps to the cells, and brings its end nearer.
LEMMA StepStays ==
    ASSUME NEW lim \in Int, lim = Width - 8 \/ lim = Width,
           NEW far \in Int, lim <= far,
           NEW m, InCall(m, lim), Near(m.glyphs, far)
    PROVE  Stepped(m, PutStep(m), lim, far)
<1> DEFINE r == PutStep(m)
<1>1. m \in Consoles /\ Line(m.y) /\ Height \in Nat /\ 16 <= Height /\ Height % 16 = 0
      /\ Width \in Nat /\ 8 <= Width /\ Width % 8 = 0
  BY Screen DEF InCall
<1>2. /\ m.x \in Int /\ m.y \in Int /\ m.c \in Chars /\ m.at \in Stages
      /\ m.dx \in Int /\ m.dy \in Int /\ m.l \in Int
  BY <1>1 DEF Consoles
<1>3. ASSUME m.at = "begin", m.c = "nl" PROVE Stepped(m, r, lim, far)
  <2>1. Fields(r, m, 0, m.y, "load_y", m.dx, m.dy, m.l)
    BY <1>1, <1>3, StepFields
  <2> HIDE DEF r
  <2> QED BY <1>1, <1>2, <1>3, <2>1 DEF Fields, Stepped, InCall, Left, Column, Line
<1>4. ASSUME m.at = "begin", m.c = "cr" PROVE Stepped(m, r, lim, far)
  <2>1. Fields(r, m, 0, m.y, "scroll", m.dx, m.dy, m.l)
    BY <1>1, <1>4, StepFields
  <2> HIDE DEF r
  <2> QED BY <1>1, <1>2, <1>4, <2>1 DEF Fields, Stepped, InCall, Left, Column, Line
<1>5. ASSUME m.at = "begin", m.c = "bs", m.x > 0 PROVE Stepped(m, r, lim, far)
  <2>1. Fields(r, m, m.x, m.y, "load_x", m.dx, m.dy, m.l)
    BY <1>1, <1>5, StepFields
  <2> HIDE DEF r
  <2> QED BY <1>1, <1>2, <1>5, <2>1 DEF Fields, Stepped, InCall, Left, Column, Line
<1>6. ASSUME m.at = "begin", m.c = "bs", ~ (m.x > 0) PROVE Stepped(m, r, lim, far)
  <2>1. Fields(r, m, m.x, m.y, "arg_y", m.dx, m.dy, m.l)
    BY <1>1, <1>6, StepFields
  <2> HIDE DEF r
  <2> QED BY <1>1, <1>2, <1>6, <2>1 DEF Fields, Stepped, InCall, Left, Column, Line
<1>7. ASSUME m.at = "begin", m.c \notin {"nl", "cr", "bs"} PROVE Stepped(m, r, lim, far)
  <2>1. Fields(r, m, m.x, m.y, "arg_y", m.dx, m.dy, m.l)
    BY <1>1, <1>7, StepFields
  <2> HIDE DEF r
  <2> QED BY <1>1, <1>2, <1>7, <2>1 DEF Fields, Stepped, InCall, Left, Column, Line
<1>8. ASSUME m.at = "arg_y" PROVE Stepped(m, r, lim, far)
  <2>1. Fields(r, m, m.x, m.y, "arg_x", m.dx, m.y, m.l)
    BY <1>1, <1>8, StepFields
  <2> HIDE DEF r
  <2> QED BY <1>1, <1>2, <1>8, <2>1 DEF Fields, Stepped, InCall, Left, Column, Line
<1>9. ASSUME m.at = "arg_x" PROVE Stepped(m, r, lim, far)
  <2>1. Fields(r, m, m.x, m.y, "draw", m.x, m.dy, m.l)
    BY <1>1, <1>9, StepFields
  <2> HIDE DEF r
  <2> QED BY <1>1, <1>2, <1>9, <2>1 DEF Fields, Stepped, InCall, Left, Column, Line
<1>10. ASSUME m.at = "load_x" PROVE Stepped(m, r, lim, far)
  <2>1. Fields(r, m, m.x, m.y, "store_x", m.dx, m.dy, m.x)
    BY <1>1, <1>10, StepFields
  <2> HIDE DEF r
  <2> QED BY <1>1, <1>2, <1>10, <2>1 DEF Fields, Stepped, InCall, Left, Column, Line
<1>11. ASSUME m.at = "store_x", m.c = "bs" PROVE Stepped(m, r, lim, far)
  <2>1. Fields(r, m, m.l - 8, m.y, "arg_y", m.dx, m.dy, m.l)
    BY <1>1, <1>11, StepFields
  <2> HIDE DEF r
  <2> QED BY <1>1, <1>2, <1>11, <2>1 DEF Fields, Stepped, InCall, Left, Column, Line
<1>12. ASSUME m.at = "store_x", m.c # "bs" PROVE Stepped(m, r, lim, far)
  <2>1. Fields(r, m, m.l + 8, m.y, "wrap", m.dx, m.dy, m.l)
    BY <1>1, <1>12, StepFields
  <2> HIDE DEF r
  <2> QED BY <1>1, <1>2, <1>12, <2>1 DEF Fields, Stepped, InCall, Left, Column, Line
<1>13. ASSUME m.at = "wrap", m.x >= Width PROVE Stepped(m, r, lim, far)
  <2>1. Fields(r, m, m.x, m.y, "return", m.dx, m.dy, m.l)
    BY <1>1, <1>13, StepFields
  <2> HIDE DEF r
  <2> QED BY <1>1, <1>2, <1>13, <2>1 DEF Fields, Stepped, InCall, Left, Column, Line
<1>14. ASSUME m.at = "wrap", ~ (m.x >= Width) PROVE Stepped(m, r, lim, far)
  <2>1. Fields(r, m, m.x, m.y, "scroll", m.dx, m.dy, m.l)
    BY <1>1, <1>14, StepFields
  <2> HIDE DEF r
  <2> QED BY <1>1, <1>2, <1>14, <2>1 DEF Fields, Stepped, InCall, Left, Column, Line
<1>15. ASSUME m.at = "return" PROVE Stepped(m, r, lim, far)
  <2>1. Fields(r, m, 0, m.y, "load_y", m.dx, m.dy, m.l)
    BY <1>1, <1>15, StepFields
  <2> HIDE DEF r
  <2> QED BY <1>1, <1>2, <1>15, <2>1 DEF Fields, Stepped, InCall, Left, Column, Line
<1>16. ASSUME m.at = "load_y" PROVE Stepped(m, r, lim, far)
  <2>1. Fields(r, m, m.x, m.y, "store_y", m.dx, m.dy, m.y)
    BY <1>1, <1>16, StepFields
  <2> HIDE DEF r
  <2> QED BY <1>1, <1>2, <1>16, <2>1 DEF Fields, Stepped, InCall, Left, Column, Line
<1>17. ASSUME m.at = "store_y" PROVE Stepped(m, r, lim, far)
  <2>1. Fields(r, m, m.x, m.l + 16, "scroll", m.dx, m.dy, m.l)
    BY <1>1, <1>17, StepFields
  <2> HIDE DEF r
  <2> QED BY <1>1, <1>2, <1>17, <2>1 DEF Fields, Stepped, InCall, Left, Column, Line
<1>18. ASSUME m.at = "scroll", ~ (m.y >= Height) PROVE Stepped(m, r, lim, far)
  <2>1. Fields(r, m, m.x, m.y, "done", m.dx, m.dy, m.l)
    BY <1>1, <1>18, StepFields
  <2> HIDE DEF r
  <2> QED BY <1>1, <1>2, <1>18, <2>1 DEF Fields, Stepped, InCall, Left, Column, Line
<1>19. ASSUME m.at = "done" PROVE Stepped(m, r, lim, far)
  <2>1. Fields(r, m, m.x, m.y, "done", m.dx, m.dy, m.l)
    BY <1>1, <1>19, StepFields
  <2> HIDE DEF r
  <2> QED BY <1>1, <1>2, <1>19, <2>1 DEF Fields, Stepped, InCall, Left, Column, Line
<1>20. ASSUME m.at = "draw" PROVE Stepped(m, r, lim, far)
  <2> DEFINE g == IF m.c = "bs" THEN "blank" ELSE m.c
             d == draw_glyph(m, g)
             next == IF m.c = "bs" THEN "scroll" ELSE "load_x"
  <2>1. r = [d EXCEPT !.at = next]
    BY <1>20, Branches
  <2>2. g \in Chars
    BY <1>2 DEF Chars
  <2>3. Line(m.dy) /\ Column(m.dx, lim)
        /\ Column(m.x, IF m.c = "bs" THEN Width - 8 ELSE lim)
    BY <1>20 DEF InCall
  <2>4. /\ d \in Consoles /\ Near(d.glyphs, far) /\ (m.wild => d.wild)
        /\ d.x = m.x /\ d.y = m.y /\ d.c = m.c
    <3> HIDE DEF g
    <3> QED BY <1>1, <2>2, <2>3, Drawing
  <2> HIDE DEF d
  <2>5. /\ r \in Consoles /\ r.glyphs = d.glyphs /\ r.wild = d.wild /\ r.x = m.x
        /\ r.y = m.y /\ r.c = m.c /\ r.at = next
    BY <2>1, <2>4 DEF Consoles, Stages
  <2> HIDE DEF r
  <2> QED BY <1>1, <1>2, <1>20, <2>3, <2>4, <2>5 DEF Stepped, InCall, Left, Column, Line
<1>21. ASSUME m.at = "scroll", m.y >= Height PROVE Stepped(m, r, lim, far)
  <2>2. /\ r \in Consoles /\ r.x = m.x /\ r.y = Height - 1 /\ r.at = "done" /\ r.c = m.c
        /\ r.glyphs = m.glyphs /\ (m.wild => r.wild)
    BY <1>1, <1>21, ScrollFields
  <2> HIDE DEF r
  <2> QED BY <1>1, <1>2, <1>21, <2>2 DEF Stepped, InCall, Left, Column, Line
<1> QED BY <1>2, <1>3, <1>4, <1>5, <1>6, <1>7, <1>8, <1>9, <1>10, <1>11,
           <1>12, <1>13, <1>14, <1>15, <1>16, <1>17, <1>18, <1>19, <1>20, <1>21 DEF Stages

-----------------------------------------------------------------------------
(* A call that nothing interrupts.                                         *)

\* The glyphs f stand where the cells do.
Pictured(f, cells) ==
    /\ DOMAIN f = {<<8 * p[1], 16 * p[2]>> : p \in DOMAIN cells}
    /\ \A p \in DOMAIN cells : f[<<8 * p[1], 16 * p[2]>>] = cells[p]

LEMMA ShowsIs ==
    ASSUME NEW m, NEW t
    PROVE  Shows(m, t) <=> m.x = 8 * t.col /\ m.y = 16 * t.row /\ Pictured(m.glyphs, t.cells)
BY DEF Shows, Pictured, FONT_WIDTH, FONT_HEIGHT

\* Both get one more.
LEMMA PicturedPainted ==
    ASSUME NEW f \in Pictures, NEW cells \in Pictures, Pictured(f, cells),
           NEW a \in Int, NEW b \in Int, NEW g \in Chars
    PROVE  Pictured(Painted(f, <<8 * a, 16 * b>>, g), Painted(cells, <<a, b>>, g))
<1> DEFINE q == <<8 * a, 16 * b>>
           F == Painted(f, q, g)
           C == Painted(cells, <<a, b>>, g)
           At(p) == <<8 * p[1], 16 * p[2]>>
<1>1. /\ DOMAIN F = DOMAIN f \cup {q}
      /\ \A p \in DOMAIN f \cup {q} : F[p] = IF p = q THEN g ELSE f[p]
  <2>1. PICK u \in Int, v \in Int : u = 8 * a /\ v = 16 * b
    OBVIOUS
  <2>2. /\ DOMAIN Painted(f, <<u, v>>, g) = DOMAIN f \cup {<<u, v>>}
        /\ \A p \in DOMAIN f \cup {<<u, v>>} :
              Painted(f, <<u, v>>, g)[p] = IF p = <<u, v>> THEN g ELSE f[p]
    BY PaintedFacts
  <2> QED BY <2>1, <2>2
<1>2. /\ DOMAIN C = DOMAIN cells \cup {<<a, b>>}
      /\ \A p \in DOMAIN cells \cup {<<a, b>>} : C[p] = IF p = <<a, b>> THEN g ELSE cells[p]
  BY PaintedFacts
<1>3. DOMAIN cells \subseteq Int \X Int
  BY DEF Pictures
<1>4. /\ DOMAIN f = {At(p) : p \in DOMAIN cells}
      /\ \A p \in DOMAIN cells : f[At(p)] = cells[p]
  BY DEF Pictured
<1>5. At(<<a, b>>) = q
  OBVIOUS
<1>6. ASSUME NEW p \in Int \X Int, At(p) = q PROVE p = <<a, b>>
  <2>1. 8 * p[1] = 8 * a /\ 16 * p[2] = 16 * b
    BY <1>6
  <2>2. p[1] = a /\ p[2] = b /\ p = <<p[1], p[2]>>
    BY <2>1
  <2> QED BY <2>2
<1>7. DOMAIN F = {At(p) : p \in DOMAIN C}
  <2> HIDE DEF F, C, At, q
  <2> QED BY <1>1, <1>2, <1>4, <1>5
<1>8. ASSUME NEW p \in DOMAIN C PROVE F[At(p)] = C[p]
  <2>1. CASE p = <<a, b>>
    <3> HIDE DEF F, C, At, q
    <3> QED BY <1>1, <1>2, <1>5, <2>1
  <2>2. CASE p # <<a, b>>
    <3> HIDE DEF F, C, At, q
    <3>1. p \in DOMAIN cells /\ p \in Int \X Int
      BY <1>2, <1>3, <1>8, <2>2
    <3>2. At(p) # q /\ At(p) \in DOMAIN f
      BY <1>4, <1>6, <2>2, <3>1
    <3> QED BY <1>1, <1>2, <1>4, <2>2, <3>1, <3>2
  <2> QED BY <2>1, <2>2
<1> QED BY <1>7, <1>8 DEF Pictured

\* Typed, branch by branch.
LEMMA TypedFields ==
    ASSUME NEW t \in Terminals, NEW c \in Chars
    PROVE  /\ c = "nl" =>
                 /\ Typed(t, c).row = t.row + 1 /\ Typed(t, c).col = 0
                 /\ Typed(t, c).cells = t.cells
           /\ c = "cr" =>
                 /\ Typed(t, c).row = t.row /\ Typed(t, c).col = 0
                 /\ Typed(t, c).cells = t.cells
           /\ c = "bs" =>
                 /\ Typed(t, c).row = t.row
                 /\ Typed(t, c).col = IF t.col = 0 THEN 0 ELSE t.col - 1
                 /\ Typed(t, c).cells = Painted(t.cells, <<Typed(t, c).col, t.row>>, "blank")
           /\ c \notin {"nl", "cr", "bs"} =>
                 /\ t.col + 1 < Columns =>
                       Typed(t, c).row = t.row /\ Typed(t, c).col = t.col + 1
                 /\ t.col + 1 = Columns =>
                       Typed(t, c).row = t.row + 1 /\ Typed(t, c).col = 0
                 /\ Typed(t, c).cells = Painted(t.cells, <<t.col, t.row>>, c)
<1>1. /\ t.row \in Nat /\ t.col \in Nat /\ t.col < Columns /\ t.cells \in Pictures
      /\ t = [row |-> t.row, col |-> t.col, cells |-> t.cells]
  BY DEF Terminals
<1>2. Columns \in Nat /\ 1 <= Columns
  BY Screen
<1>3. ASSUME c = "nl"
      PROVE  Typed(t, c) = [row |-> t.row + 1, col |-> 0, cells |-> t.cells]
  BY <1>1, <1>3 DEF Typed
<1>4. ASSUME c = "cr"
      PROVE  Typed(t, c) = [row |-> t.row, col |-> 0, cells |-> t.cells]
  BY <1>1, <1>4 DEF Typed
<1>5. ASSUME c = "bs"
      PROVE  Typed(t, c) =
                [row |-> t.row, col |-> IF t.col = 0 THEN 0 ELSE t.col - 1,
                 cells |-> Painted(t.cells, <<IF t.col = 0 THEN 0 ELSE t.col - 1, t.row>>,
                                   "blank")]
  BY <1>1, <1>5 DEF Typed
<1>6. ASSUME c \notin {"nl", "cr", "bs"}
      PROVE  Typed(t, c) =
                [row |-> t.row + (t.col + 1) \div Columns, col |-> (t.col + 1) % Columns,
                 cells |-> Painted(t.cells, <<t.col, t.row>>, c)]
  BY <1>6 DEF Typed
<1>7. ASSUME c \notin {"nl", "cr", "bs"}, t.col + 1 < Columns
      PROVE  Typed(t, c).row = t.row /\ Typed(t, c).col = t.col + 1
  <2>1. (t.col + 1) \div Columns = 0 /\ (t.col + 1) % Columns = t.col + 1
    BY <1>1, <1>7, NextColumn
  <2> QED BY <1>1, <1>6, <1>7, <2>1
<1>8. ASSUME c \notin {"nl", "cr", "bs"}, t.col + 1 = Columns
      PROVE  Typed(t, c).row = t.row + 1 /\ Typed(t, c).col = 0
  <2>1. (t.col + 1) \div Columns = 1 /\ (t.col + 1) % Columns = 0
    BY <1>1, <1>8, NextColumn
  <2> QED BY <1>1, <1>6, <1>8, <2>1
<1>9. ASSUME c \notin {"nl", "cr", "bs"}
      PROVE  Typed(t, c).cells = Painted(t.cells, <<t.col, t.row>>, c)
  BY <1>6, <1>9
<1> QED BY <1>3, <1>4, <1>5, <1>7, <1>8, <1>9

\* The screen shows what it should after a call.  With MovesKernel, nothing is
\* shown any more once the text has reached the end of the screen.
Good(m, t) ==
    IF 16 * t.row < Height THEN ~ m.wild /\ Shows(m, t) ELSE MovesKernel => m.wild

\* A call that began when the screen showed t, and that nothing interrupted.
During(m, t) ==
    LET u == Typed(t, m.c)
        back == m.c = "bs"
    IN  /\ m \in Consoles /\ t \in Terminals /\ 16 * t.row < Height
        /\ m.at = "begin" =>
              m.x = 8 * t.col /\ m.y = 16 * t.row /\ Pictured(m.glyphs, t.cells)
        /\ m.at \in {"arg_y", "arg_x", "draw"} =>
              /\ m.c \notin {"nl", "cr"}
              /\ m.x = 8 * (IF back THEN u.col ELSE t.col)
              /\ m.y = 16 * t.row /\ Pictured(m.glyphs, t.cells)
        /\ m.at \in {"arg_x", "draw"} => m.dy = m.y
        /\ m.at = "draw" => m.dx = m.x
        /\ m.at \in {"load_x", "store_x"} =>
              /\ m.c \notin {"nl", "cr"}
              /\ m.x = 8 * t.col /\ m.y = 16 * t.row
              /\ Pictured(m.glyphs, IF back THEN t.cells ELSE u.cells)
              /\ back => t.col # 0
        /\ m.at = "store_x" => m.l = m.x
        /\ m.at \in {"wrap", "return"} =>
              /\ m.c \notin {"nl", "cr", "bs"}
              /\ m.x = 8 * t.col + 8 /\ m.y = 16 * t.row /\ Pictured(m.glyphs, u.cells)
        /\ m.at = "return" => t.col + 1 = Columns
        /\ m.at \in {"load_y", "store_y"} =>
              /\ m.x = 8 * u.col /\ m.y = 16 * t.row /\ u.row = t.row + 1
              /\ Pictured(m.glyphs, u.cells)
        /\ m.at = "store_y" => m.l = m.y
        /\ m.at = "scroll" =>
              m.x = 8 * u.col /\ m.y = 16 * u.row /\ Pictured(m.glyphs, u.cells)
        /\ m.at # "done" => ~ m.wild
        /\ m.at = "done" => Good(m, u)

\* The step that draws, in the framebuffer.
LEMMA DrawFields ==
    ASSUME NEW m \in Consoles, m.at = "draw", InFramebuffer(m.dx, m.dy)
    PROVE  /\ PutStep(m) \in Consoles
           /\ PutStep(m).x = m.x /\ PutStep(m).y = m.y /\ PutStep(m).c = m.c
           /\ PutStep(m).at = IF m.c = "bs" THEN "scroll" ELSE "load_x"
           /\ PutStep(m).wild = m.wild
           /\ PutStep(m).glyphs =
                 Painted(m.glyphs, <<m.dx, m.dy>>, IF m.c = "bs" THEN "blank" ELSE m.c)
<1> DEFINE r == PutStep(m)
<1>1. PICK a \in Int, b \in Int : a = m.dx /\ b = m.dy
  BY DEF Consoles
<1>2. PICK g \in Chars : g = IF m.c = "bs" THEN "blank" ELSE m.c
  BY DEF Consoles, Chars
<1>3. PICK s \in Stages : s = IF m.c = "bs" THEN "scroll" ELSE "load_x"
  BY DEF Stages
<1>4. PICK f \in Pictures : f = Painted(m.glyphs, <<a, b>>, g)
  <2>1. PICK h \in Pictures : h = m.glyphs
    BY DEF Consoles
  <2> QED BY <2>1, PaintedFacts
<1>5. draw_glyph(m, g) = [m EXCEPT !.glyphs = f]
  BY <1>1, <1>4 DEF draw_glyph
<1>6. r = [draw_glyph(m, g) EXCEPT !.at = s]
  BY <1>2, <1>3, Branches
<1> HIDE DEF r
<1>7. /\ r \in Consoles
      /\ r.x = m.x /\ r.y = m.y /\ r.c = m.c /\ r.at = s /\ r.wild = m.wild
      /\ r.glyphs = f
  BY <1>5, <1>6 DEF Consoles
<1> QED BY <1>1, <1>2, <1>3, <1>4, <1>7 DEF r

\* A step of such a call is a step of such a call.
LEMMA DuringStays ==
    ASSUME NEW m, NEW t, During(m, t)
    PROVE  During(PutStep(m), t)
<1> DEFINE r == PutStep(m)
           u == Typed(t, m.c)
<1>1. /\ m \in Consoles /\ t \in Terminals /\ Height \in Nat /\ 16 <= Height
      /\ Height % 16 = 0 /\ Width = 8 * Columns /\ Columns \in Nat /\ 1 <= Columns
  BY Screen DEF During
<1>2. /\ m.x \in Int /\ m.y \in Int /\ m.c \in Chars /\ m.at \in Stages
      /\ m.dx \in Int /\ m.dy \in Int /\ m.l \in Int /\ m.glyphs \in Pictures
  BY <1>1 DEF Consoles
<1>3. /\ t.row \in Nat /\ t.col \in Nat /\ t.col < Columns /\ t.cells \in Pictures
      /\ 16 * t.row < Height
  BY <1>1 DEF During, Terminals
<1>4. /\ u \in Terminals /\ u.row \in Nat /\ u.col \in Nat
  BY <1>1, <1>2, TypedFacts DEF Terminals
<1>5. ASSUME m.at = "begin", m.c = "nl" PROVE During(r, t)
  <2>1. Fields(r, m, 0, m.y, "load_y", m.dx, m.dy, m.l)
    BY <1>1, <1>5, StepFields
  <2>2. u.row = t.row + 1 /\ u.col = 0 /\ u.cells = t.cells
    BY <1>1, <1>2, <1>3, <1>5, TypedFields
  <2>3. m.y = 16 * t.row /\ Pictured(m.glyphs, t.cells) /\ ~ m.wild
    BY <1>5 DEF During
  <2> HIDE DEF r, u
  <2>4. u = Typed(t, r.c)
    BY <2>1 DEF u, Fields
  <2> QED BY <1>1, <1>2, <1>3, <1>4, <1>5, <2>1, <2>2, <2>3, <2>4 DEF During, Fields
<1>6. ASSUME m.at = "begin", m.c = "cr" PROVE During(r, t)
  <2>1. Fields(r, m, 0, m.y, "scroll", m.dx, m.dy, m.l)
    BY <1>1, <1>6, StepFields
  <2>2. u.row = t.row /\ u.col = 0 /\ u.cells = t.cells
    BY <1>1, <1>2, <1>3, <1>6, TypedFields
  <2>3. m.y = 16 * t.row /\ Pictured(m.glyphs, t.cells) /\ ~ m.wild
    BY <1>6 DEF During
  <2> HIDE DEF r, u
  <2>4. u = Typed(t, r.c)
    BY <2>1 DEF u, Fields
  <2> QED BY <1>1, <1>2, <1>3, <1>4, <1>6, <2>1, <2>2, <2>3, <2>4 DEF During, Fields
<1>7. ASSUME m.at = "begin", m.c = "bs", m.x > 0 PROVE During(r, t)
  <2>1. Fields(r, m, m.x, m.y, "load_x", m.dx, m.dy, m.l)
    BY <1>1, <1>7, StepFields
  <2> HIDE DEF r
  <2> QED BY <1>1, <1>2, <1>3, <1>4, <1>7, <2>1, TypedFields DEF During, Fields
<1>8. ASSUME m.at = "begin", m.c = "bs", ~ (m.x > 0) PROVE During(r, t)
  <2>1. Fields(r, m, m.x, m.y, "arg_y", m.dx, m.dy, m.l)
    BY <1>1, <1>8, StepFields
  <2>2. u.col = IF t.col = 0 THEN 0 ELSE t.col - 1
    BY <1>1, <1>2, <1>3, <1>8, TypedFields
  <2>3. m.x = 8 * t.col /\ m.y = 16 * t.row /\ Pictured(m.glyphs, t.cells) /\ ~ m.wild
    BY <1>8 DEF During
  <2> HIDE DEF r, u
  <2>4. u = Typed(t, r.c)
    BY <2>1 DEF u, Fields
  <2> QED BY <1>1, <1>2, <1>3, <1>4, <1>8, <2>1, <2>2, <2>3, <2>4 DEF During, Fields
<1>9. ASSUME m.at = "begin", m.c \notin {"nl", "cr", "bs"} PROVE During(r, t)
  <2>1. Fields(r, m, m.x, m.y, "arg_y", m.dx, m.dy, m.l)
    BY <1>1, <1>9, StepFields
  <2> HIDE DEF r
  <2> QED BY <1>1, <1>2, <1>3, <1>4, <1>9, <2>1, TypedFields DEF During, Fields
<1>10. ASSUME m.at = "arg_y" PROVE During(r, t)
  <2>1. Fields(r, m, m.x, m.y, "arg_x", m.dx, m.y, m.l)
    BY <1>1, <1>10, StepFields
  <2> HIDE DEF r
  <2> QED BY <1>1, <1>2, <1>3, <1>4, <1>10, <2>1, TypedFields DEF During, Fields
<1>11. ASSUME m.at = "arg_x" PROVE During(r, t)
  <2>1. Fields(r, m, m.x, m.y, "draw", m.x, m.dy, m.l)
    BY <1>1, <1>11, StepFields
  <2> HIDE DEF r
  <2> QED BY <1>1, <1>2, <1>3, <1>4, <1>11, <2>1, TypedFields DEF During, Fields
<1>12. ASSUME m.at = "load_x" PROVE During(r, t)
  <2>1. Fields(r, m, m.x, m.y, "store_x", m.dx, m.dy, m.x)
    BY <1>1, <1>12, StepFields
  <2> HIDE DEF r
  <2> QED BY <1>1, <1>2, <1>3, <1>4, <1>12, <2>1, TypedFields DEF During, Fields
<1>13. ASSUME m.at = "store_x", m.c = "bs" PROVE During(r, t)
  <2>1. Fields(r, m, m.l - 8, m.y, "arg_y", m.dx, m.dy, m.l)
    BY <1>1, <1>13, StepFields
  <2>2. u.col = IF t.col = 0 THEN 0 ELSE t.col - 1
    BY <1>1, <1>2, <1>3, <1>13, TypedFields
  <2>3. m.l = 8 * t.col /\ t.col # 0 /\ m.y = 16 * t.row /\ Pictured(m.glyphs, t.cells) /\ ~ m.wild
    BY <1>13 DEF During
  <2> HIDE DEF r, u
  <2>4. u = Typed(t, r.c)
    BY <2>1 DEF u, Fields
  <2> QED BY <1>1, <1>2, <1>3, <1>4, <1>13, <2>1, <2>2, <2>3, <2>4 DEF During, Fields
<1>14. ASSUME m.at = "store_x", m.c # "bs" PROVE During(r, t)
  <2>1. Fields(r, m, m.l + 8, m.y, "wrap", m.dx, m.dy, m.l)
    BY <1>1, <1>14, StepFields
  <2> HIDE DEF r
  <2> QED BY <1>1, <1>2, <1>3, <1>4, <1>14, <2>1, TypedFields DEF During, Fields
<1>15. ASSUME m.at = "wrap", m.x >= Width PROVE During(r, t)
  <2>1. Fields(r, m, m.x, m.y, "return", m.dx, m.dy, m.l)
    BY <1>1, <1>15, StepFields
  <2> HIDE DEF r
  <2> QED BY <1>1, <1>2, <1>3, <1>4, <1>15, <2>1, TypedFields DEF During, Fields
<1>16. ASSUME m.at = "wrap", ~ (m.x >= Width) PROVE During(r, t)
  <2>1. Fields(r, m, m.x, m.y, "scroll", m.dx, m.dy, m.l)
    BY <1>1, <1>16, StepFields
  <2>2. t.col + 1 < Columns /\ m.c \notin {"nl", "cr", "bs"} =>
           u.row = t.row /\ u.col = t.col + 1
    BY <1>1, <1>2, <1>3, <1>16, TypedFields
  <2>3. m.x = 8 * t.col + 8 /\ m.y = 16 * t.row /\ ~ m.wild
        /\ Pictured(m.glyphs, u.cells) /\ m.c \notin {"nl", "cr", "bs"}
    BY <1>16 DEF During
  <2> HIDE DEF r, u
  <2>4. u = Typed(t, r.c)
    BY <2>1 DEF u, Fields
  <2> QED BY <1>1, <1>2, <1>3, <1>4, <1>16, <2>1, <2>2, <2>3, <2>4 DEF During, Fields
<1>17. ASSUME m.at = "return" PROVE During(r, t)
  <2>1. Fields(r, m, 0, m.y, "load_y", m.dx, m.dy, m.l)
    BY <1>1, <1>17, StepFields
  <2>2. t.col + 1 = Columns /\ m.c \notin {"nl", "cr", "bs"} =>
           u.row = t.row + 1 /\ u.col = 0
    BY <1>1, <1>2, <1>3, <1>17, TypedFields
  <2>3. m.x = 8 * t.col + 8 /\ m.y = 16 * t.row /\ ~ m.wild
        /\ Pictured(m.glyphs, u.cells) /\ m.c \notin {"nl", "cr", "bs"} /\ t.col + 1 = Columns
    BY <1>17 DEF During
  <2> HIDE DEF r, u
  <2>4. u = Typed(t, r.c)
    BY <2>1 DEF u, Fields
  <2> QED BY <1>1, <1>2, <1>3, <1>4, <1>17, <2>1, <2>2, <2>3, <2>4 DEF During, Fields
<1>18. ASSUME m.at = "load_y" PROVE During(r, t)
  <2>1. Fields(r, m, m.x, m.y, "store_y", m.dx, m.dy, m.y)
    BY <1>1, <1>18, StepFields
  <2> HIDE DEF r
  <2> QED BY <1>1, <1>2, <1>3, <1>4, <1>18, <2>1, TypedFields DEF During, Fields
<1>19. ASSUME m.at = "store_y" PROVE During(r, t)
  <2>1. Fields(r, m, m.x, m.l + 16, "scroll", m.dx, m.dy, m.l)
    BY <1>1, <1>19, StepFields
  <2> HIDE DEF r
  <2> QED BY <1>1, <1>2, <1>3, <1>4, <1>19, <2>1, TypedFields DEF During, Fields
<1>20. ASSUME m.at = "draw" PROVE During(r, t)
  <2> DEFINE col == IF m.c = "bs" THEN u.col ELSE t.col
  <2>1. /\ m.dx = 8 * col /\ m.dy = 16 * t.row /\ m.x = 8 * col /\ m.y = 16 * t.row
        /\ m.c \notin {"nl", "cr"} /\ Pictured(m.glyphs, t.cells) /\ ~ m.wild
    BY <1>20 DEF During
  <2>2. col \in Nat /\ col < Columns
    BY <1>1, <1>3, <1>4 DEF Terminals
  <2>3. InFramebuffer(m.dx, m.dy)
    <3> HIDE DEF col
    <3>1. 8 * col + 8 <= Width
      BY <1>1, <2>2
    <3>2. 16 * t.row + 16 <= Height
      BY <1>1, <1>3
    <3> QED BY <1>1, <1>3, <2>1, <2>2, <3>1, <3>2 DEF InFramebuffer, FONT_WIDTH, FONT_HEIGHT
  <2>4. ASSUME m.c = "bs" PROVE During(r, t)
    <3>2. "blank" \in Chars
      BY DEF Chars
    <3>3. /\ r \in Consoles
          /\ r.x = m.x /\ r.y = m.y /\ r.c = m.c /\ r.at = "scroll" /\ r.wild = m.wild
          /\ r.glyphs = Painted(m.glyphs, <<m.dx, m.dy>>, "blank")
      BY <1>1, <1>20, <2>3, <2>4, DrawFields
    <3> HIDE DEF r
    <3>4. u.row = t.row /\ u.cells = Painted(t.cells, <<u.col, t.row>>, "blank")
      BY <1>1, <1>2, <2>4, TypedFields
    <3>5. Pictured(r.glyphs, u.cells)
      <4>1. Pictured(Painted(m.glyphs, <<8 * u.col, 16 * t.row>>, "blank"),
                     Painted(t.cells, <<u.col, t.row>>, "blank"))
        <5>1. PICK i \in Int, j \in Int : i = u.col /\ j = t.row
          BY <1>3, <1>4
        <5>2. Pictured(Painted(m.glyphs, <<8 * i, 16 * j>>, "blank"),
                       Painted(t.cells, <<i, j>>, "blank"))
          BY <1>2, <1>3, <2>1, <3>2, PicturedPainted
        <5> QED BY <5>1, <5>2
      <4> QED BY <2>1, <2>4, <3>3, <3>4, <4>1
    <3> HIDE DEF u
    <3>6. u = Typed(t, r.c)
      BY <3>3 DEF u
    <3> QED BY <1>1, <1>3, <2>1, <2>4, <3>3, <3>4, <3>5, <3>6 DEF During
  <2>5. ASSUME m.c # "bs" PROVE During(r, t)
    <3>3. /\ r \in Consoles
          /\ r.x = m.x /\ r.y = m.y /\ r.c = m.c /\ r.at = "load_x" /\ r.wild = m.wild
          /\ r.glyphs = Painted(m.glyphs, <<m.dx, m.dy>>, m.c)
      BY <1>1, <1>20, <2>3, <2>5, DrawFields
    <3> HIDE DEF r
    <3>4. u.cells = Painted(t.cells, <<t.col, t.row>>, m.c)
      BY <1>1, <1>2, <2>1, <2>5, TypedFields
    <3>5. Pictured(r.glyphs, u.cells)
      <4>1. Pictured(Painted(m.glyphs, <<8 * t.col, 16 * t.row>>, m.c),
                     Painted(t.cells, <<t.col, t.row>>, m.c))
        <5>1. PICK i \in Int, j \in Int : i = t.col /\ j = t.row
          BY <1>3
        <5>2. Pictured(Painted(m.glyphs, <<8 * i, 16 * j>>, m.c),
                       Painted(t.cells, <<i, j>>, m.c))
          BY <1>2, <1>3, <2>1, PicturedPainted
        <5> QED BY <5>1, <5>2
      <4> QED BY <2>1, <2>5, <3>3, <3>4, <4>1
    <3> HIDE DEF u
    <3>6. u = Typed(t, r.c)
      BY <3>3 DEF u
    <3> QED BY <1>1, <1>3, <2>1, <2>5, <3>3, <3>4, <3>5, <3>6 DEF During
  <2> QED BY <2>4, <2>5
<1>21. ASSUME m.at = "scroll", ~ (m.y >= Height) PROVE During(r, t)
  <2>1. Fields(r, m, m.x, m.y, "done", m.dx, m.dy, m.l)
    BY <1>1, <1>21, StepFields
  <2>2. m.x = 8 * u.col /\ m.y = 16 * u.row /\ Pictured(m.glyphs, u.cells) /\ ~ m.wild
    BY <1>21 DEF During
  <2> HIDE DEF r, u
  <2>3. Shows(r, u)
    BY <2>1, <2>2, ShowsIs DEF Fields
  <2>4. Good(r, u)
    BY <1>1, <1>2, <1>4, <1>21, <2>1, <2>2, <2>3 DEF Good, Fields
  <2>5. u = Typed(t, r.c)
    BY <2>1 DEF u, Fields
  <2> QED BY <1>1, <1>3, <2>1, <2>4, <2>5 DEF During, Fields
<1>22. ASSUME m.at = "scroll", m.y >= Height PROVE During(r, t)
  <2>1. /\ r \in Consoles /\ r.at = "done" /\ r.c = m.c /\ (r.wild <=> m.wild \/ MovesKernel)
    BY <1>1, <1>22, ScrollFields
  <2>2. m.y = 16 * u.row
    BY <1>22 DEF During
  <2> HIDE DEF r, u
  <2>3. ~ (16 * u.row < Height)
    BY <1>1, <1>2, <1>4, <1>22, <2>2
  <2>4. Good(r, u)
    BY <2>1, <2>3 DEF Good
  <2>5. u = Typed(t, r.c)
    BY <2>1 DEF u
  <2> QED BY <1>1, <1>3, <2>1, <2>4, <2>5 DEF During
<1>23. ASSUME m.at = "done" PROVE During(r, t)
  <2>1. r = m
    BY <1>23, Branches
  <2> QED BY <2>1
<1> QED BY <1>2, <1>5, <1>6, <1>7, <1>8, <1>9, <1>10, <1>11, <1>12, <1>13,
           <1>14, <1>15, <1>16, <1>17, <1>18, <1>19, <1>20, <1>21, <1>22, <1>23 DEF Stages

-----------------------------------------------------------------------------
(* A whole call, and many.                                                 *)

\* The consoles during a call: f[n] has the one after n steps.
Runs(m, c, f) ==
    /\ f[0] = {Called(m, c)}
    /\ \A n \in Nat : n + 1 <= 11 => f[n + 1] = {PutStep(r) : r \in f[n]}
    /\ vga_putchar(m, c) =
          {[r EXCEPT !.c = m.c, !.at = m.at, !.dx = m.dx, !.dy = m.dy, !.l = m.l] : r \in f[11]}

LEMMA RunsExists ==
    ASSUME NEW m, NEW c
    PROVE  \E f : Runs(m, c, f)
<1> DEFINE First == {Called(m, c)}
           Next1(R) == {PutStep(r) : r \in R}
           Goes(f, k) == f = [n \in 0 .. k |-> IF n = 0 THEN First ELSE Next1(f[n - 1])]
           S == {k \in Nat : \E f : Goes(f, k)}
<1>1. 0 \in S
  <2>1. Goes([n \in 0 .. 0 |-> First], 0)
    <3> HIDE DEF First, Next1
    <3> QED OBVIOUS
  <2> QED BY <2>1
<1>2. ASSUME NEW k \in Nat, k \in S PROVE k + 1 \in S
  <2>1. PICK f : Goes(f, k)
    BY <1>2
  <2> DEFINE g == [n \in 0 .. k + 1 |-> IF n <= k THEN f[n] ELSE Next1(f[k])]
  <2> HIDE DEF First, Next1
  <2>2. ASSUME NEW n \in 0 .. k + 1
        PROVE  g[n] = IF n = 0 THEN First ELSE Next1(g[n - 1])
    <3>1. n # 0 => n - 1 \in 0 .. k + 1 /\ n - 1 <= k
      OBVIOUS
    <3>2. n # 0 => g[n - 1] = f[n - 1]
      <4> SUFFICES ASSUME n # 0 PROVE g[n - 1] = f[n - 1]
        OBVIOUS
      <4> QED BY <3>1
    <3>3. CASE n <= k
      <4>1. n \in 0 .. k /\ g[n] = f[n]
        BY <3>3
      <4>2. f[n] = IF n = 0 THEN First ELSE Next1(f[n - 1])
        BY <2>1, <4>1
      <4> HIDE DEF g
      <4> QED BY <3>2, <4>1, <4>2
    <3>4. CASE n = k + 1
      <4>1. g[n] = Next1(f[k]) /\ n # 0 /\ n - 1 = k
        BY <3>4
      <4> HIDE DEF g
      <4> QED BY <3>2, <3>4, <4>1
    <3> QED BY <3>3, <3>4
  <2>3. g = [n \in 0 .. k + 1 |-> g[n]]
    OBVIOUS
  <2>4. Goes(g, k + 1)
    <3> HIDE DEF g
    <3> QED BY <2>2, <2>3
  <2> HIDE DEF g, Goes
  <2> QED BY <2>4
<1>3. 11 \in S
  <2> HIDE DEF S
  <2> QED BY <1>1, <1>2, Induction
<1> DEFINE f == CHOOSE f : Goes(f, 11)
<1>4. Goes(f, 11)
  <2>1. \E g : Goes(g, 11)
    BY <1>3
  <2> HIDE DEF Goes
  <2> QED BY <2>1
<1>5. vga_putchar(m, c) =
         {[r EXCEPT !.c = m.c, !.at = m.at, !.dx = m.dx, !.dy = m.dy, !.l = m.l] : r \in f[11]}
  BY DEF vga_putchar
<1>6. \A n \in 0 .. 11 : f[n] = IF n = 0 THEN First ELSE Next1(f[n - 1])
  <2> HIDE DEF First, Next1, f
  <2> QED BY <1>4
<1>7. f[0] = First
  <2> HIDE DEF First, Next1, f
  <2> QED BY <1>6
<1>8. ASSUME NEW n \in Nat, n + 1 <= 11 PROVE f[n + 1] = Next1(f[n])
  <2> HIDE DEF First, Next1, f
  <2>1. n + 1 \in 0 .. 11 /\ n + 1 # 0 /\ (n + 1) - 1 = n
    BY <1>8
  <2> QED BY <1>6, <2>1
<1>9. \A n \in Nat : n + 1 <= 11 => f[n + 1] = {PutStep(r) : r \in f[n]}
  BY <1>8
<1>10. Runs(m, c, f)
  <2> HIDE DEF f
  <2> QED BY <1>5, <1>7, <1>9 DEF Runs
<1> QED BY <1>10

\* Nothing is left of a call but what it says.
LEMMA LeftFacts ==
    ASSUME NEW m \in Consoles
    PROVE  /\ Left(m) \in 0 .. 11
           /\ Left(m) = 0 => m.at = "done"
<1>1. m.at \in Stages
  BY DEF Consoles
<1> QED BY <1>1 DEF Left, Stages

\* r with the call that m is in.
Restored(r, m) == [r EXCEPT !.c = m.c, !.at = m.at, !.dx = m.dx, !.dy = m.dy, !.l = m.l]

\* What a call of vga_putchar is when it ends.
Ended(m, c, e, lim, far) ==
    /\ InCall(e, lim) /\ Near(e.glyphs, far)
    /\ m.wild => e.wild
    /\ e.at = "done" /\ e.c = c
    /\ \A t : During(Called(m, c), t) => During(e, t)

\* Between two calls.
Calm(m, lim, far) == m \in Consoles /\ Line(m.y) /\ Column(m.x, lim) /\ Near(m.glyphs, far)

LEMMA CallEnds ==
    ASSUME NEW lim \in Int, lim = Width - 8 \/ lim = Width,
           NEW far \in Int, lim <= far,
           NEW m, Calm(m, lim, far), NEW c \in Chars, NEW r \in vga_putchar(m, c)
    PROVE  \E e : /\ Ended(m, c, e, lim, far)
                  /\ r = Restored(e, m)
<1> DEFINE m0 == Called(m, c)
<1>1. /\ m0 \in Consoles /\ m0.x = m.x /\ m0.y = m.y /\ m0.glyphs = m.glyphs
      /\ m0.wild = m.wild /\ m0.c = c /\ m0.at = "begin"
  <2>1. PICK s \in Stages : s = "begin"
    BY DEF Stages
  <2>2. m0 = [m EXCEPT !.c = c, !.at = s]
    BY <2>1 DEF Called
  <2> HIDE DEF m0
  <2>3. m \in Consoles
    BY DEF Calm
  <2>4. /\ m0 \in Consoles /\ m0.x = m.x /\ m0.y = m.y /\ m0.glyphs = m.glyphs
        /\ m0.wild = m.wild /\ m0.c = c /\ m0.at = s
    BY <2>2, <2>3 DEF Consoles
  <2> QED BY <2>1, <2>4
<1>2. PICK f : Runs(m, c, f)
  BY RunsExists
<1> DEFINE On(e) == /\ InCall(e, lim) /\ Near(e.glyphs, far) /\ (m.wild => e.wild) /\ e.c = c
                    /\ \A t : During(m0, t) => During(e, t)
           S == {n \in Nat : n <= 11 => \A e \in f[n] : On(e) /\ Left(e) <= 11 - n}
<1>3. InCall(m0, lim) /\ Near(m0.glyphs, far)
  <2> HIDE DEF m0
  <2> QED BY <1>1 DEF InCall, Calm
<1>4. 0 \in S
  <2>1. On(m0)
    BY <1>1, <1>3
  <2>2. Left(m0) <= 11 - 0
    <3> HIDE DEF m0
    <3> QED BY <1>1, LeftFacts
  <2>3. f[0] = {m0}
    BY <1>2 DEF Runs
  <2> HIDE DEF On, m0
  <2> QED BY <2>1, <2>2, <2>3
<1>5. ASSUME NEW n \in Nat, n \in S PROVE n + 1 \in S
  <2> SUFFICES ASSUME n + 1 <= 11, NEW e \in f[n + 1] PROVE On(e) /\ Left(e) <= 11 - (n + 1)
    OBVIOUS
  <2>1. PICK d \in f[n] : e = PutStep(d)
    BY <1>2 DEF Runs
  <2>2. On(d) /\ Left(d) <= 11 - n
    <3> HIDE DEF On
    <3> QED BY <1>5
  <2>3. Stepped(d, e, lim, far)
    BY <2>1, <2>2, StepStays
  <2>4. \A t : During(d, t) => During(e, t)
    BY <2>1, DuringStays
  <2>5. On(e)
    <3> HIDE DEF m0
    <3> QED BY <2>2, <2>3, <2>4 DEF Stepped
  <2>6. Left(d) \in 0 .. 11 /\ Left(e) \in 0 .. 11
    BY <2>2, <2>3, LeftFacts DEF Stepped, InCall
  <2>7. Left(e) <= 11 - (n + 1)
    <3>1. Left(e) = 0 \/ Left(e) < Left(d)
      BY <2>3 DEF Stepped
    <3> HIDE DEF On
    <3> QED BY <2>2, <2>6, <3>1
  <2> QED BY <2>5, <2>7
<1>6. 11 \in S
  <2> HIDE DEF S
  <2> QED BY <1>4, <1>5, Induction
<1>7. PICK e \in f[11] :
         r = Restored(e, m)
  BY <1>2 DEF Runs, Restored
<1>8. On(e) /\ Left(e) <= 0
  <2> HIDE DEF On
  <2> QED BY <1>6
<1>9. e.at = "done"
  <2>1. e \in Consoles
    BY <1>8 DEF InCall
  <2>2. Left(e) = 0
    BY <1>8, <2>1, LeftFacts
  <2> QED BY <2>1, <2>2, LeftFacts
<1>10. Ended(m, c, e, lim, far)
  BY <1>8, <1>9 DEF Ended
<1> QED BY <1>7, <1>10

\* r is where m was in its own call.
Resumes(r, m) == r.c = m.c /\ r.at = m.at /\ r.dx = m.dx /\ r.dy = m.dy /\ r.l = m.l

\* A call of vga_putchar that nothing interrupts.
LEMMA PutcharFacts ==
    ASSUME NEW lim \in Int, lim = Width - 8 \/ lim = Width,
           NEW far \in Int, lim <= far,
           NEW m, Calm(m, lim, far), NEW c \in Chars, NEW r \in vga_putchar(m, c)
    PROVE  /\ Calm(r, Width - 8, far) /\ Resumes(r, m)
           /\ m.wild => r.wild
           /\ \A t \in Terminals : Good(m, t) => Good(r, Typed(t, c))
<1>1. PICK e : /\ Ended(m, c, e, lim, far)
               /\ r = Restored(e, m)
  BY CallEnds
<1>2. /\ e \in Consoles /\ Line(e.y) /\ Column(e.x, Width - 8) /\ Near(e.glyphs, far)
      /\ m.wild => e.wild
      /\ e.at = "done" /\ e.c = c
  BY <1>1 DEF Ended, InCall
<1>3. m \in Consoles
  BY DEF Calm
<1>4. /\ r \in Consoles /\ Resumes(r, m)
      /\ r.x = e.x /\ r.y = e.y /\ r.glyphs = e.glyphs /\ r.wild = e.wild
  BY <1>1, <1>2, <1>3 DEF Consoles, Resumes, Restored
<1>5. Calm(r, Width - 8, far)
  BY <1>2, <1>4 DEF Calm
<1>6. ASSUME NEW t \in Terminals, Good(m, t) PROVE Good(r, Typed(t, c))
  <2> DEFINE u == Typed(t, c)
  <2>1. u \in Terminals /\ t.row <= u.row /\ t.row \in Nat /\ u.row \in Nat /\ Height \in Nat
    BY TypedFacts, Screen DEF Terminals
  <2>2. CASE 16 * t.row < Height
    <3> DEFINE m0 == Called(m, c)
    <3>1. /\ m0 \in Consoles /\ m0.x = m.x /\ m0.y = m.y /\ m0.glyphs = m.glyphs
          /\ m0.wild = m.wild /\ m0.c = c /\ m0.at = "begin"
      <4>1. PICK s \in Stages : s = "begin"
        BY DEF Stages
      <4>2. m0 = [m EXCEPT !.c = c, !.at = s]
        BY <4>1 DEF Called
      <4> HIDE DEF m0
      <4>3. /\ m0 \in Consoles /\ m0.x = m.x /\ m0.y = m.y /\ m0.glyphs = m.glyphs
            /\ m0.wild = m.wild /\ m0.c = c /\ m0.at = s
        BY <1>3, <4>2 DEF Consoles
      <4> QED BY <4>1, <4>3
    <3>2. /\ ~ m.wild /\ m.x = 8 * t.col /\ m.y = 16 * t.row /\ Pictured(m.glyphs, t.cells)
      BY <1>6, <2>2, ShowsIs DEF Good
    <3>3. During(m0, t)
      <4> HIDE DEF m0
      <4> QED BY <2>2, <3>1, <3>2 DEF During
    <3>4. During(e, t)
      BY <1>1, <3>3 DEF Ended
    <3>5. Good(e, u)
      BY <1>2, <3>4 DEF During
    <3> HIDE DEF u
    <3>6. Shows(e, u) <=> Shows(r, u)
      BY <1>4, ShowsIs
    <3>7. Good(r, u)
      BY <1>4, <3>5, <3>6 DEF Good
    <3> QED BY <3>7 DEF u
  <2>3. CASE ~ (16 * t.row < Height)
    <3>1. MovesKernel => r.wild
      BY <1>2, <1>4, <1>6, <2>3 DEF Good
    <3> HIDE DEF u
    <3>2. ~ (16 * u.row < Height)
      BY <2>1, <2>3
    <3>3. Good(r, u)
      BY <3>1, <3>2 DEF Good
    <3> QED BY <3>3 DEF u
  <2> QED BY <2>2, <2>3
<1> QED BY <1>2, <1>4, <1>5, <1>6

\* vga_print, character by character.
Prints1(R, c) == UNION {vga_putchar(r, c) : r \in R}

PrintRuns(m, s, f) ==
    /\ f[0] = {m}
    /\ \A n \in Nat : n + 1 <= Len(s) => f[n + 1] = Prints1(f[n], s[n + 1])
    /\ vga_print(m, s) = f[Len(s)]

LEMMA PrintRunsExists ==
    ASSUME NEW m, NEW s, Len(s) \in Nat
    PROVE  \E f : PrintRuns(m, s, f)
<1> DEFINE Goes(f, k) == f = [n \in 0 .. k |-> IF n = 0 THEN {m} ELSE Prints1(f[n - 1], s[n])]
           S == {k \in Nat : \E f : Goes(f, k)}
<1>1. 0 \in S
  <2>1. Goes([n \in 0 .. 0 |-> {m}], 0)
    OBVIOUS
  <2> QED BY <2>1
<1>2. ASSUME NEW k \in Nat, k \in S PROVE k + 1 \in S
  <2>1. PICK f : Goes(f, k)
    BY <1>2
  <2> DEFINE g == [n \in 0 .. k + 1 |-> IF n <= k THEN f[n] ELSE Prints1(f[k], s[k + 1])]
  <2>2. ASSUME NEW n \in 0 .. k + 1
        PROVE  g[n] = IF n = 0 THEN {m} ELSE Prints1(g[n - 1], s[n])
    <3>1. n # 0 => n - 1 \in 0 .. k + 1 /\ n - 1 <= k
      OBVIOUS
    <3>2. n # 0 => g[n - 1] = f[n - 1]
      <4> SUFFICES ASSUME n # 0 PROVE g[n - 1] = f[n - 1]
        OBVIOUS
      <4> QED BY <3>1
    <3>3. CASE n <= k
      <4>1. n \in 0 .. k /\ g[n] = f[n]
        BY <3>3
      <4>2. f[n] = IF n = 0 THEN {m} ELSE Prints1(f[n - 1], s[n])
        BY <2>1, <4>1
      <4> HIDE DEF g
      <4> QED BY <3>2, <4>1, <4>2
    <3>4. CASE n = k + 1
      <4>1. g[n] = Prints1(f[k], s[k + 1]) /\ n # 0 /\ n - 1 = k
        BY <3>4
      <4> HIDE DEF g
      <4> QED BY <3>2, <3>4, <4>1
    <3> QED BY <3>3, <3>4
  <2>3. g = [n \in 0 .. k + 1 |-> g[n]]
    OBVIOUS
  <2>4. Goes(g, k + 1)
    <3> HIDE DEF g
    <3> QED BY <2>2, <2>3
  <2> HIDE DEF g, Goes
  <2> QED BY <2>4
<1>3. Len(s) \in S
  <2> HIDE DEF S
  <2> QED BY <1>1, <1>2, Induction
<1> DEFINE f == CHOOSE f : Goes(f, Len(s))
<1>4. Goes(f, Len(s))
  <2>1. \E g : Goes(g, Len(s))
    BY <1>3
  <2> HIDE DEF Goes
  <2> QED BY <2>1
<1>5. vga_print(m, s) = f[Len(s)]
  BY DEF vga_print, Prints1
<1>6. \A n \in 0 .. Len(s) : f[n] = IF n = 0 THEN {m} ELSE Prints1(f[n - 1], s[n])
  <2> HIDE DEF f
  <2> QED BY <1>4
<1>7. f[0] = {m}
  <2> HIDE DEF f
  <2> QED BY <1>6
<1>8. ASSUME NEW n \in Nat, n + 1 <= Len(s) PROVE f[n + 1] = Prints1(f[n], s[n + 1])
  <2> HIDE DEF f
  <2>1. n + 1 \in 0 .. Len(s) /\ n + 1 # 0 /\ (n + 1) - 1 = n
    BY <1>8
  <2> QED BY <1>6, <2>1
<1>9. PrintRuns(m, s, f)
  <2> HIDE DEF f
  <2> QED BY <1>5, <1>7, <1>8 DEF PrintRuns
<1> QED BY <1>9

\* The beginnings of what is printed.
LEMMA Beginnings ==
    ASSUME NEW o \in Seq(Chars), NEW s \in Seq(Chars)
    PROVE  /\ o \o SubSeq(s, 1, 0) = o
           /\ o \o SubSeq(s, 1, Len(s)) = o \o s
           /\ \A n \in 0 .. Len(s) : o \o SubSeq(s, 1, n) \in Seq(Chars)
           /\ \A n \in Nat : n + 1 <= Len(s) =>
                 o \o SubSeq(s, 1, n + 1) = Append(o \o SubSeq(s, 1, n), s[n + 1])
<1>1. SubSeq(s, 1, 0) = <<>> /\ SubSeq(s, 1, Len(s)) = s
  BY SubSeqEmpty, SubSeqFull
<1>2. Len(s) \in Nat /\ \A n \in 1 .. Len(s) : s[n] \in Chars
  BY LenProperties, ElementOfSeq
<1>3. ASSUME NEW n \in 0 .. Len(s) PROVE SubSeq(s, 1, n) \in Seq(Chars)
  <2>1. 1 \in Int /\ n \in Int /\ \A i \in 1 .. n : s[i] \in Chars
    BY <1>2
  <2> QED BY <2>1, SubSeqProperties
<1>4. ASSUME NEW n \in 0 .. Len(s) PROVE o \o SubSeq(s, 1, n) \in Seq(Chars)
  BY <1>3, ConcatProperties
<1>5. ASSUME NEW n \in Nat, n + 1 <= Len(s)
      PROVE  o \o SubSeq(s, 1, n + 1) = Append(o \o SubSeq(s, 1, n), s[n + 1])
  <2>1. n \in 0 .. Len(s) /\ s[n + 1] \in Chars /\ 1 \in 1 .. Len(s) /\ n + 1 \in 1 .. Len(s)
        /\ (n + 1) - 1 = n
    BY <1>2, <1>5
  <2>2. SubSeq(s, 1, n + 1) = SubSeq(s, 1, n) \o <<s[n + 1]>>
    BY <2>1, SubSeqRecursiveSecond
  <2>3. <<s[n + 1]>> \in Seq(Chars) /\ SubSeq(s, 1, n) \in Seq(Chars)
    BY <1>3, <2>1
  <2>4. (o \o SubSeq(s, 1, n)) \o <<s[n + 1]>> = o \o (SubSeq(s, 1, n) \o <<s[n + 1]>>)
    <3> DEFINE a == SubSeq(s, 1, n)
               b == <<s[n + 1]>>
    <3>1. a \in Seq(Chars) /\ b \in Seq(Chars)
      BY <2>3
    <3> HIDE DEF a, b
    <3>2. (o \o a) \o b = o \o (a \o b)
      BY <3>1, ConcatAssociative
    <3> QED BY <3>2 DEF a, b
  <2>5. Append(o \o SubSeq(s, 1, n), s[n + 1]) = (o \o SubSeq(s, 1, n)) \o <<s[n + 1]>>
    BY <1>4, <2>1, AppendIsConcat
  <2> QED BY <2>2, <2>4, <2>5
<1>6. o \o <<>> = o
  BY ConcatEmptySeq
<1> QED BY <1>1, <1>4, <1>5, <1>6

\* vga_print, when nothing interrupts it.
LEMMA PrintFacts ==
    ASSUME NEW far \in Int, Width - 8 <= far,
           NEW m, Calm(m, Width - 8, far), NEW s \in Seq(Chars), NEW r \in vga_print(m, s)
    PROVE  /\ Calm(r, Width - 8, far) /\ Resumes(r, m)
           /\ m.wild => r.wild
           /\ \A o \in Seq(Chars) : Good(m, Terminal(o)) => Good(r, Terminal(o \o s))
<1>1. Len(s) \in Nat /\ \A n \in 1 .. Len(s) : s[n] \in Chars
  BY LenProperties, ElementOfSeq
<1>2. PICK f : PrintRuns(m, s, f)
  BY <1>1, PrintRunsExists
<1> DEFINE On(e, n) ==
              /\ Calm(e, Width - 8, far) /\ Resumes(e, m)
              /\ m.wild => e.wild
              /\ \A o \in Seq(Chars) :
                    Good(m, Terminal(o)) => Good(e, Terminal(o \o SubSeq(s, 1, n)))
           S == {n \in Nat : n <= Len(s) => \A e \in f[n] : On(e, n)}
<1>3. 0 \in S
  <2>1. On(m, 0)
    BY Beginnings DEF Resumes
  <2>2. f[0] = {m}
    BY <1>2 DEF PrintRuns
  <2> HIDE DEF On
  <2> QED BY <2>1, <2>2
<1>4. ASSUME NEW n \in Nat, n \in S PROVE n + 1 \in S
  <2> SUFFICES ASSUME n + 1 <= Len(s), NEW e \in f[n + 1] PROVE On(e, n + 1)
    OBVIOUS
  <2>1. PICK d \in f[n] : e \in vga_putchar(d, s[n + 1])
    BY <1>2 DEF PrintRuns, Prints1
  <2>2. On(d, n)
    <3>1. n <= Len(s)
      BY <1>1
    <3> HIDE DEF On
    <3> QED BY <1>4, <3>1
  <2>3. s[n + 1] \in Chars
    BY <1>1
  <2>4. Width - 8 \in Int
    BY Screen
  <2>5. /\ Calm(e, Width - 8, far) /\ Resumes(e, d)
        /\ d.wild => e.wild
        /\ \A t \in Terminals : Good(d, t) => Good(e, Typed(t, s[n + 1]))
    BY <2>1, <2>2, <2>3, <2>4, PutcharFacts
  <2>6. ASSUME NEW o \in Seq(Chars), Good(m, Terminal(o))
        PROVE  Good(e, Terminal(o \o SubSeq(s, 1, n + 1)))
    <3> DEFINE b == o \o SubSeq(s, 1, n)
    <3>1. b \in Seq(Chars)
      BY <1>1, Beginnings
    <3>2. Good(d, Terminal(b))
      BY <2>2, <2>6
    <3>3. o \o SubSeq(s, 1, n + 1) = Append(b, s[n + 1])
      BY Beginnings
    <3> HIDE DEF b
    <3>4. Terminal(b) \in Terminals /\ Terminal(Append(b, s[n + 1])) = Typed(Terminal(b), s[n + 1])
      BY <2>3, <3>1, TerminalStays, TerminalAppend
    <3> QED BY <2>5, <3>2, <3>3, <3>4
  <2>7. Resumes(e, m)
    BY <2>2, <2>5 DEF Resumes
  <2> QED BY <2>2, <2>5, <2>6, <2>7
<1>5. Len(s) \in S
  <2> HIDE DEF S
  <2> QED BY <1>1, <1>3, <1>4, Induction
<1>6. r \in f[Len(s)]
  BY <1>2 DEF PrintRuns
<1>7. On(r, Len(s))
  <2> HIDE DEF On
  <2> QED BY <1>1, <1>5, <1>6
<1> QED BY <1>7, Beginnings

-----------------------------------------------------------------------------
(* The invariant of Console.                                               *)

\* A call of kernel_main's that nothing has interrupted, begun when the screen
\* showed t; or one after the text reached the end of a screen so small that
\* scrolling moves no memory of the kernel's, when nothing is promised.
Rendering(m, t) == During(m, t) \/ (~ MovesKernel /\ ~ (16 * t.row < Height))

\* The console: where the cursor is, whatever interrupts what; and what is on the
\* screen, as long as nothing was echoed inside a call.
Screened ==
    /\ InCall(con, Width - 8)
    /\ Busy => con.c # "bs"
    /\ phase # "boot" => ~ Busy
    /\ Near(con.glyphs, IF raced THEN Width ELSE Width - 8)
    /\ output \in Seq(Chars)
    /\ ~ raced /\ Busy =>
          \E o \in Seq(Chars) : output = Append(o, con.c) /\ Rendering(con, Terminal(o))
    /\ ~ raced /\ ~ Busy => Good(con, Terminal(output))

Bytes == [key : AllKeys, up : BOOLEAN, char : Chars, half : BOOLEAN]

\* The keyboard: a byte that was sent has been handled, is in the port or behind it.
Device ==
    /\ queue \in Seq(Bytes)
    /\ port \in Bytes \cup {NoByte}
    /\ request => port # NoByte
    /\ port = NoByte => queue = <<>>
    /\ handled \in Nat /\ pressed \in Nat
    /\ handled + (IF port = NoByte THEN 0 ELSE 1) + Len(queue) = pressed
    /\ pressed <= session.bytes

Flags ==
    /\ installed \in BOOLEAN /\ shift \in BOOLEAN /\ caps \in BOOLEAN
    /\ command_ready \in BOOLEAN /\ request \in BOOLEAN /\ early \in BOOLEAN
    /\ raced \in BOOLEAN /\ odd \in BOOLEAN /\ half \in BOOLEAN

\* Where kernel_main is, and the command buffer.
Places ==
    /\ session \in Sessions
    /\ phase \in {"boot", "tasks", "user", "stopped"}
    /\ printed \in 0 .. Len(session.messages)
    /\ buffer_idx \in 0 .. BufferLimit

IInv == Places /\ Flags /\ Device /\ Screened

\* The invariant is what the runs check, and more.
LEMMA IInvSuffices == IInv => Inv
<1> SUFFICES ASSUME IInv PROVE Inv
  OBVIOUS
<1>1. TypeOK
  <2>1. handled <= pressed
    <3>1. Len(queue) \in Nat
      BY LenProperties DEF IInv, Device
    <3> QED BY <3>1 DEF IInv, Device
  <2>2. {installed, shift, caps, command_ready, request, half, early, raced, odd} \subseteq BOOLEAN
    BY DEF IInv, Flags
  <2> QED BY <2>1, <2>2 DEF IInv, Places, Device, TypeOK
<1>2. ASSUME NEW p \in DOMAIN con.glyphs
      PROVE  /\ p[1] \in 0 .. Width /\ p[1] % FONT_WIDTH = 0
             /\ p[2] \in 0 .. Height - FONT_HEIGHT /\ p[2] % FONT_HEIGHT = 0
             /\ p[1] = Width => raced
  BY <1>2, Screen DEF IInv, Screened, Near, Column, FONT_WIDTH, FONT_HEIGHT
<1>3. ASSUME con.wild, ~ raced PROVE Scrolls(FONT_HEIGHT * Terminal(output).row)
  <2>1. output \in Seq(Chars)
    BY DEF IInv, Screened
  <2>2. Terminal(output).row \in Nat /\ Height \in Nat
    BY <2>1, TerminalStays, Screen DEF Terminals
  <2>3. ~ (16 * Terminal(output).row < Height)
    <3>1. CASE Busy
      <4>1. PICK o \in Seq(Chars) : output = Append(o, con.c) /\ Rendering(con, Terminal(o))
        BY <1>3, <3>1 DEF IInv, Screened
      <4>2. con.c \in Chars
        BY DEF IInv, Screened, InCall, Consoles
      <4>3. ~ (16 * Terminal(o).row < Height)
        BY <1>3, <3>1, <4>1 DEF Rendering, During, Busy
      <4>4. Terminal(o).row \in Nat /\ Terminal(o).row <= Terminal(output).row
        <5>1. Terminal(o) \in Terminals
          BY <4>1, TerminalStays
        <5>2. Terminal(output) = Typed(Terminal(o), con.c)
          BY <4>1, <4>2, TerminalAppend
        <5> QED BY <4>2, <5>1, <5>2, TypedFacts DEF Terminals
      <4> QED BY <2>2, <4>3, <4>4
    <3>2. CASE ~ Busy
      BY <1>3, <3>2 DEF IInv, Screened, Good
    <3> QED BY <3>1, <3>2
  <2> QED BY <2>2, <2>3 DEF Scrolls, FONT_HEIGHT
<1> QED BY <1>1, <1>2, <1>3 DEF Inv, DrawnNear

\* And it says what is on the screen.
LEMMA IInvRendered == MovesKernel /\ IInv => Rendered
<1> SUFFICES ASSUME MovesKernel, IInv, ~ Busy, ~ raced, ~ con.wild
             PROVE  Shows(con, Terminal(output))
  BY DEF Rendered
<1> QED BY DEF IInv, Screened, Good

\* In the beginning.
LEMMA InitScreened == Init => IInv
<1> SUFFICES ASSUME Init PROVE IInv
  OBVIOUS
<1>1. BeforeInterrupts \in Seq(Chars)
  <2>1. STRING \subseteq Chars /\ BeforeInterrupts \in Seq(STRING)
    BY TextsAssumption DEF Chars
  <2> QED BY <2>1, SeqMonotonic
<1>2. /\ Cleared \in Consoles /\ Cleared.at = "done" /\ Cleared.x = 0 /\ Cleared.y = 0
      /\ Cleared.wild = FALSE /\ Cleared.glyphs = <<>> /\ DOMAIN Cleared.glyphs = {}
  <2>1. [p \in {} |-> "nul"] = <<>> /\ [p \in {} |-> "nul"] \in [{} -> Chars]
    BY DEF Chars
  <2>2. <<>> \in Pictures
    BY <2>1 DEF Pictures
  <2> QED BY <2>2 DEF Cleared, Consoles, Stages, Chars
<1>3. Calm(Cleared, Width - 8, Width - 8)
  BY <1>2, Screen DEF Calm, Line, Column, Near
<1>4. Good(Cleared, Terminal(<<>>))
  <2>1. Blank.row = 0 /\ Blank.col = 0 /\ Blank.cells = <<>> /\ DOMAIN Blank.cells = {}
    BY DEF Blank
  <2>2. Pictured(Cleared.glyphs, Blank.cells)
    BY <1>2, <2>1 DEF Pictured
  <2> QED BY <1>2, <2>1, <2>2, TerminalEmpty, ShowsIs, Screen DEF Good
<1>5. con \in vga_print(Cleared, BeforeInterrupts) /\ output = BeforeInterrupts
  BY DEF Init
<1>6. /\ Calm(con, Width - 8, Width - 8) /\ Resumes(con, Cleared)
      /\ Good(con, Terminal(<<>> \o BeforeInterrupts))
  <2>1. Width - 8 \in Int /\ Width - 8 <= Width - 8 /\ <<>> \in Seq(Chars)
    BY Screen
  <2> QED BY <1>1, <1>3, <1>4, <1>5, <2>1, PrintFacts
<1>7. con.at = "done"
  BY <1>2, <1>6 DEF Resumes
<1>8. Good(con, Terminal(output))
  BY <1>1, <1>5, <1>6, ConcatEmptySeq
<1>9. InCall(con, Width - 8)
  BY <1>6, <1>7 DEF InCall, Calm
<1>10. Screened
  BY <1>1, <1>5, <1>6, <1>7, <1>8, <1>9 DEF Screened, Busy, Init, Calm
<1>11. Flags
  BY DEF Init, Flags
<1>12. session \in Sessions /\ session.bytes \in Nat /\ session.messages \in Seq(STRING)
  BY SessionsAssumption DEF Init
<1>13. Device
  BY <1>12 DEF Init, Device
<1>14. Places
  <2>1. Len(session.messages) \in Nat
    BY <1>12, LenProperties
  <2> QED BY <1>12, <2>1, BufferLimitAssumption DEF Init, Places
<1> QED BY <1>10, <1>11, <1>13, <1>14 DEF IInv

\* Where kernel_main prints, or nothing does.
LEMMA PrintNextScreened == IInv /\ PrintNext => Screened'
<1> SUFFICES ASSUME IInv, PrintNext PROVE Screened'
  OBVIOUS
<1> DEFINE c == session.messages[printed']
<1>1. c \in Chars /\ c # "bs"
  <2>1. session \in Sessions /\ printed \in 0 .. Len(session.messages)
    BY DEF IInv, Places
  <2>2. /\ session.messages \in Seq(STRING)
        /\ \A i \in DOMAIN session.messages : session.messages[i] # "bs"
    BY <2>1, SessionsAssumption
  <2>3. /\ Len(session.messages) \in Nat
        /\ DOMAIN session.messages = 1 .. Len(session.messages)
    BY <2>2, LenProperties
  <2>4. printed' \in 1 .. Len(session.messages)
    BY <2>1, <2>3 DEF PrintNext
  <2> QED BY <2>2, <2>3, <2>4, ElementOfSeq DEF Chars
<1>2. con' = Called(con, c) /\ output' = Append(output, c) /\ phase' = phase /\ phase = "boot"
      /\ raced' = raced /\ ~ Busy /\ ~ con.wild
  BY DEF PrintNext, history, Stopped
<1> HIDE DEF c
<1>3. /\ con' \in Consoles /\ con'.x = con.x /\ con'.y = con.y /\ con'.glyphs = con.glyphs
      /\ con'.wild = con.wild /\ con'.c = c /\ con'.at = "begin"
  <2>1. PICK s \in Stages : s = "begin"
    BY DEF Stages
  <2>2. con \in Consoles
    BY DEF IInv, Screened, InCall
  <2>3. con' = [con EXCEPT !.c = c, !.at = s]
    BY <1>2, <2>1 DEF Called
  <2>4. /\ con' \in Consoles /\ con'.x = con.x /\ con'.y = con.y /\ con'.glyphs = con.glyphs
        /\ con'.wild = con.wild /\ con'.c = c /\ con'.at = s
    BY <1>1, <2>2, <2>3 DEF Consoles
  <2> QED BY <2>1, <2>4
<1>4. con.at = "done" /\ Busy'
  BY <1>2, <1>3 DEF Busy
<1>5. InCall(con', Width - 8)
  BY <1>3, <1>4 DEF IInv, Screened, InCall
<1>6. output \in Seq(Chars) /\ output' \in Seq(Chars)
  BY <1>1, <1>2, AppendProperties DEF IInv, Screened
<1>7. ASSUME ~ raced
      PROVE  Rendering(con', Terminal(output))
  <2> DEFINE t == Terminal(output)
  <2>1. t \in Terminals
    BY <1>6, TerminalStays
  <2>2. Good(con, t)
    BY <1>2, <1>7 DEF IInv, Screened
  <2> HIDE DEF t
  <2>3. CASE 16 * t.row < Height
    <3>1. con.x = 8 * t.col /\ con.y = 16 * t.row /\ Pictured(con.glyphs, t.cells)
      BY <2>2, <2>3, ShowsIs DEF Good
    <3>2. During(con', t)
      BY <1>2, <1>3, <2>1, <2>3, <3>1 DEF During
    <3> QED BY <3>2 DEF Rendering, t
  <2>4. CASE ~ (16 * t.row < Height)
    BY <1>2, <2>2, <2>4 DEF Rendering, Good, t
  <2> QED BY <2>3, <2>4
<1> QED BY <1>1, <1>2, <1>3, <1>4, <1>5, <1>6, <1>7 DEF IInv, Screened

LEMMA PrintStepScreened == IInv /\ PrintStep => Screened'
<1> SUFFICES ASSUME IInv, PrintStep PROVE Screened'
  OBVIOUS
<1>1. /\ con' = PutStep(con) /\ output' = output /\ raced' = raced
      /\ phase' = phase /\ phase = "boot" /\ Busy /\ con.c # "bs"
  BY DEF PrintStep, history, IInv, Screened
<1> DEFINE far == IF raced THEN Width ELSE Width - 8
<1>2. far \in Int /\ Width - 8 \in Int /\ Width - 8 <= far
  BY Screen
<1>3. InCall(con, Width - 8) /\ Near(con.glyphs, far) /\ output \in Seq(Chars)
  BY DEF IInv, Screened
<1> HIDE DEF far
<1>4. Stepped(con, con', Width - 8, far)
  BY <1>1, <1>2, <1>3, StepStays
<1>5. InCall(con', Width - 8) /\ Near(con'.glyphs, far) /\ con'.c = con.c
  BY <1>4 DEF Stepped
<1>6. con.c \in Chars
  BY <1>3 DEF InCall, Consoles
<1>7. ASSUME NEW o \in Seq(Chars), output = Append(o, con.c), Rendering(con, Terminal(o))
      PROVE  /\ Rendering(con', Terminal(o))
             /\ ~ Busy' => Good(con', Terminal(output))
  <2> DEFINE t == Terminal(o)
             u == Terminal(output)
  <2>1. t \in Terminals /\ u = Typed(t, con.c)
    BY <1>6, <1>7, TerminalStays, TerminalAppend
  <2>2. /\ t.row \in Nat /\ u.row \in Nat /\ t.row <= u.row /\ Height \in Nat
    BY <1>6, <2>1, TypedFacts, Screen DEF Terminals
  <2> HIDE DEF t, u
  <2>3. CASE During(con, t)
    <3>1. During(con', t)
      BY <1>1, <2>3, DuringStays
    <3>2. ~ Busy' => Good(con', u)
      BY <1>5, <2>1, <3>1 DEF During, Busy
    <3> QED BY <3>1, <3>2 DEF Rendering, t, u
  <2>4. CASE ~ MovesKernel /\ ~ (16 * t.row < Height)
    <3>1. ~ (16 * u.row < Height)
      BY <2>2, <2>4
    <3>2. Good(con', u)
      BY <2>4, <3>1 DEF Good
    <3> QED BY <2>4, <3>2 DEF Rendering, t, u
  <2> QED BY <1>7, <2>3, <2>4 DEF Rendering, t
<1>8. ~ raced => \E o \in Seq(Chars) : output = Append(o, con.c) /\ Rendering(con, Terminal(o))
  BY <1>1 DEF IInv, Screened
<1>9. ~ raced =>
         /\ \E o \in Seq(Chars) : output = Append(o, con'.c) /\ Rendering(con', Terminal(o))
         /\ ~ Busy' => Good(con', Terminal(output))
  BY <1>5, <1>7, <1>8
<1> QED BY <1>1, <1>3, <1>5, <1>9 DEF Screened, far

\* An echo.
LEMMA EchoScreened ==
    ASSUME IInv, NEW c \in Chars, Echo(c), phase' = phase
    PROVE  Screened' /\ raced' \in BOOLEAN
<1> DEFINE lim == IF Busy THEN Width ELSE Width - 8
           far == IF raced \/ Busy THEN Width ELSE Width - 8
<1>1. con' \in vga_putchar(con, c) /\ output' = Append(output, c) /\ raced' = (raced \/ Busy)
  BY DEF Echo
<1>2. /\ InCall(con, Width - 8) /\ output \in Seq(Chars)
      /\ Near(con.glyphs, IF raced THEN Width ELSE Width - 8)
  BY DEF IInv, Screened
<1>3. /\ lim \in Int /\ (lim = Width - 8 \/ lim = Width) /\ far \in Int /\ lim <= far
      /\ Width - 8 <= far /\ Width - 8 \in Int /\ Width \in Nat /\ 8 <= Width
  BY Screen
<1>4. Near(con.glyphs, far)
  BY <1>2, Screen DEF Near, Column
<1>5. Column(con.x, lim) /\ con \in Consoles /\ Line(con.y)
  <2>1. con.at \in Stages /\ con.x \in Int
    BY <1>2 DEF InCall, Consoles
  <2>2. CASE Busy
    BY <1>2, <2>1, <2>2, Screen DEF InCall, Stages, Column, Busy
  <2>3. CASE ~ Busy
    BY <1>2, <2>3 DEF InCall, Busy
  <2> QED BY <1>2, <2>2, <2>3 DEF InCall
<1>6. raced' \in BOOLEAN /\ (IF raced' THEN Width ELSE Width - 8) = far
  BY <1>1
<1>7. Calm(con, lim, far)
  BY <1>4, <1>5 DEF Calm
<1> HIDE DEF lim, far
<1>8. /\ Calm(con', Width - 8, far) /\ Resumes(con', con)
      /\ \A t \in Terminals : Good(con, t) => Good(con', Typed(t, c))
  BY <1>1, <1>3, <1>7, PutcharFacts
<1>9. Busy' <=> Busy
  BY <1>8 DEF Resumes, Busy
<1>10. output' \in Seq(Chars)
  BY <1>1, <1>2, AppendProperties
<1>11. InCall(con', Width - 8)
  <2>1. CASE con.c = "bs"
    <3>1. con'.at = "done"
      BY <1>8, <2>1 DEF IInv, Screened, Busy, Resumes
    <3> QED BY <1>8, <3>1 DEF Calm, InCall
  <2>2. CASE con.c # "bs"
    <3>1. Column(con'.x, Width - 8) /\ Column(con'.x, Width - 8 + 8)
      BY <1>3, <1>8 DEF Calm, Column
    <3> QED BY <1>2, <1>8, <2>2, <3>1 DEF Calm, InCall, Resumes
  <2> QED BY <2>1, <2>2
<1>12. ASSUME ~ raced' PROVE ~ Busy' /\ Good(con', Terminal(output'))
  <2>1. ~ raced /\ ~ Busy
    BY <1>1, <1>12
  <2>2. Good(con, Terminal(output)) /\ Terminal(output) \in Terminals
    BY <1>2, <2>1, TerminalStays DEF IInv, Screened
  <2>3. Terminal(output') = Typed(Terminal(output), c)
    BY <1>1, <1>2, TerminalAppend
  <2> QED BY <1>8, <1>9, <2>1, <2>2, <2>3
<1>13. Busy' => con'.c # "bs"
  BY <1>8, <1>9 DEF IInv, Screened, Resumes
<1>14. phase' # "boot" => ~ Busy'
  BY <1>9 DEF IInv, Screened
<1>15. Near(con'.glyphs, IF raced' THEN Width ELSE Width - 8)
  BY <1>6, <1>8 DEF Calm
<1> QED BY <1>6, <1>10, <1>11, <1>12, <1>13, <1>14, <1>15 DEF Screened

\* What prints with interrupts off.
LEMMA PrintsScreened ==
    ASSUME IInv, NEW s \in Seq(Chars), Prints(s), phase # "boot"
    PROVE  Screened'
<1> DEFINE far == IF raced THEN Width ELSE Width - 8
<1>1. /\ con' \in vga_print(con, s) /\ output' = output \o s /\ raced' = raced
  BY DEF Prints, history
<1>2. /\ InCall(con, Width - 8) /\ output \in Seq(Chars) /\ Near(con.glyphs, far) /\ ~ Busy
  BY DEF IInv, Screened
<1>3. far \in Int /\ Width - 8 <= far
  BY Screen
<1> HIDE DEF far
<1>4. Calm(con, Width - 8, far) /\ con.at = "done"
  BY <1>2 DEF InCall, Calm, Busy
<1>5. /\ Calm(con', Width - 8, far) /\ Resumes(con', con)
      /\ \A o \in Seq(Chars) : Good(con, Terminal(o)) => Good(con', Terminal(o \o s))
  BY <1>1, <1>3, <1>4, PrintFacts
<1>6. con'.at = "done"
  BY <1>4, <1>5 DEF Resumes
<1>7. InCall(con', Width - 8)
  BY <1>5, <1>6 DEF InCall, Calm
<1>8. output' \in Seq(Chars)
  BY <1>1, <1>2, ConcatProperties
<1>9. ~ raced => Good(con', Terminal(output'))
  BY <1>1, <1>2, <1>5 DEF IInv, Screened
<1>10. Near(con'.glyphs, IF raced' THEN Width ELSE Width - 8)
  BY <1>1, <1>5 DEF Calm, far
<1> QED BY <1>1, <1>6, <1>7, <1>8, <1>9, <1>10 DEF Screened, Busy

\* Where nothing is printed.
LEMMA SilentScreened ==
    ASSUME IInv, con' = con, output' = output, raced' = raced,
           phase' = phase \/ ~ Busy
    PROVE  Screened'
BY DEF IInv, Screened, Busy

\* A byte is sent.
LEMMA SendKeeps ==
    ASSUME IInv, NEW byte \in Bytes, Send(byte), half' \in BOOLEAN
    PROVE  IInv'
<1>1. /\ con' = con /\ output' = output /\ raced' = raced /\ phase' = phase /\ session' = session
      /\ printed' = printed /\ buffer_idx' = buffer_idx /\ handled' = handled
      /\ installed' = installed /\ shift' = shift /\ caps' = caps
      /\ command_ready' = command_ready
      /\ pressed' = pressed + 1 /\ pressed < session.bytes
      /\ early' = (early \/ ~ installed) /\ odd' = odd
  BY DEF Send, keyboard, history
<1>2. session.bytes \in Nat
  BY SessionsAssumption DEF IInv, Places
<1>3. byte # NoByte
  BY DEF Bytes, NoByte, AllKeys, Shifts, keymap
<1>4. CASE port = NoByte
  <2>1. port' = byte /\ request' = TRUE /\ queue' = queue
    BY <1>4 DEF Send
  <2>2. Device'
    BY <1>1, <1>2, <1>3, <1>4, <2>1 DEF IInv, Device
  <2>3. Flags'
    BY <1>1, <2>1 DEF IInv, Flags
  <2> QED BY <1>1, <2>2, <2>3, SilentScreened DEF IInv, Places
<1>5. CASE port # NoByte
  <2>1. queue' = Append(queue, byte) /\ port' = port /\ request' = request
    BY <1>5 DEF Send
  <2>2. /\ queue \in Seq(Bytes) /\ queue' \in Seq(Bytes)
        /\ Len(queue) \in Nat /\ Len(queue') = Len(queue) + 1
    BY <2>1, AppendProperties, LenProperties DEF IInv, Device
  <2>3. Device'
    BY <1>1, <1>2, <1>5, <2>1, <2>2 DEF IInv, Device
  <2>4. Flags'
    BY <1>1, <2>1 DEF IInv, Flags
  <2> QED BY <1>1, <2>3, <2>4, SilentScreened DEF IInv, Places
<1> QED BY <1>4, <1>5

\* What a key means is a character.
LEMMA MapsToChars ==
    /\ \A key \in DOMAIN keymap : keymap[key] \in Chars /\ keymap_shift[key] \in Chars
    /\ \A c \in Chars : CapsLock(c) \in Chars
<1>1. ASSUME NEW key \in {"letter", "digit", "enter", "backspace", "escape"}
      PROVE  keymap[key] \in Chars /\ keymap_shift[key] \in Chars
  BY <1>1 DEF keymap, keymap_shift, Chars
<1>2. ASSUME NEW c \in Chars PROVE CapsLock(c) \in Chars
  BY DEF CapsLock, Chars
<1>3. DOMAIN keymap = {"letter", "digit", "enter", "backspace", "escape"}
  BY DEF keymap
<1> QED BY <1>1, <1>2, <1>3

LEMMA UserKeeps ==
    ASSUME IInv, NEW key \in session.keys, Press(key) \/ Release(key)
    PROVE  IInv'
<1>1. key \in AllKeys
  BY SessionsAssumption DEF IInv, Places
<1>2. CASE Press(key)
  <2>1. Meant(key) \in Chars
    <3>1. CASE key \in Shifts \cup {"caps_lock"}
      BY <3>1 DEF Meant, Chars
    <3>2. CASE key \notin Shifts \cup {"caps_lock"}
      <4>1. key \in DOMAIN keymap
        BY <1>1, <3>2 DEF AllKeys
      <4>2. Meant(key) = keymap[key] \/ Meant(key) = keymap_shift[key]
        BY <3>2 DEF Meant
      <4> QED BY <4>1, <4>2, MapsToChars
    <3> QED BY <3>1, <3>2
  <2>2. [key |-> key, up |-> FALSE, char |-> Meant(key), half |-> half] \in Bytes
    BY <1>1, <2>1 DEF Bytes, IInv, Flags
  <2>3. half' \in BOOLEAN
    BY <1>2 DEF Press
  <2> QED BY <1>2, <2>2, <2>3, SendKeeps DEF Press
<1>3. CASE Release(key)
  <2>1. [key |-> key, up |-> TRUE, char |-> "nul", half |-> half] \in Bytes
    BY <1>1 DEF Bytes, Chars, IInv, Flags
  <2>2. half' \in BOOLEAN
    BY <1>3 DEF Release, IInv, Flags
  <2> QED BY <1>3, <2>1, <2>2, SendKeeps DEF Release
<1> QED BY <1>2, <1>3

\* The byte in the port is read, and the next one takes its place.
LEMMA ReadKeeps ==
    ASSUME IInv, request, ReadPort, handled' = handled + 1, pressed' = pressed,
           session' = session
    PROVE  /\ Device' /\ request' \in BOOLEAN
           /\ port.key \in AllKeys
<1>1. port # NoByte /\ port \in Bytes /\ queue \in Seq(Bytes) /\ Len(queue) \in Nat
  BY LenProperties DEF IInv, Device
<1>2. request' = (queue # <<>>)
  BY DEF ReadPort
<1>3. port.key \in AllKeys
  BY <1>1 DEF Bytes
<1>4. CASE queue = <<>>
  <2>1. port' = NoByte /\ queue' = <<>> /\ Len(queue) = 0
    BY <1>4 DEF ReadPort
  <2>2. queue' \in Seq(Bytes) /\ Len(queue') = 0 /\ ~ request'
    BY <1>2, <1>4, <2>1, EmptySeq
  <2>3. handled \in Nat /\ pressed \in Nat /\ handled + 1 + 0 = pressed
        /\ pressed <= session.bytes
    BY <1>1, <1>4, <2>1 DEF IInv, Device
  <2>4. Device'
    BY <2>1, <2>2, <2>3 DEF Device
  <2> QED BY <1>2, <1>3, <2>4
<1>5. CASE queue # <<>>
  <2>1. port' = Head(queue) /\ queue' = Tail(queue)
    BY <1>5 DEF ReadPort
  <2>2. /\ port' \in Bytes /\ queue' \in Seq(Bytes)
        /\ Len(queue') \in Nat /\ Len(queue') = Len(queue) - 1
    BY <1>1, <1>5, <2>1, HeadTailProperties, LenProperties
  <2>3. port' # NoByte
    BY <2>2 DEF Bytes, NoByte, AllKeys, Shifts, keymap
  <2>4. Device'
    BY <1>1, <1>2, <1>5, <2>2, <2>3 DEF IInv, Device
  <2> QED BY <1>2, <1>3, <2>4
<1> QED BY <1>4, <1>5

\* What the handler does with a character.
LEMMA CharacterKeeps ==
    ASSUME IInv, NEW c \in Chars, Character(c), phase' = phase
    PROVE  /\ Screened' /\ raced' \in BOOLEAN
           /\ command_ready' \in BOOLEAN /\ odd' \in BOOLEAN
           /\ buffer_idx' \in 0 .. BufferLimit
<1>1. /\ buffer_idx \in 0 .. BufferLimit /\ BufferLimit \in Nat
      /\ command_ready \in BOOLEAN /\ odd \in BOOLEAN /\ raced \in BOOLEAN
  BY BufferLimitAssumption DEF IInv, Places, Flags
<1>2. CASE Silent
  BY <1>1, <1>2, SilentScreened DEF Silent
<1>3. CASE Enter
  <2>1. Echo("nl") /\ "nl" \in Chars
    BY <1>3 DEF Enter, Chars
  <2>2. command_ready' = TRUE /\ odd' = FALSE /\ buffer_idx' = 0
    BY <1>3 DEF Enter
  <2>3. Screened' /\ raced' \in BOOLEAN
    BY <1>1, <2>1, EchoScreened
  <2>4. command_ready' \in BOOLEAN /\ odd' \in BOOLEAN
    BY <2>2
  <2>5. buffer_idx' \in 0 .. BufferLimit
    BY <1>1, <2>2
  <2> QED BY <2>3, <2>4, <2>5
<1>4. CASE /\ c \notin {"nul", "nl"} /\ odd' = (odd \/ port.half \/ (c = "bs" /\ line = <<>>))
           /\ buffer_idx > 0 /\ Backspace
  <2>1. Echo("bs") /\ "bs" \in Chars
    BY <1>4 DEF Backspace, Chars
  <2> QED BY <1>1, <1>4, <2>1, EchoScreened DEF Backspace
<1>5. CASE /\ odd' = (odd \/ port.half \/ (c = "bs" /\ line = <<>>))
           /\ buffer_idx < BufferLimit /\ Store(c)
  <2>1. Echo(c)
    BY <1>5 DEF Store
  <2> QED BY <1>1, <1>5, <2>1, EchoScreened DEF Store
<1>6. CASE /\ odd' = (odd \/ port.half \/ (c = "bs" /\ line = <<>>))
           /\ UNCHANGED <<con, output, raced, command_buffer, buffer_idx, command_ready>>
  BY <1>1, <1>6, SilentScreened
<1> QED BY <1>2, <1>3, <1>4, <1>5, <1>6 DEF Character

LEMMA KeyboardKeeps == IInv /\ keyboard_irq => IInv'
<1> SUFFICES ASSUME IInv, keyboard_irq PROVE IInv'
  OBVIOUS
<1>1. /\ phase' = phase /\ printed' = printed /\ installed' = installed /\ session' = session
      /\ pressed' = pressed /\ early' = early /\ half' = half
      /\ request /\ ReadPort /\ handled' = handled + 1
  BY DEF keyboard_irq, user
<1>2. Device' /\ request' \in BOOLEAN /\ port.key \in AllKeys
  BY <1>1, ReadKeeps
<1>3. /\ shift \in BOOLEAN /\ caps \in BOOLEAN /\ command_ready \in BOOLEAN /\ odd \in BOOLEAN
      /\ raced \in BOOLEAN /\ buffer_idx \in 0 .. BufferLimit
  BY DEF IInv, Flags, Places
<1> DEFINE Goal == /\ Screened' /\ raced' \in BOOLEAN
                   /\ command_ready' \in BOOLEAN /\ odd' \in BOOLEAN
                   /\ buffer_idx' \in 0 .. BufferLimit
                   /\ shift' \in BOOLEAN /\ caps' \in BOOLEAN
<1>4. ASSUME Silent, shift' \in BOOLEAN, caps' \in BOOLEAN PROVE Goal
  BY <1>1, <1>3, <1>4, SilentScreened DEF Silent
<1>5. ASSUME port.key \in DOMAIN keymap,
             Character(CapsLock(IF shift THEN keymap_shift[port.key] ELSE keymap[port.key])),
             shift' = shift, caps' = caps
      PROVE  Goal
  <2>1. PICK d \in Chars : d = IF shift THEN keymap_shift[port.key] ELSE keymap[port.key]
    BY <1>5, MapsToChars
  <2>2. PICK c \in Chars : c = CapsLock(d)
    BY MapsToChars
  <2>3. Character(c)
    BY <1>5, <2>1, <2>2
  <2> QED BY <1>1, <1>3, <1>5, <2>3, CharacterKeeps
<1>6. Goal
  <2> HIDE DEF Goal
  <2> QED BY <1>3, <1>4, <1>5 DEF keyboard_irq
<1>7. Flags'
  BY <1>1, <1>2, <1>6 DEF IInv, Flags
<1>8. Places'
  BY <1>1, <1>6 DEF IInv, Places
<1> QED BY <1>2, <1>6, <1>7, <1>8 DEF IInv

LEMMA NextKeeps == IInv /\ [Next]_vars => IInv'
<1> SUFFICES ASSUME IInv, [Next]_vars PROVE IInv'
  OBVIOUS
<1>1. CASE PrintNext
  <2>1. Screened'
    BY <1>1, PrintNextScreened
  <2>2. printed' \in 0 .. Len(session.messages)
    <3>1. session.messages \in Seq(STRING)
      BY SessionsAssumption DEF IInv, Places
    <3>2. Len(session.messages) \in Nat
      BY <3>1, LenProperties
    <3> QED BY <1>1, <3>2 DEF PrintNext, IInv, Places
  <2> QED BY <1>1, <2>1, <2>2
          DEF PrintNext, IInv, Places, Flags, Device, keyboard, device, user, history
<1>2. CASE PrintStep
  <2>1. Screened'
    BY <1>2, PrintStepScreened
  <2> QED BY <1>2, <2>1
          DEF PrintStep, IInv, Places, Flags, Device, keyboard, device, user, history
<1>3. CASE keyboard_init
  <2>1. Screened'
    BY <1>3, SilentScreened DEF keyboard_init, history
  <2> QED BY <1>3, <2>1
          DEF keyboard_init, IInv, Places, Flags, Device, keyboard, device, user, history
<1>4. CASE Handoff
  <2>1. Screened'
    BY <1>4, SilentScreened DEF Handoff, history
  <2> QED BY <1>4, <2>1
          DEF Handoff, IInv, Places, Flags, Device, keyboard, device, user, history
<1>5. Welcome \in Seq(Chars) /\ LastWords \in Seq(Chars) /\ Writes \subseteq Seq(Chars)
      /\ <<>> \in Seq(Chars)
  <2>1. STRING \subseteq Chars
    BY DEF Chars
  <2>2. ASSUME NEW s \in Seq(STRING) PROVE s \in Seq(Chars)
    BY <2>1, SeqMonotonic
  <2> QED BY <2>2, TextsAssumption, EmptySeq
<1>6. CASE userspace_init
  <2>1. Screened'
    BY <1>5, <1>6, PrintsScreened DEF userspace_init
  <2> QED BY <1>6, <2>1
          DEF userspace_init, Prints, IInv, Places, Flags, Device, keyboard, device, user,
              history
<1>7. CASE sys_write_handler
  <2>1. PICK fd \in {1, 2}, s \in Writes : Prints(IF fd = 1 THEN s ELSE <<>>)
    BY <1>7 DEF sys_write_handler
  <2>2. PICK w \in Seq(Chars) : w = IF fd = 1 THEN s ELSE <<>>
    BY <1>5
  <2>3. Prints(w) /\ phase # "boot"
    BY <1>7, <2>1, <2>2 DEF sys_write_handler
  <2>4. Screened'
    BY <2>3, PrintsScreened
  <2>5. phase' = phase
    BY <1>7 DEF sys_write_handler
  <2> QED BY <2>3, <2>4, <2>5
          DEF Prints, IInv, Places, Flags, Device, keyboard, device, user, history
<1>8. CASE sys_exit_handler
  <2>1. Screened'
    BY <1>5, <1>8, PrintsScreened DEF sys_exit_handler
  <2> QED BY <1>8, <2>1
          DEF sys_exit_handler, Prints, IInv, Places, Flags, Device, keyboard, device, user,
              history
<1>9. CASE User
  BY <1>9, UserKeeps DEF User
<1>10. CASE keyboard_irq
  BY <1>10, KeyboardKeeps
<1>11. CASE irq_handler_none
  <2>1. Screened'
    BY <1>11, SilentScreened DEF irq_handler_none, history
  <2> QED BY <1>11, <2>1
          DEF irq_handler_none, IInv, Places, Flags, Device, keyboard, user, history
<1>12. CASE UNCHANGED vars
  <2>1. Screened'
    BY <1>12, SilentScreened DEF vars, history
  <2> QED BY <1>12, <2>1
          DEF vars, IInv, Places, Flags, Device, keyboard, device, user, history
<1> QED BY <1>1, <1>2, <1>3, <1>4, <1>6, <1>7, <1>8, <1>9, <1>10, <1>11, <1>12
        DEF Next, Boot, Ring3, syscall_handler, Interrupt

-----------------------------------------------------------------------------
(* The command.                                                            *)

\* What a byte does to the driver's shift and caps lock.
ShiftAfter(b, sh) == IF b.key \in Shifts THEN ~ b.up ELSE sh
CapsAfter(b, cp)  == IF ~ b.up /\ b.key = "caps_lock" THEN ~ cp ELSE cp

\* The character that the driver, in this state, takes a key for.
Taken(key, sh, cp) ==
    LET c == IF sh THEN keymap_shift[key] ELSE keymap[key]
    IN  IF cp /\ c = "a" THEN "A" ELSE IF cp /\ c = "A" THEN "a" ELSE c

\* The byte b was meant as the driver will take it in this state, or one of two
\* shift keys had been released when it was sent.
AsMeant(b, sh, cp) ==
    /\ b.char = "nl" <=> ~ b.up /\ b.key = "enter"
    /\ ~ b.half =>
          b.char = IF b.up \/ b.key \notin DOMAIN keymap THEN "nul" ELSE Taken(b.key, sh, cp)

\* What the driver makes of the shift keys when it has handled every byte.
Shifted == held \cap Shifts # {} /\ ~ half

\* What is still to be handled: sh[i] and cp[i] are the states the driver will be
\* in when it has handled the byte in the port and i bytes of the queue.  At the
\* end it is in the state the user's keys are in.
Ahead(sh, cp) ==
    /\ sh \in [0 .. Len(queue) -> BOOLEAN] /\ cp \in [0 .. Len(queue) -> BOOLEAN]
    /\ port = NoByte => sh[0] = shift /\ cp[0] = caps
    /\ port # NoByte =>
          /\ AsMeant(port, shift, caps)
          /\ sh[0] = ShiftAfter(port, shift) /\ cp[0] = CapsAfter(port, caps)
    /\ \A i \in 1 .. Len(queue) :
          /\ AsMeant(queue[i], sh[i - 1], cp[i - 1])
          /\ sh[i] = ShiftAfter(queue[i], sh[i - 1]) /\ cp[i] = CapsAfter(queue[i], cp[i - 1])
    /\ sh[Len(queue)] = Shifted /\ cp[Len(queue)] = lock

\* The command buffer has the line so far.
Buffered ==
    /\ line \in Seq(Chars) /\ Len(line) = buffer_idx
    /\ \A i \in 1 .. Len(line) : line[i] # "nul" /\ command_buffer[i - 1] = line[i]

\* The driver will understand what was meant, and the buffer has it, as long as
\* nothing in this line was odd.
Understood ==
    /\ lock \in BOOLEAN
    /\ DOMAIN command_buffer = 0 .. BufferLimit
    /\ ~ odd => Buffered
    /\ \E sh, cp : Ahead(sh, cp)

\* Nobody uses a key and no byte is handled.
LEMMA UnderstoodStays ==
    ASSUME Understood, UNCHANGED <<shift, caps, command_buffer, buffer_idx, port, queue>>,
           UNCHANGED <<held, lock, half, line, odd>>
    PROVE  Understood'
<1>1. odd' = odd /\ lock' = lock /\ command_buffer' = command_buffer
  OBVIOUS
<1>2. Buffered => Buffered'
  BY DEF Buffered
<1>3. \A sh, cp : Ahead(sh, cp) => Ahead(sh, cp)'
  BY DEF Ahead, Shifted
<1> QED BY <1>1, <1>2, <1>3 DEF Understood

\* A key is taken for what it means.
LEMMA MeantIsTaken ==
    ASSUME NEW key \in DOMAIN keymap, lock \in BOOLEAN
    PROVE  Meant(key) = Taken(key, held \cap Shifts # {}, lock)
<1>1. key \in {"letter", "digit", "enter", "backspace", "escape"}
  BY DEF keymap
<1>2. key \notin Shifts \cup {"caps_lock"}
  BY <1>1 DEF Shifts
<1>3. CASE held \cap Shifts # {}
  BY <1>1, <1>2, <1>3 DEF Meant, Taken, keymap, keymap_shift
<1>4. CASE held \cap Shifts = {}
  BY <1>1, <1>2, <1>4 DEF Meant, Taken, keymap, keymap_shift
<1> QED BY <1>3, <1>4

\* A byte that was meant as it will be taken goes to the end.
LEMMA SendUnderstood ==
    ASSUME IInv, Understood, NEW byte \in Bytes, Send(byte),
           AsMeant(byte, Shifted, lock), Shifted' = ShiftAfter(byte, Shifted),
           lock' = CapsAfter(byte, lock), lock' \in BOOLEAN
    PROVE  Understood'
<1>1. PICK sh, cp : Ahead(sh, cp)
  BY DEF Understood
<1>2. (~ odd => Buffered) /\ lock \in BOOLEAN
  BY DEF Understood
<1>3. /\ UNCHANGED <<shift, caps, command_buffer, buffer_idx, line, odd>>
  BY DEF Send, keyboard, history
<1>4. ~ odd' => Buffered'
  BY <1>2, <1>3 DEF Buffered
<1>5. byte # NoByte
  BY DEF Bytes, NoByte, AllKeys, Shifts, keymap
<1>6. PICK n \in Nat : n = Len(queue)
  BY LenProperties DEF IInv, Device
<1>7. PICK h \in BOOLEAN : h = Shifted
  BY DEF Shifted
<1>8. PICK h2 \in BOOLEAN : h2 = Shifted'
  BY DEF Shifted
<1>9. CASE port = NoByte
  <2>1. port' = byte /\ queue' = queue /\ Len(queue) = 0
    BY <1>9, EmptySeq DEF Send, IInv, Device
  <2>2. h = shift /\ lock = caps
    BY <1>1, <1>7, <1>9, <2>1 DEF Ahead
  <2>3. PICK g : g = [i \in 0 .. 0 |-> h2]
    OBVIOUS
  <2>4. PICK k : k = [i \in 0 .. 0 |-> lock']
    OBVIOUS
  <2>5. Ahead(g, k)'
    <3>1. port' # NoByte /\ AsMeant(port', shift', caps')
      BY <1>3, <1>5, <1>7, <2>1, <2>2
    <3>2. g[0] = ShiftAfter(port', shift') /\ k[0] = CapsAfter(port', caps')
      BY <1>3, <1>7, <1>8, <2>1, <2>2, <2>3, <2>4
    <3>3. Len(queue') = 0 /\ 1 .. 0 = {}
      BY <2>1
    <3>4. g[0] = Shifted' /\ k[0] = lock'
      BY <1>8, <2>3, <2>4
    <3>5. g \in [0 .. 0 -> BOOLEAN] /\ k \in [0 .. 0 -> BOOLEAN]
      BY <1>8, <2>3, <2>4
    <3> QED BY <3>1, <3>2, <3>3, <3>4, <3>5 DEF Ahead
  <2> QED BY <1>3, <1>4, <2>5 DEF Understood
<1>10. CASE port # NoByte
  <2>1. port' = port /\ queue' = Append(queue, byte)
    BY <1>10 DEF Send
  <2>2. /\ Len(queue') = n + 1 /\ queue'[n + 1] = byte
        /\ \A i \in 1 .. n : queue'[i] = queue[i]
    BY <1>6, <2>1, AppendProperties DEF IInv, Device
  <2>3. PICK g : g = [i \in 0 .. n + 1 |-> IF i <= n THEN sh[i] ELSE h2]
    OBVIOUS
  <2>4. PICK k : k = [i \in 0 .. n + 1 |-> IF i <= n THEN cp[i] ELSE lock']
    OBVIOUS
  <2>5. /\ sh \in [0 .. n -> BOOLEAN] /\ cp \in [0 .. n -> BOOLEAN]
        /\ AsMeant(port, shift, caps)
        /\ sh[0] = ShiftAfter(port, shift) /\ cp[0] = CapsAfter(port, caps)
        /\ \A i \in 1 .. n :
              /\ AsMeant(queue[i], sh[i - 1], cp[i - 1])
              /\ sh[i] = ShiftAfter(queue[i], sh[i - 1])
              /\ cp[i] = CapsAfter(queue[i], cp[i - 1])
        /\ sh[n] = h /\ cp[n] = lock
    BY <1>1, <1>6, <1>7, <1>10 DEF Ahead
  <2>6. g \in [0 .. n + 1 -> BOOLEAN] /\ k \in [0 .. n + 1 -> BOOLEAN]
    <3>1. \A i \in 0 .. n + 1 : i <= n => i \in 0 .. n
      OBVIOUS
    <3>2. PICK l2 \in BOOLEAN : l2 = lock'
      OBVIOUS
    <3>3. \A i \in 0 .. n + 1 : (IF i <= n THEN sh[i] ELSE h2) \in BOOLEAN
      BY <1>8, <2>5, <3>1
    <3>4. \A i \in 0 .. n + 1 : (IF i <= n THEN cp[i] ELSE l2) \in BOOLEAN
      BY <2>5, <3>1, <3>2
    <3>5. k = [i \in 0 .. n + 1 |-> IF i <= n THEN cp[i] ELSE l2]
      BY <2>4, <3>2
    <3>6. g \in [0 .. n + 1 -> BOOLEAN]
      BY <2>3, <3>3
    <3>7. k \in [0 .. n + 1 -> BOOLEAN]
      BY <3>4, <3>5
    <3> QED BY <3>6, <3>7
  <2>7. /\ \A i \in 0 .. n : g[i] = sh[i] /\ k[i] = cp[i]
        /\ g[n + 1] = h2 /\ k[n + 1] = lock'
    BY <2>3, <2>4
  <2>8. ASSUME NEW i \in 1 .. n + 1
        PROVE  /\ AsMeant(queue'[i], g[i - 1], k[i - 1])
               /\ g[i] = ShiftAfter(queue'[i], g[i - 1])
               /\ k[i] = CapsAfter(queue'[i], k[i - 1])
    <3>1. CASE i \in 1 .. n
      <4>1. i \in 0 .. n /\ i - 1 \in 0 .. n
        BY <3>1
      <4> QED BY <2>2, <2>5, <2>7, <3>1, <4>1
    <3>2. CASE i = n + 1
      <4>1. n \in 0 .. n /\ i - 1 = n
        BY <3>2
      <4>2. queue'[i] = byte /\ g[i - 1] = h /\ k[i - 1] = lock /\ g[i] = h2 /\ k[i] = lock'
        BY <2>2, <2>5, <2>7, <3>2, <4>1
      <4> QED BY <1>7, <1>8, <4>2
    <3> QED BY <3>1, <3>2
  <2>9. Ahead(g, k)'
    <3>1. port' # NoByte /\ AsMeant(port', shift', caps')
      BY <1>3, <1>10, <2>1, <2>5
    <3>2. g[0] = ShiftAfter(port', shift') /\ k[0] = CapsAfter(port', caps')
      BY <1>3, <2>1, <2>5, <2>7
    <3>3. g[n + 1] = Shifted' /\ k[n + 1] = lock'
      BY <1>8, <2>7
    <3> QED BY <2>2, <2>6, <2>8, <3>1, <3>2, <3>3 DEF Ahead
  <2> QED BY <1>3, <1>4, <2>9 DEF Understood
<1> QED BY <1>9, <1>10

LEMMA UserUnderstood ==
    ASSUME IInv, Understood, NEW key \in session.keys, Press(key) \/ Release(key)
    PROVE  Understood'
<1>1. key \in AllKeys
  BY SessionsAssumption DEF IInv, Places
<1>2. lock \in BOOLEAN /\ half \in BOOLEAN
  BY DEF Understood, IInv, Flags
<1>3. /\ DOMAIN keymap \cap (Shifts \cup {"caps_lock"}) = {}
      /\ "caps_lock" \notin Shifts
  BY DEF keymap, Shifts
<1>4. CASE Press(key)
  <2> DEFINE byte == [key |-> key, up |-> FALSE, char |-> Meant(key), half |-> half]
  <2>1. ~ half => Meant(key) = IF key \notin DOMAIN keymap THEN "nul"
                               ELSE Taken(key, Shifted, lock)
    <3>1. CASE key \in DOMAIN keymap /\ ~ half
      <4>1. PICK h \in BOOLEAN : h = (held \cap Shifts # {})
        OBVIOUS
      <4>2. Shifted = h
        BY <3>1, <4>1 DEF Shifted
      <4> QED BY <1>2, <3>1, <4>1, <4>2, MeantIsTaken
    <3>2. CASE key \notin DOMAIN keymap
      BY <1>1, <3>2 DEF AllKeys, Meant
    <3> QED BY <3>1, <3>2
  <2>2. AsMeant(byte, Shifted, lock)
    <3>1. Meant(key) = "nl" <=> key = "enter"
      <4>1. CASE key \in Shifts \cup {"caps_lock"}
        BY <4>1 DEF Meant, Shifts
      <4>2. CASE key \in {"letter", "digit", "enter", "backspace", "escape"}
        <5>1. key \notin Shifts \cup {"caps_lock"}
          BY <4>2 DEF Shifts
        <5> QED BY <4>2, <5>1 DEF Meant, keymap, keymap_shift
      <4> QED BY <1>1, <4>1, <4>2 DEF AllKeys, keymap
    <3> QED BY <2>1, <3>1 DEF AsMeant
  <2>3. Meant(key) \in Chars
    <3>1. CASE key \in Shifts \cup {"caps_lock"}
      BY <3>1 DEF Meant, Chars
    <3>2. CASE key \notin Shifts \cup {"caps_lock"}
      <4>1. key \in DOMAIN keymap
        BY <1>1, <3>2 DEF AllKeys
      <4>2. Meant(key) = keymap[key] \/ Meant(key) = keymap_shift[key]
        BY <3>2 DEF Meant
      <4> QED BY <4>1, <4>2, MapsToChars
    <3> QED BY <3>1, <3>2
  <2>4. byte \in Bytes
    BY <1>1, <1>2, <2>3 DEF Bytes
  <2>5. /\ Send(byte) /\ held' = held \cup {key} /\ half' = (half /\ key \notin Shifts)
        /\ lock' = IF key = "caps_lock" THEN ~ lock ELSE lock
    BY <1>4 DEF Press
  <2>6. Shifted' = ShiftAfter(byte, Shifted)
    BY <2>5 DEF ShiftAfter, Shifted
  <2>7. lock' = CapsAfter(byte, lock) /\ lock' \in BOOLEAN
    BY <1>2, <2>5 DEF CapsAfter
  <2> HIDE DEF byte
  <2> QED BY <2>2, <2>4, <2>5, <2>6, <2>7, SendUnderstood
<1>5. CASE Release(key)
  <2> DEFINE byte == [key |-> key, up |-> TRUE, char |-> "nul", half |-> half]
  <2>1. /\ Send(byte) /\ key \in held /\ held' = held \ {key} /\ lock' = lock
        /\ half' = IF key \in Shifts THEN Shifts \subseteq held ELSE half
    BY <1>5 DEF Release
  <2>2. AsMeant(byte, Shifted, lock)
    BY DEF AsMeant
  <2>3. byte \in Bytes
    BY <1>1, <1>2 DEF Bytes, Chars
  <2>4. lock' = CapsAfter(byte, lock) /\ lock' \in BOOLEAN
    BY <1>2, <2>1 DEF CapsAfter
  <2>5. Shifted' = ShiftAfter(byte, Shifted)
    <3>1. CASE key \in Shifts
      <4>1. held' \cap Shifts # {} <=> Shifts \subseteq held
        BY <2>1, <3>1 DEF Shifts
      <4> QED BY <2>1, <3>1, <4>1 DEF ShiftAfter, Shifted
    <3>2. CASE key \notin Shifts
      <4>1. held' \cap Shifts = held \cap Shifts
        BY <2>1, <3>2
      <4> QED BY <2>1, <3>2, <4>1 DEF ShiftAfter, Shifted
    <3> QED BY <3>1, <3>2
  <2> HIDE DEF byte
  <2> QED BY <2>1, <2>2, <2>3, <2>4, <2>5, SendUnderstood
<1> QED BY <1>4, <1>5

\* A byte is handled: it leaves the port, and the driver is where it was to be.
LEMMA ReadAhead ==
    ASSUME IInv, request, ReadPort, NEW sh, NEW cp, Ahead(sh, cp),
           shift' = ShiftAfter(port, shift), caps' = CapsAfter(port, caps),
           held' = held, lock' = lock, half' = half
    PROVE  /\ AsMeant(port, shift, caps)
           /\ \E g, k : Ahead(g, k)'
<1>1. port # NoByte /\ queue \in Seq(Bytes)
  BY DEF IInv, Device
<1>2. PICK n \in Nat : n = Len(queue)
  BY <1>1, LenProperties
<1>3. /\ sh \in [0 .. n -> BOOLEAN] /\ cp \in [0 .. n -> BOOLEAN]
      /\ AsMeant(port, shift, caps)
      /\ sh[0] = shift' /\ cp[0] = caps'
      /\ \A i \in 1 .. n :
            /\ AsMeant(queue[i], sh[i - 1], cp[i - 1])
            /\ sh[i] = ShiftAfter(queue[i], sh[i - 1])
            /\ cp[i] = CapsAfter(queue[i], cp[i - 1])
      /\ sh[n] = Shifted' /\ cp[n] = lock'
  BY <1>1, <1>2 DEF Ahead, Shifted
<1>4. CASE queue = <<>>
  <2>1. port' = NoByte /\ queue' = <<>> /\ Len(queue') = 0 /\ n = 0
    BY <1>2, <1>4, EmptySeq DEF ReadPort
  <2>2. 1 .. 0 = {}
    OBVIOUS
  <2>3. Ahead(sh, cp)'
    BY <1>3, <2>1, <2>2 DEF Ahead
  <2> QED BY <1>3, <2>3
<1>5. CASE queue # <<>>
  <2>1. port' = Head(queue) /\ queue' = Tail(queue)
    BY <1>5 DEF ReadPort
  <2>2. /\ port' \in Bytes /\ n >= 1 /\ n - 1 \in Nat /\ Len(queue') = n - 1
        /\ \A i \in 1 .. n - 1 : queue'[i] = queue[i + 1]
    BY <1>1, <1>2, <1>5, <2>1, HeadTailProperties, EmptySeq
  <2>3. port' = queue[1] /\ port' # NoByte
    <3>1. port' = queue[1]
      BY <1>1, <1>2, <1>5, <2>1, <2>2
    <3> QED BY <2>2, <3>1 DEF Bytes, NoByte, AllKeys, Shifts, keymap
  <2>4. PICK g : g = [i \in 0 .. n - 1 |-> sh[i + 1]]
    OBVIOUS
  <2>5. PICK k : k = [i \in 0 .. n - 1 |-> cp[i + 1]]
    OBVIOUS
  <2>6. g \in [0 .. n - 1 -> BOOLEAN] /\ k \in [0 .. n - 1 -> BOOLEAN]
    BY <1>3, <2>2, <2>4, <2>5
  <2>7. \A i \in 0 .. n - 1 : g[i] = sh[i + 1] /\ k[i] = cp[i + 1]
    BY <2>4, <2>5
  <2>8. /\ AsMeant(port', shift', caps')
        /\ g[0] = ShiftAfter(port', shift') /\ k[0] = CapsAfter(port', caps')
    <3>1. 1 \in 1 .. n /\ 0 \in 0 .. n - 1 /\ 1 - 1 = 0 /\ 0 + 1 = 1
      BY <2>2
    <3> QED BY <1>3, <2>3, <2>7, <3>1
  <2>9. ASSUME NEW i \in 1 .. n - 1
        PROVE  /\ AsMeant(queue'[i], g[i - 1], k[i - 1])
               /\ g[i] = ShiftAfter(queue'[i], g[i - 1])
               /\ k[i] = CapsAfter(queue'[i], k[i - 1])
    <3>1. i \in 0 .. n - 1 /\ i - 1 \in 0 .. n - 1 /\ i + 1 \in 1 .. n
          /\ (i + 1) - 1 = i /\ (i - 1) + 1 = i
      BY <2>2
    <3> QED BY <1>3, <2>2, <2>7, <3>1
  <2>10. g[n - 1] = Shifted' /\ k[n - 1] = lock'
    <3>1. n - 1 \in 0 .. n - 1 /\ (n - 1) + 1 = n
      BY <2>2
    <3> QED BY <1>3, <2>7, <3>1
  <2>11. Ahead(g, k)'
    BY <2>2, <2>3, <2>6, <2>8, <2>9, <2>10 DEF Ahead
  <2> QED BY <1>3, <2>11
<1> QED BY <1>4, <1>5

\* What the handler does with a character that was meant.
LEMMA CharacterUnderstood ==
    ASSUME IInv, Understood, NEW c \in Chars, Character(c),
           ~ port.half => c = port.char, ~ odd'
    PROVE  Buffered'
<1>1. CASE Enter
  <2>1. line' = <<>> /\ buffer_idx' = 0
    BY <1>1 DEF Enter
  <2>2. <<>> \in Seq(Chars) /\ Len(<<>>) = 0 /\ 1 .. 0 = {}
    BY EmptySeq
  <2> QED BY <2>1, <2>2 DEF Buffered
<1> SUFFICES ASSUME ~ Enter PROVE Buffered'
  BY <1>1
<1>2. /\ ~ odd /\ (c # "nul" => ~ port.half /\ c = port.char)
       /\ ~ (c = "bs" /\ line = <<>>)
  <2>1. CASE c = "nul" /\ Silent
    BY <2>1 DEF Silent
  <2>2. CASE odd' = (odd \/ port.half \/ (c = "bs" /\ line = <<>>))
    BY <2>2
  <2> QED BY <2>1, <2>2 DEF Character
<1>3. /\ line \in Seq(Chars) /\ Len(line) \in Nat /\ Len(line) = buffer_idx
      /\ \A i \in 1 .. Len(line) : line[i] # "nul" /\ command_buffer[i - 1] = line[i]
      /\ DOMAIN command_buffer = 0 .. BufferLimit
  BY <1>2, LenProperties DEF Understood, Buffered
<1>4. buffer_idx \in 0 .. BufferLimit /\ BufferLimit \in Nat /\ 1 <= BufferLimit
  BY BufferLimitAssumption DEF IInv, Places
<1>5. CASE Silent
  BY <1>3, <1>5 DEF Silent, Buffered
<1>6. CASE c = "bs" /\ buffer_idx > 0 /\ Backspace /\ line' = Edit(c)
  <2>1. buffer_idx' = buffer_idx - 1 /\ command_buffer' = command_buffer
    BY <1>6 DEF Backspace
  <2>2. line # <<>>
    BY <1>3, <1>6, EmptySeq
  <2>3. line' = SubSeq(line, 1, Len(line) - 1)
    BY <1>6, <2>2 DEF Edit
  <2>4. \A i \in 1 .. Len(line) - 1 : line[i] \in Chars
    BY <1>3, ElementOfSeq
  <2>5. /\ line' \in Seq(Chars) /\ Len(line') = Len(line) - 1
        /\ \A i \in 1 .. Len(line) - 1 : line'[i] = line[i]
    <3>1. 1 \in Int /\ Len(line) - 1 \in Int /\ Len(line) >= 1
      BY <1>3, <1>6
    <3> QED BY <1>3, <2>3, <2>4, <3>1, SubSeqProperties
  <2> QED BY <1>3, <2>1, <2>5 DEF Buffered
<1>7. CASE /\ c # "nul" /\ ~ (c = "bs" /\ buffer_idx > 0) /\ buffer_idx < BufferLimit
           /\ odd' = (odd \/ port.half \/ (c = "bs" /\ line = <<>>))
           /\ Store(c) /\ line' = Edit(c)
  <2>1. /\ command_buffer' = [command_buffer EXCEPT ![buffer_idx] = c]
        /\ buffer_idx' = buffer_idx + 1
    BY <1>7 DEF Store
  <2>2. c # "bs"
    <3>1. Len(line) = 0 => line = <<>>
      BY <1>3, EmptySeq
    <3> QED BY <1>3, <1>4, <1>7, <1>2, <3>1
  <2>3. line' = Append(line, c)
    BY <1>3, <1>7, <2>2 DEF Edit
  <2>4. /\ line' \in Seq(Chars) /\ Len(line') = Len(line) + 1
        /\ line'[Len(line) + 1] = c
        /\ \A i \in 1 .. Len(line) : line'[i] = line[i]
    BY <1>3, <2>3, AppendProperties
  <2>5. ASSUME NEW i \in 1 .. Len(line) + 1
        PROVE  line'[i] # "nul" /\ command_buffer'[i - 1] = line'[i]
    <3>1. CASE i = Len(line) + 1
      <4>1. command_buffer'[buffer_idx] = c
        BY <1>3, <1>4, <2>1
      <4> QED BY <1>3, <1>7, <2>4, <3>1, <4>1
    <3>2. CASE i \in 1 .. Len(line)
      <4>1. i - 1 # buffer_idx /\ i - 1 \in 0 .. BufferLimit
        BY <1>3, <1>4, <3>2
      <4>2. command_buffer'[i - 1] = command_buffer[i - 1]
        BY <1>3, <2>1, <4>1
      <4> QED BY <1>3, <2>4, <3>2, <4>2
    <3> QED BY <1>3, <3>1, <3>2
  <2> QED BY <1>3, <2>1, <2>4, <2>5 DEF Buffered
<1>8. CASE /\ ~ (c = "bs" /\ buffer_idx > 0) /\ buffer_idx >= BufferLimit
           /\ UNCHANGED <<con, output, raced, command_buffer, buffer_idx, command_ready>>
           /\ line' = Edit(c)
  <2>1. c # "bs"
    BY <1>4, <1>8
  <2>2. line' = line
    BY <1>3, <1>4, <1>8, <2>1 DEF Edit
  <2> QED BY <1>3, <1>8, <2>2 DEF Buffered
<1> QED BY <1>5, <1>2, <1>6, <1>7, <1>8 DEF Character

\* What keyboard_irq takes a key for is what was meant.
LEMMA KeyUnderstood ==
    ASSUME IInv, Understood, keyboard_irq
    PROVE  /\ AsMeant(port, shift, caps) /\ port # NoByte
           /\ shift' = ShiftAfter(port, shift) /\ caps' = CapsAfter(port, caps)
           /\ \E g, k : Ahead(g, k)'
<1>1. PICK sh, cp : Ahead(sh, cp)
  BY DEF Understood
<1>2. request /\ ReadPort /\ held' = held /\ lock' = lock /\ half' = half
  BY DEF keyboard_irq, user
<1>3. port \in Bytes
  BY <1>2 DEF IInv, Device
<1>4. shift \in BOOLEAN /\ caps \in BOOLEAN
  BY DEF IInv, Flags
<1>5. port.up \in BOOLEAN
  BY <1>3 DEF Bytes
<1>6. shift' = ShiftAfter(port, shift) /\ caps' = CapsAfter(port, caps)
  <2>1. ~ ("caps_lock" \in Shifts) /\ DOMAIN keymap \cap (Shifts \cup {"caps_lock"}) = {}
    BY DEF keymap, Shifts
  <2>2. CASE port.up /\ shift' = (shift /\ port.key \notin Shifts) /\ caps' = caps
    BY <1>4, <2>2 DEF ShiftAfter, CapsAfter
  <2>3. CASE ~ port.up /\ port.key \in Shifts /\ shift' = TRUE /\ caps' = caps
    BY <2>1, <2>3 DEF ShiftAfter, CapsAfter
  <2>4. CASE ~ port.up /\ port.key = "caps_lock" /\ caps' = ~ caps /\ shift' = shift
    BY <2>1, <2>4 DEF ShiftAfter, CapsAfter
  <2>5. CASE ~ port.up /\ port.key \in DOMAIN keymap /\ shift' = shift /\ caps' = caps
    BY <2>1, <2>5 DEF ShiftAfter, CapsAfter
  <2> QED BY <2>2, <2>3, <2>4, <2>5 DEF keyboard_irq
<1>7. AsMeant(port, shift, caps) /\ \E g, k : Ahead(g, k)'
  BY <1>1, <1>2, <1>6, ReadAhead
<1> QED BY <1>2, <1>6, <1>7 DEF IInv, Device

\* The character the driver finds for the key in the port; for Enter it does so
\* with every shift key.
LEMMA FoundIsMeant ==
    ASSUME AsMeant(port, shift, caps), ~ port.up, port.key \in DOMAIN keymap
    PROVE  ~ port.half \/ port.char = "nl" =>
              CapsLock(IF shift THEN keymap_shift[port.key] ELSE keymap[port.key]) = port.char
<1>1. CASE ~ port.half
  BY <1>1 DEF AsMeant, Taken, CapsLock
<1>2. CASE port.char = "nl"
  <2>1. port.key = "enter"
    BY <1>2 DEF AsMeant
  <2> QED BY <1>2, <2>1 DEF CapsLock, keymap, keymap_shift
<1> QED BY <1>1, <1>2

LEMMA KeyboardUnderstood == IInv /\ Understood /\ keyboard_irq => Understood'
<1> SUFFICES ASSUME IInv, Understood, keyboard_irq PROVE Understood'
  OBVIOUS
<1>1. lock' = lock /\ lock \in BOOLEAN /\ port \in Bytes
  BY DEF keyboard_irq, user, Understood, IInv, Device
<1>2. DOMAIN command_buffer' = DOMAIN command_buffer
  BY DEF keyboard_irq, Silent, Character, Enter, Backspace, Store
<1>3. AsMeant(port, shift, caps) /\ \E g, k : Ahead(g, k)'
  BY KeyUnderstood
<1>4. ASSUME ~ odd' PROVE Buffered'
  <2>1. CASE Silent
    BY <1>4, <2>1 DEF Silent, Understood, Buffered
  <2>2. CASE /\ ~ port.up /\ port.key \in DOMAIN keymap
             /\ Character(CapsLock(IF shift THEN keymap_shift[port.key]
                                   ELSE keymap[port.key]))
    <3>1. PICK d \in Chars : d = IF shift THEN keymap_shift[port.key] ELSE keymap[port.key]
      BY <2>2, MapsToChars
    <3>2. PICK c \in Chars : c = CapsLock(d)
      BY MapsToChars
    <3>3. Character(c)
      BY <2>2, <3>1, <3>2
    <3>4. ~ port.half => c = port.char
      BY <1>3, <2>2, <3>1, <3>2, FoundIsMeant
    <3> QED BY <1>4, <3>3, <3>4, CharacterUnderstood
  <2> QED BY <2>1, <2>2 DEF keyboard_irq
<1> QED BY <1>1, <1>2, <1>3, <1>4 DEF Understood

LEMMA InitUnderstood == Init => Understood
<1> SUFFICES ASSUME Init PROVE Understood
  OBVIOUS
<1>1. lock \in BOOLEAN /\ DOMAIN command_buffer = 0 .. BufferLimit
  BY DEF Init
<1>2. Len(<<>>) = 0 /\ <<>> \in Seq(Chars) /\ 1 .. 0 = {}
  BY EmptySeq
<1>3. Buffered
  BY <1>2 DEF Init, Buffered
<1>4. PICK g : g = [i \in 0 .. 0 |-> FALSE]
  OBVIOUS
<1>5. g \in [0 .. 0 -> BOOLEAN] /\ g[0] = FALSE
  BY <1>4
<1>6. Ahead(g, g)
  <2>1. Shifted = FALSE
    BY DEF Init, Shifted
  <2> QED BY <1>2, <1>5, <2>1 DEF Init, Ahead
<1> QED BY <1>1, <1>3, <1>6 DEF Understood

LEMMA NextUnderstood == IInv /\ Understood /\ [Next]_vars => Understood'
<1> SUFFICES ASSUME IInv, Understood, [Next]_vars PROVE Understood'
  OBVIOUS
<1>1. CASE PrintNext \/ PrintStep \/ keyboard_init \/ Handoff
  BY <1>1, UnderstoodStays
     DEF PrintNext, PrintStep, keyboard_init, Handoff, keyboard, device, user, history
<1>2. CASE userspace_init
  BY <1>2, UnderstoodStays DEF userspace_init, Prints, keyboard, device, user, history
<1>3. CASE sys_write_handler
  <2>1. \E s : Prints(s)
    BY <1>3 DEF sys_write_handler
  <2> QED BY <2>1, UnderstoodStays DEF Prints, keyboard, device, user, history
<1>4. CASE sys_exit_handler
  BY <1>4, UnderstoodStays DEF sys_exit_handler, Prints, keyboard, device, user, history
<1>5. CASE User
  BY <1>5, UserUnderstood DEF User
<1>6. CASE keyboard_irq
  BY <1>6, KeyboardUnderstood
<1>7. CASE irq_handler_none
  BY <1>7, UnderstoodStays DEF irq_handler_none, keyboard, user, history
<1>8. CASE UNCHANGED vars
  BY <1>8, UnderstoodStays DEF vars, keyboard, device, user, history
<1> QED BY <1>1, <1>2, <1>3, <1>4, <1>5, <1>6, <1>7, <1>8
        DEF Next, Boot, Ring3, syscall_handler, Interrupt

\* A reader of the buffer finds the line that Enter ended.
LEMMA EnterGivesLine ==
    ASSUME IInv, Buffered, DOMAIN command_buffer = 0 .. BufferLimit, Enter
    PROVE  Command' = line
<1>1. PICK n \in 0 .. BufferLimit : n = buffer_idx
  BY DEF IInv, Places
<1>2. BufferLimit \in Nat
  BY BufferLimitAssumption
<1>3. command_buffer' = [command_buffer EXCEPT ![n] = "nul"]
  BY <1>1 DEF Enter
<1>4. line \in Seq(Chars) /\ Len(line) = n
  BY <1>1 DEF Buffered
<1>5. \A i \in 0 .. n - 1 : command_buffer'[i] = line[i + 1] /\ line[i + 1] # "nul"
  <2> SUFFICES ASSUME NEW i \in 0 .. n - 1
               PROVE  command_buffer'[i] = line[i + 1] /\ line[i + 1] # "nul"
    OBVIOUS
  <2>1. i + 1 \in 1 .. n /\ (i + 1) - 1 = i /\ i \in 0 .. BufferLimit /\ i # n
    BY <1>2
  <2>2. command_buffer'[i] = command_buffer[i]
    BY <1>3, <2>1
  <2>3. line[i + 1] # "nul" /\ command_buffer[(i + 1) - 1] = line[i + 1]
    BY <1>4, <2>1 DEF Buffered
  <2> QED BY <2>1, <2>2, <2>3
<1>6. command_buffer'[n] = "nul"
  BY <1>3
<1> DEFINE End(m) == /\ m = BufferLimit \/ command_buffer'[m] = "nul"
                     /\ \A i \in 0 .. m - 1 : command_buffer'[i] # "nul"
<1>7. \A m \in 0 .. BufferLimit : End(m) <=> m = n
  <2> SUFFICES ASSUME NEW m \in 0 .. BufferLimit PROVE End(m) <=> m = n
    OBVIOUS
  <2>1. CASE m = n
    BY <1>5, <1>6, <2>1
  <2>2. CASE m < n
    <3>1. m \in 0 .. n - 1 /\ m # BufferLimit
      BY <1>2, <2>2
    <3> QED BY <1>5, <2>2, <3>1
  <2>3. CASE n < m
    <3>1. n \in 0 .. m - 1
      BY <1>2, <2>3
    <3> QED BY <1>6, <2>3, <3>1
  <2> QED BY <1>2, <2>1, <2>2, <2>3
<1>8. (CHOOSE m \in 0 .. BufferLimit : End(m)) = n
  <2> HIDE DEF End
  <2>1. \E m \in 0 .. BufferLimit : End(m)
    BY <1>7
  <2> QED BY <1>7, <2>1
<1>9. Command' = [i \in 1 .. n |-> command_buffer'[i - 1]]
  BY <1>8 DEF Command
<1>10. \A i \in 1 .. n : command_buffer'[i - 1] = line[i]
  <2> SUFFICES ASSUME NEW i \in 1 .. n PROVE command_buffer'[i - 1] = line[i]
    OBVIOUS
  <2>1. i - 1 \in 0 .. n - 1 /\ (i - 1) + 1 = i
    BY <1>2
  <2> QED BY <1>5, <2>1
<1>11. line = [i \in 1 .. n |-> line[i]]
  BY <1>4, LenProperties
<1> QED BY <1>9, <1>10, <1>11

\* A step of the keyboard's handler that CommandAsTyped is about.
LEMMA EnterIsEnter ==
    ASSUME IInv, Understood, [Next]_vars, handled' # handled, port.char = "nl", ~ odd
    PROVE  command_ready' /\ Command' = line
<1>1. keyboard_irq
  <2>1. CASE PrintNext \/ PrintStep \/ keyboard_init \/ Handoff
    BY <2>1 DEF PrintNext, PrintStep, keyboard_init, Handoff, history
  <2>2. CASE Ring3
    BY <2>2 DEF Ring3, syscall_handler, userspace_init, sys_write_handler, sys_exit_handler,
                Prints, history
  <2>3. CASE User
    BY <2>3 DEF User, Press, Release, Send, history
  <2>4. CASE irq_handler_none \/ UNCHANGED vars
    BY <2>4 DEF irq_handler_none, vars, history
  <2> QED BY <2>1, <2>2, <2>3, <2>4 DEF Next, Boot, Interrupt
<1>2. AsMeant(port, shift, caps)
  BY <1>1, KeyUnderstood
<1>3. ~ port.up /\ port.key \in DOMAIN keymap
  BY <1>2 DEF AsMeant, keymap
<1>4. Character(port.char)
  <2>1. port.key \notin Shifts \cup {"caps_lock"}
    BY <1>3 DEF keymap, Shifts
  <2>2. Character(CapsLock(IF shift THEN keymap_shift[port.key] ELSE keymap[port.key]))
    BY <1>1, <1>3, <2>1 DEF keyboard_irq
  <2> QED BY <1>2, <1>3, <2>2, FoundIsMeant
<1>5. Enter
  BY <1>4 DEF Character
<1>6. Buffered /\ DOMAIN command_buffer = 0 .. BufferLimit
  BY DEF Understood
<1>7. Command' = line
  BY <1>5, <1>6, EnterGivesLine
<1> QED BY <1>5, <1>7 DEF Enter

-----------------------------------------------------------------------------
(* The theorems.                                                           *)

LEMMA Invariant == Spec => []IInv
BY InitScreened, NextKeeps, PTL DEF Spec

\* Whenever keys are pressed and whatever they interrupt, the command buffer is
\* not left, every glyph is drawn in a cell of the screen, or one right of it if
\* a key was echoed inside a call, and memory that is not the framebuffer is
\* written only after such an echo or when the text is longer than the screen.
THEOREM GlyphsStayNear == Spec => []Inv
BY Invariant, IInvSuffices, PTL

\* On a screen where scrolling writes over the kernel, as on that of stage 2, all
\* that vga_putchar draws is what a terminal would show, as long as no key is
\* echoed inside a call and the text fits.
THEOREM ShowsTheText == ASSUME MovesKernel PROVE Spec => []Rendered
<1>1. IInv => Rendered
  BY IInvRendered
<1> QED BY <1>1, Invariant, PTL

\* Whatever keyboard_irq's echoes interrupt, and however many bytes wait in the
\* keyboard, Enter leaves in the command buffer the line as it was meant and
\* edited, for a line of any length: if it was not odd itself, whatever was odd in
\* the lines before it.
THEOREM CommandsAsTyped == Spec => CommandAsTyped
<1>1. /\ IInv /\ Understood /\ [Next]_vars
      => [handled' # handled /\ port.char = "nl" /\ ~ odd
             => command_ready' /\ Command' = line]_vars
  BY EnterIsEnter
<1>2. Spec => []Understood
  BY InitUnderstood, NextUnderstood, Invariant, PTL DEF Spec
<1> QED BY <1>1, <1>2, Invariant, PTL DEF Spec, CommandAsTyped
=============================================================================
