-------------------------------- MODULE Vga --------------------------------
(***************************************************************************)
(* The text console of vga.c as a function on its state: one call of       *)
(* vga_putchar, load by load and store by store, because the kernel is     *)
(* built without optimisation and an interrupt may arrive between any two  *)
(* instructions.                                                           *)
(*                                                                         *)
(* A console is a record of what the calls share                           *)
(*   x, y     cursor_x and cursor_y, in pixels                             *)
(*   glyphs   the glyph drawn last at each position that has one           *)
(*   wild     memory that is not the framebuffer has been overwritten      *)
(* and of one call's own                                                   *)
(*   c        the character                                                *)
(*   at       the next step; "done" when no call is under way              *)
(*   dx, dy   the arguments of draw_glyph                                  *)
(*   l        the register between the load and the store of a coordinate. *)
(* A glyph is 8 by 16 pixels; drawing it is one step.  Two glyphs drawn    *)
(* into one another leave the one that was begun last.                     *)
(*                                                                         *)
(* Wraps_late and Begin_no_return are Wraps and Begin with a plausible     *)
(* mistake; no specification uses them.                                    *)
(***************************************************************************)
EXTENDS Integers, Sequences

CONSTANTS
    Width, Height,   \* of the framebuffer, in pixels
    KernelStart      \* the address the kernel is linked to

ASSUME ScreenAssumption ==
    /\ Width \in Nat \ {0} /\ Height \in Nat \ {0}
    /\ Width % 8 = 0 /\ Height % 16 = 0
    /\ KernelStart \in Nat

FONT_WIDTH  == 8
FONT_HEIGHT == 16
Video       == 753664   \* 0xB8000

\* vga_clear.
Cleared ==
    [x |-> 0, y |-> 0, glyphs |-> <<>>, wild |-> FALSE,
     c |-> "nul", at |-> "done", dx |-> 0, dy |-> 0, l |-> 0]

\* All the pixels of a glyph at x, y are in the framebuffer.  A row of a glyph
\* that ends right of the screen goes on in the next row of pixels.
InFramebuffer(x, y) ==
    \/ y + FONT_HEIGHT < Height
    \/ y + FONT_HEIGHT = Height /\ x + FONT_WIDTH <= Width

\* The picture f, a function on some places, with c at one more or in place of
\* what was there.
Painted(f, place, c) ==
    [p \in DOMAIN f \cup {place} |-> IF p = place THEN c ELSE f[p]]

draw_glyph(m, glyph) ==
    IF InFramebuffer(m.dx, m.dy)
    THEN [m EXCEPT !.glyphs = Painted(@, <<m.dx, m.dy>>, glyph)]
    ELSE [m EXCEPT !.wild = TRUE]

Wraps_late(x) == x > Width
Wraps(x)      == x >= Width

Scrolls(y) == y >= Height

\* The scrolling code moves Width * Height cells of two bytes each at Video,
\* which is not the framebuffer.
MovesKernel == Video + 2 * Width * Height > KernelStart

Begin_no_return(m) ==
    CASE m.c = "nl" -> [m EXCEPT !.at = "load_y"]
      [] m.c = "cr" -> [m EXCEPT !.x = 0, !.at = "scroll"]
      [] m.c = "bs" -> [m EXCEPT !.at = IF m.x > 0 THEN "load_x" ELSE "arg_y"]
      [] OTHER      -> [m EXCEPT !.at = "arg_y"]

\* The first branch of vga_putchar.
Begin(m) ==
    CASE m.c = "nl" -> [m EXCEPT !.x = 0, !.at = "load_y"]
      [] m.c = "cr" -> [m EXCEPT !.x = 0, !.at = "scroll"]
      [] m.c = "bs" -> [m EXCEPT !.at = IF m.x > 0 THEN "load_x" ELSE "arg_y"]
      [] OTHER      -> [m EXCEPT !.at = "arg_y"]

\* One step of vga_putchar.  A backspace moves the cursor and then draws, all
\* other characters draw and then move it.
PutStep(m) ==
    LET back == m.c = "bs" IN
    CASE m.at = "begin"   -> Begin(m)
      [] m.at = "arg_y"   -> [m EXCEPT !.dy = m.y, !.at = "arg_x"]
      [] m.at = "arg_x"   -> [m EXCEPT !.dx = m.x, !.at = "draw"]
      [] m.at = "draw"    -> [draw_glyph(m, IF back THEN "blank" ELSE m.c)
                                 EXCEPT !.at = IF back THEN "scroll" ELSE "load_x"]
      [] m.at = "load_x"  -> [m EXCEPT !.l = m.x, !.at = "store_x"]
      [] m.at = "store_x" -> IF back
                             THEN [m EXCEPT !.x = m.l - FONT_WIDTH, !.at = "arg_y"]
                             ELSE [m EXCEPT !.x = m.l + FONT_WIDTH, !.at = "wrap"]
      [] m.at = "wrap"    -> [m EXCEPT !.at = IF Wraps(m.x) THEN "return" ELSE "scroll"]
      [] m.at = "return"  -> [m EXCEPT !.x = 0, !.at = "load_y"]
      [] m.at = "load_y"  -> [m EXCEPT !.l = m.y, !.at = "store_y"]
      [] m.at = "store_y" -> [m EXCEPT !.y = m.l + FONT_HEIGHT, !.at = "scroll"]
      [] m.at = "scroll"  -> IF Scrolls(m.y)
                             THEN [m EXCEPT !.y = Height - 1, !.at = "done",
                                            !.wild = @ \/ MovesKernel]
                             ELSE [m EXCEPT !.at = "done"]
      [] OTHER            -> m

Called(m, c) == [m EXCEPT !.c = c, !.at = "begin"]

\* The consoles, one of them, that a call of vga_putchar leaves which nothing
\* interrupts: a handler's.  What the handler interrupted keeps its own place.
\* No call takes more than eleven steps.
vga_putchar(m, c) ==
    LET after[n \in 0 .. 11] ==
            IF n = 0 THEN {Called(m, c)} ELSE {PutStep(r) : r \in after[n - 1]}
    IN  {[r EXCEPT !.c = m.c, !.at = m.at, !.dx = m.dx, !.dy = m.dy, !.l = m.l] :
            r \in after[11]}

\* vga_print and sys_write's loop, where nothing interrupts them.
vga_print(m, s) ==
    LET after[n \in 0 .. Len(s)] ==
            IF n = 0 THEN {m} ELSE UNION {vga_putchar(r, s[n]) : r \in after[n - 1]}
    IN  after[Len(s)]

-----------------------------------------------------------------------------
(* What a terminal shows, for reference: rows of Columns cells.            *)

Columns == Width \div FONT_WIDTH

Blank == [row |-> 0, col |-> 0, cells |-> <<>>]

Typed(t, c) ==
    LET write(col, ch) == Painted(t.cells, <<col, t.row>>, ch)
        left == IF t.col = 0 THEN 0 ELSE t.col - 1
    IN  CASE c = "nl" -> [t EXCEPT !.row = @ + 1, !.col = 0]
          [] c = "cr" -> [t EXCEPT !.col = 0]
          [] c = "bs" -> [t EXCEPT !.col = left, !.cells = write(left, "blank")]
          [] OTHER    -> [row   |-> t.row + (t.col + 1) \div Columns,
                          col   |-> (t.col + 1) % Columns,
                          cells |-> write(t.col, c)]

Terminal(s) ==
    LET after[n \in 0 .. Len(s)] ==
            IF n = 0 THEN Blank ELSE Typed(after[n - 1], s[n])
    IN  after[Len(s)]

\* The console shows the terminal t.
Shows(m, t) ==
    /\ m.x = FONT_WIDTH * t.col
    /\ m.y = FONT_HEIGHT * t.row
    /\ DOMAIN m.glyphs = {<<FONT_WIDTH * p[1], FONT_HEIGHT * p[2]>> : p \in DOMAIN t.cells}
    /\ \A p \in DOMAIN t.cells :
          m.glyphs[<<FONT_WIDTH * p[1], FONT_HEIGHT * p[2]>>] = t.cells[p]
=============================================================================
