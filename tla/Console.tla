------------------------------ MODULE Console ------------------------------
(***************************************************************************)
(* Everything that prints, and the keyboard: kernel_main's messages, from  *)
(* the moment initIdt turned interrupts on; keyboard_irq with its command  *)
(* buffer, which echoes what is typed into the middle of them; and after   *)
(* the handoff userspace_init, the system calls, and panic.                *)
(*                                                                         *)
(* kernel_main prints with interrupts on and no lock, so its calls of      *)
(* vga_putchar proceed step by step.  The others print with interrupts     *)
(* off: their calls are one action.  task_a and task_b do not print; the   *)
(* squares they draw, and what they cover, are left out.                   *)
(*                                                                         *)
(* The keyboard controller is hardware, modelled from how keyboard_irq     *)
(* uses it: it keeps one byte in its port until it is read, requests the   *)
(* interrupt when a byte arrives there, and queues the bytes behind it.    *)
(*                                                                         *)
(* A byte of the keyboard is a record: which key, pressed or released; and *)
(* the character meant and `half` as it was then, for the properties.      *)
(*                                                                         *)
(* ReadPort_twice and Enter_no_reset are ReadPort and Enter with a         *)
(* plausible mistake; no specification uses them.                          *)
(***************************************************************************)
EXTENDS Vga, FiniteSets

CONSTANTS
    BeforeInterrupts,  \* what kernel_main prints before initIdt returns
    Welcome,           \* what userspace_init prints
    Writes,            \* the buffers the program passes to write
    LastWords,         \* what sys_exit, or a fault's panic, prints
    BufferLimit,       \* 255, the most characters a command has
    Sessions           \* the bounds of what may happen, see below

Shifts == {"left_shift", "right_shift"}

\* A letter, a digit, and the keys the driver treats specially.  Some keys
\* have no character.
keymap ==
    [letter |-> "a", digit |-> "1", enter |-> "nl", backspace |-> "bs", escape |-> "nul"]
keymap_shift ==
    [letter |-> "A", digit |-> "!", enter |-> "nl", backspace |-> "bs", escape |-> "nul"]

AllKeys == DOMAIN keymap \cup Shifts \cup {"caps_lock"}

\* A session bounds what happens after initIdt: the messages kernel_main
\* prints, `before` of them before it calls keyboard_init; the keys somebody
\* uses and how often one is pressed or released; and how many system calls
\* the program makes.  There is no backspace in kernel_main's messages.
ASSUME SessionsAssumption ==
    \A s \in Sessions :
       /\ s.messages \in Seq(STRING)
       /\ \A i \in DOMAIN s.messages : s.messages[i] # "bs"
       /\ s.before \in 0 .. Len(s.messages)
       /\ s.keys \subseteq AllKeys
       /\ s.bytes \in Nat
       /\ s.calls \in Nat
ASSUME TextsAssumption ==
    /\ {BeforeInterrupts, Welcome, LastWords} \subseteq Seq(STRING)
    /\ Writes \subseteq Seq(STRING)
ASSUME BufferLimitAssumption == BufferLimit \in Nat \ {0}

VARIABLES
    session,         \* one of Sessions
    con,             \* the console, and the call of vga_putchar kernel_main is in
    phase,           \* "boot", "tasks", "user", "stopped"
    printed,         \* how much of the messages
    installed,       \* irq_routines[1] is keyboard_irq
    shift, caps,     \* keyboard.c's, as Booleans
    command_buffer, buffer_idx, command_ready,
    port,            \* the byte at port 0x60 nobody has read, or NoByte
    queue,           \* the bytes behind it
    request,         \* the 8259 has latched IRQ1
    calls,           \* system calls made
    held, lock,      \* the user's: keys held down, caps lock on
    half,            \* one of two shift keys held together was released, and
                     \* since then neither one pressed nor the other released
    output,          \* history: every character printed, in order
    line,            \* history: the line as it is meant so far
    pressed,         \* history: how many bytes the keyboard sent
    handled,         \* history: how often keyboard_irq ran
    early,           \* history: a key was pressed before keyboard_init
    raced,           \* history: a key was echoed inside a call of vga_putchar
    odd              \* history: in this line, see CommandAsTyped

keyboard == <<shift, caps, command_buffer, buffer_idx, command_ready>>
device   == <<port, queue, request>>
user     == <<session, held, lock, half, pressed, early>>
history  == <<line, handled, raced, odd>>
vars     == <<con, phase, printed, installed, keyboard, device, calls, user, output, history>>

\* What a keyboard holds back while the port is full; more would be lost.
QueueLimit == 16

NoByte == [key |-> "none", up |-> FALSE, char |-> "nul", half |-> FALSE]

Init ==
    /\ session \in Sessions
    /\ con \in vga_print(Cleared, BeforeInterrupts)
    /\ output = BeforeInterrupts
    /\ phase = "boot" /\ printed = 0
    /\ installed = FALSE
    /\ shift = FALSE /\ caps = FALSE
    /\ command_buffer = [n \in 0 .. BufferLimit |-> "nul"]
    /\ buffer_idx = 0
    /\ command_ready = FALSE
    /\ port = NoByte /\ queue = <<>> /\ request = FALSE
    /\ calls = 0
    /\ held = {} /\ lock = FALSE /\ half = FALSE
    /\ line = <<>>
    /\ pressed = 0 /\ handled = 0
    /\ early = FALSE /\ raced = FALSE /\ odd = FALSE

\* Nothing runs any more, with interrupts on at least.
Stopped == phase = "stopped" \/ con.wild

Busy == con.at # "done"

-----------------------------------------------------------------------------
(* kernel_main.                                                            *)

\* The next character of its messages.
PrintNext ==
    /\ phase = "boot" /\ ~Stopped /\ ~Busy
    /\ printed < Len(session.messages)
    /\ printed = session.before => installed
    /\ printed' = printed + 1
    /\ con' = Called(con, session.messages[printed'])
    /\ output' = Append(output, session.messages[printed'])
    /\ UNCHANGED <<phase, installed, keyboard, device, calls, user, history>>

\* The next step inside vga_putchar.
PrintStep ==
    /\ phase = "boot" /\ ~Stopped /\ Busy
    /\ con' = PutStep(con)
    /\ UNCHANGED <<phase, printed, installed, keyboard, device, calls, user, output, history>>

keyboard_init ==
    /\ phase = "boot" /\ ~Stopped /\ ~Busy
    /\ printed = session.before /\ ~installed
    /\ installed' = TRUE
    /\ UNCHANGED <<con, phase, printed, keyboard, device, calls, user, output, history>>

\* The handoff.  kernel_main never runs again.
Handoff ==
    /\ phase = "boot" /\ ~Stopped /\ ~Busy
    /\ printed = Len(session.messages) /\ installed
    /\ phase' = "tasks"
    /\ UNCHANGED <<con, printed, installed, keyboard, device, calls, user, output, history>>

-----------------------------------------------------------------------------
(* Code that prints with interrupts off.                                   *)

Prints(s) ==
    /\ con' \in vga_print(con, s)
    /\ output' = output \o s
    /\ UNCHANGED <<printed, installed, keyboard, device, user, history>>

\* A new process starts inside the timer's handler.
userspace_init ==
    /\ phase = "tasks" /\ ~Stopped
    /\ Prints(Welcome)
    /\ phase' = "user"
    /\ UNCHANGED calls

\* sys_write_handler: only fd 1 prints.  A number behind the table is like
\* another fd: it only puts -1 into eax, which the program does not look at.
sys_write_handler ==
    /\ phase = "user" /\ ~Stopped
    /\ calls < session.calls
    /\ calls' = calls + 1
    /\ \E fd \in {1, 2}, s \in Writes : Prints(IF fd = 1 THEN s ELSE <<>>)
    /\ UNCHANGED phase

\* sys_exit_handler, and panic after a fault in ring 3.
sys_exit_handler ==
    /\ phase = "user" /\ ~Stopped
    /\ calls < session.calls
    /\ calls' = calls + 1
    /\ Prints(LastWords)
    /\ phase' = "stopped"

syscall_handler == sys_write_handler \/ sys_exit_handler

-----------------------------------------------------------------------------
(* The keyboard and whoever uses it.                                       *)

\* What the user wants from a key, with the shift keys and caps lock as they
\* are at that moment.
Meant(key) ==
    IF key \in Shifts \cup {"caps_lock"} THEN "nul"
    ELSE LET up == (held \cap Shifts # {}) # (lock /\ key = "letter")
         IN  IF up THEN keymap_shift[key] ELSE keymap[key]

Send(byte) ==
    /\ pressed < session.bytes /\ Len(queue) < QueueLimit /\ ~Stopped
    /\ pressed' = pressed + 1
    /\ early' = (early \/ ~installed)
    /\ IF port = NoByte
       THEN port' = byte /\ request' = TRUE /\ UNCHANGED queue
       ELSE queue' = Append(queue, byte) /\ UNCHANGED <<port, request>>
    /\ UNCHANGED <<session, con, phase, printed, installed, keyboard, calls,
                   output, history>>

\* A key that is held down is sent again and again.
Press(key) ==
    /\ Send([key |-> key, up |-> FALSE, char |-> Meant(key), half |-> half])
    /\ held' = held \cup {key}
    /\ lock' = IF key = "caps_lock" THEN ~lock ELSE lock
    /\ half' = (half /\ key \notin Shifts)

Release(key) ==
    /\ key \in held
    /\ Send([key |-> key, up |-> TRUE, char |-> "nul", half |-> half])
    /\ held' = held \ {key}
    /\ half' = IF key \in Shifts THEN Shifts \subseteq held ELSE half
    /\ UNCHANGED lock

-----------------------------------------------------------------------------
(* keyboard_irq.                                                           *)

\* Reads again after a release, as drivers do that expect two bytes.
ReadPort_twice ==
    LET rest == IF port.up /\ queue # <<>> THEN Tail(queue) ELSE queue IN
    /\ port' = IF rest = <<>> THEN NoByte ELSE Head(rest)
    /\ queue' = IF rest = <<>> THEN <<>> ELSE Tail(rest)
    /\ request' = (rest # <<>>)

\* inb(0x60).  The next byte arrives, with a request of its own.
ReadPort ==
    /\ port' = IF queue = <<>> THEN NoByte ELSE Head(queue)
    /\ queue' = IF queue = <<>> THEN <<>> ELSE Tail(queue)
    /\ request' = (queue # <<>>)

\* Shift, caps lock and keys without a character print nothing.
Silent ==
    /\ UNCHANGED <<con, output, command_buffer, buffer_idx, command_ready, line, raced, odd>>

Echo(c) ==
    /\ con' \in vga_putchar(con, c)
    /\ output' = Append(output, c)
    /\ raced' = (raced \/ Busy)

Enter_no_reset ==
    /\ command_buffer' = [command_buffer EXCEPT ![buffer_idx] = "nul"]
    /\ command_ready' = TRUE
    /\ line' = <<>>
    /\ odd' = FALSE
    /\ Echo("nl")
    /\ UNCHANGED buffer_idx

Enter ==
    /\ command_buffer' = [command_buffer EXCEPT ![buffer_idx] = "nul"]
    /\ command_ready' = TRUE
    /\ buffer_idx' = 0
    /\ line' = <<>> /\ odd' = FALSE
    /\ Echo("nl")

Backspace ==
    /\ buffer_idx' = buffer_idx - 1
    /\ Echo("bs")
    /\ UNCHANGED <<command_buffer, command_ready>>

Store(c) ==
    /\ command_buffer' = [command_buffer EXCEPT ![buffer_idx] = c]
    /\ buffer_idx' = buffer_idx + 1
    /\ Echo(c)
    /\ UNCHANGED command_ready

\* The line as it is meant, after another character.
Edit(c) ==
    IF c = "bs" /\ line # <<>> THEN SubSeq(line, 1, Len(line) - 1)
    ELSE IF c # "bs" /\ Len(line) < BufferLimit THEN Append(line, c)
    ELSE line

\* Letters only; c is what the key map says.
CapsLock(c) ==
    IF caps /\ c = "a" THEN "A" ELSE IF caps /\ c = "A" THEN "a" ELSE c

\* A backspace on an empty line is stored, like any other character.
Character(c) ==
    \/ c = "nul" /\ Silent
    \/ c = "nl" /\ Enter
    \/ /\ c \notin {"nul", "nl"}
       /\ line' = Edit(port.char)
       /\ odd' = (odd \/ port.half \/ (c = "bs" /\ line = <<>>))
       /\ \/ c = "bs" /\ buffer_idx > 0 /\ Backspace
          \/ /\ ~(c = "bs" /\ buffer_idx > 0)
             /\ buffer_idx < BufferLimit
             /\ Store(c)
          \/ /\ ~(c = "bs" /\ buffer_idx > 0)
             /\ buffer_idx >= BufferLimit
             /\ UNCHANGED <<con, output, raced, command_buffer, buffer_idx, command_ready>>

keyboard_irq ==
    /\ request /\ installed /\ ~Stopped
    /\ ReadPort
    /\ handled' = handled + 1
    /\ \/ /\ port.up
          /\ shift' = (shift /\ port.key \notin Shifts)
          /\ Silent /\ UNCHANGED caps
       \/ /\ ~port.up /\ port.key \in Shifts
          /\ shift' = TRUE
          /\ Silent /\ UNCHANGED caps
       \/ /\ ~port.up /\ port.key = "caps_lock"
          /\ caps' = ~caps
          /\ Silent /\ UNCHANGED shift
       \/ /\ ~port.up /\ port.key \in DOMAIN keymap
          /\ Character(CapsLock(IF shift THEN keymap_shift[port.key] ELSE keymap[port.key]))
          /\ UNCHANGED <<shift, caps>>
    /\ UNCHANGED <<phase, printed, installed, calls, user>>

\* irq_handler without a routine for IRQ1: an end of interrupt, and nothing
\* reads the port.
irq_handler_none ==
    /\ request /\ ~installed /\ ~Stopped
    /\ request' = FALSE
    /\ UNCHANGED <<con, phase, printed, installed, keyboard, port, queue, calls,
                   user, output, history>>

-----------------------------------------------------------------------------
Interrupt == keyboard_irq \/ irq_handler_none
Boot      == PrintNext \/ PrintStep \/ keyboard_init \/ Handoff
Ring3     == userspace_init \/ syscall_handler
User      == \E key \in session.keys : Press(key) \/ Release(key)

Next == Boot \/ Ring3 \/ User \/ Interrupt

Spec == Init /\ [][Next]_vars

\* kernel_main goes on, and a latched interrupt is taken as soon as interrupts
\* are on, which they are between any two actions unless the machine stopped.
\* Nobody has to press a key, and the program may stop making calls.
FairSpec == Spec /\ WF_vars(Boot) /\ WF_vars(Interrupt)

-----------------------------------------------------------------------------
TypeOK ==
    /\ phase \in {"boot", "tasks", "user", "stopped"}
    /\ printed \in 0 .. Len(session.messages)
    /\ buffer_idx \in 0 .. BufferLimit
    /\ {installed, shift, caps, command_ready, request, half, early, raced, odd} \subseteq BOOLEAN
    /\ handled <= pressed /\ pressed <= session.bytes

\* Where glyphs are drawn.  An echo between kernel_main's store of cursor_x and
\* its test may draw one right of the screen, and one between the store of
\* cursor_y and its test one below it, where the framebuffer ends; but without
\* such an interruption only scrolling touches other memory.
DrawnNear ==
    /\ \A p \in DOMAIN con.glyphs :
          /\ p[1] \in 0 .. Width /\ p[1] % FONT_WIDTH = 0
          /\ p[2] \in 0 .. Height - FONT_HEIGHT /\ p[2] % FONT_HEIGHT = 0
          /\ p[1] = Width => raced
    /\ con.wild => raced \/ Scrolls(FONT_HEIGHT * Terminal(output).row)

Inv == TypeOK /\ DrawnNear

\* As long as no key is echoed inside one of kernel_main's calls, the glyphs on
\* the screen and the cursor are those of a terminal that was sent the messages,
\* the echoes and what the program wrote, in this order: all of vga_putchar.
Rendered == ~Busy /\ ~raced /\ ~con.wild => Shows(con, Terminal(output))

\* What a reader of the buffer gets.
Command ==
    LET end == CHOOSE n \in 0 .. BufferLimit :
                  /\ n = BufferLimit \/ command_buffer[n] = "nul"
                  /\ \A i \in 0 .. n - 1 : command_buffer[i] # "nul"
    IN  [i \in 1 .. end |-> command_buffer[i - 1]]

\* With Enter, the buffer holds the line as it was meant and edited, even if
\* its keys interrupted kernel_main's messages; unless something in that line was
\* odd: a backspace when it was empty, which is stored, or a key that was used
\* when one of two shift keys held together had been released, which the driver
\* takes for both.  The lines after it are right again.
CommandAsTyped ==
    [][handled' # handled /\ port.char = "nl" /\ ~odd
          => command_ready' /\ Command' = line]_vars

\* Again and again keyboard_irq has handled every byte the keyboard sent, if
\* none was sent before keyboard_init (nobody would read it, and no later one
\* would request an interrupt) and the machine does not stop.
KeysArrive == []<>(handled = pressed \/ early \/ Stopped)

\* "Scroll if needed" (vga.c:101) moves the text on the screen and nothing else.
ScrollSpares == ~con.wild
=============================================================================
