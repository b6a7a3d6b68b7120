------------------------------ MODULE Keyboard ------------------------------
(***************************************************************************)
(* The keyboard driver, drivers/ui/keyboard.c, and get_chr of libk/io/     *)
(* stdio.c, which the terminal reads from.  The interrupt handler passes a *)
(* character on in two ways: in g_ch, for kb_getchar, kb_getchar_w and     *)
(* kb_get_scancode, and on the stack kb_buffer, for get_char.  The handler *)
(* runs with interrupts off, so it is one step; the readers run with them  *)
(* on, and each of their accesses to shared memory is a step (the build    *)
(* has -O0: every access in the source is one in the program).             *)
(*                                                                         *)
(* A character is a small number below IO_BUFFER_SIZE, as in the code;     *)
(* 0 is "no character" and Eof is EOF.  kb_buffer is a struct whose        *)
(* buffer_pos lies directly behind buffer[IO_BUFFER_SIZE - 1].             *)
(***************************************************************************)
EXTENDS Integers, FiniteSets

CONSTANTS
    Size,       \* IO_BUFFER_SIZE: 1000
    Polls,      \* how often kb_getchar looks: 100
    Letters,    \* keys with a letter
    Symbols,    \* the other keys of the default case
    Direct,     \* Enter, Tab and the arrows: not subject to shift and caps lock
    Caps,       \* the caps lock key
    Shift,      \* the left shift key
    CodeOf,     \* scan code of each key
    PlainOf,    \* character of each key that has one
    OtherOf,    \* the upper or alternate character
    Watched,    \* the character that due counts
    MaxIrqs     \* bound on the number of interrupts

Eof == -1
Keys == Letters \cup Symbols \cup Direct \cup {Caps, Shift}
Chars == {PlainOf[k] : k \in Letters \cup Symbols \cup Direct}
           \cup {OtherOf[k] : k \in Letters \cup Symbols}

ASSUME KeyboardConstants ==
    /\ Size \in Nat \ {0, 1}
    /\ Polls \in Nat \ {0}
    /\ Chars \subseteq 1 .. Size - 1
    /\ \A k \in Keys : CodeOf[k] \in 1 .. 127
    /\ Watched \in Chars
    /\ MaxIrqs \in Nat

VARIABLES
    g_ch, g_scan_code, g_caps_lock, g_shift_pressed,
    buffer, buffer_pos,     \* kb_buffer
    down,       \* keys that are held down
    irqs,       \* interrupts so far
    call,       \* the reader main is in, or "none"
    at,         \* where in it
    spins,      \* kb_getchar's count
    value,      \* c, code or chr
    loaded,     \* the copy of buffer_pos that -- or ++ works on
    got,        \* what the last call since the last interrupt returned, and its name
    due,        \* per way: how often Watched was typed minus how often returned
    overrun,    \* some access was at or behind IO_BUFFER_SIZE
    races,      \* how many interrupts came in the middle of get_chr
    hurried     \* an interrupt came before get_chr had returned 0 after the last

keyboard == <<g_ch, g_scan_code, g_caps_lock, g_shift_pressed, down, irqs>>
stack == <<buffer, buffer_pos, overrun>>
reader == <<call, at, spins, value, loaded>>
haste == <<races, hurried>>
vars == <<keyboard, stack, reader, got, due, haste>>

Init ==
    /\ g_ch = 0
    /\ g_scan_code = 0
    /\ g_caps_lock = FALSE
    /\ g_shift_pressed = FALSE
    /\ buffer = [i \in 0 .. Size - 1 |-> 0]
    /\ buffer_pos = 1
    /\ down = {}
    /\ irqs = 0
    /\ call = "none"
    /\ at = "poll"
    /\ spins = 0
    /\ value = 0
    /\ loaded = 0
    /\ got = [by |-> "none", char |-> 0]
    /\ due = [way \in {"g_ch", "stack"} |-> 0]
    /\ overrun = FALSE
    /\ races = 0
    /\ hurried = FALSE

----------------------------------------------------------------------------
\* mutant: buffer[buffer_pos++] = c
WriteAtBefore(p, c) ==
    /\ buffer' = [buffer EXCEPT ![p - 1] = c]
    /\ buffer_pos' = p
    /\ overrun' = (overrun \/ p \notin DOMAIN buffer)

(* kb_buffer.buffer[p] = c with buffer_pos = p: buffer[IO_BUFFER_SIZE] is  *)
(* buffer_pos itself, what lies behind it belongs to others.               *)
WriteAt(p, c) ==
    /\ buffer' = IF p \in DOMAIN buffer THEN [buffer EXCEPT ![p] = c] ELSE buffer
    /\ buffer_pos' = IF p = Size THEN c ELSE p
    /\ overrun' = (overrun \/ p \notin DOMAIN buffer)

(* what a read of kb_buffer.buffer[p] may yield *)
ReadAt(p) ==
    IF p \in DOMAIN buffer THEN {buffer[p]}
    ELSE IF p = Size THEN {buffer_pos}
    ELSE Chars \cup {0}

(* The model stops when buffer_pos has left the struct. *)
Inside == buffer_pos <= Size

(* the character of key k: the two modes of the default case of the switch *)
CharOf(k) ==
    IF k \in {Caps, Shift} THEN 0
    ELSE LET other == \/ k \in Letters /\ g_caps_lock # g_shift_pressed
                      \/ k \in Symbols /\ g_shift_pressed
         IN  IF other THEN OtherOf[k] ELSE PlainOf[k]

(* get_chr has seen everything that was typed *)
Drained == call = "none" /\ got = [by |-> "get_chr", char |-> 0]

(* every interrupt pushes g_ch *)
Interrupt(ch, code) ==
    /\ Inside
    /\ irqs < MaxIrqs
    /\ irqs' = irqs + 1
    /\ g_ch' = ch
    /\ g_scan_code' = code
    /\ WriteAt(buffer_pos + 1, ch)
    /\ due' = [way \in DOMAIN due |-> due[way] + IF ch = Watched THEN 1 ELSE 0]
    /\ races' = races + (IF call = "get_chr" /\ at # "look" THEN 1 ELSE 0)
    /\ hurried' = (hurried \/ ~ Drained)
    /\ got' = [by |-> "none", char |-> 0]
    /\ UNCHANGED reader

(* a make code; a key that is held down repeats it *)
Press(k) ==
    /\ Interrupt(CharOf(k), CodeOf[k])
    /\ down' = down \cup {k}
    /\ g_caps_lock' = IF k = Caps THEN ~ g_caps_lock ELSE g_caps_lock
    /\ g_shift_pressed' =
          IF k = Shift THEN TRUE
          ELSE IF k \in Letters \cup Symbols /\ ~ g_caps_lock THEN FALSE
          ELSE g_shift_pressed

(* a break code: bit 7 makes it negative in a char *)
Release(k) ==
    /\ k \in down
    /\ Interrupt(0, CodeOf[k] - 128)
    /\ down' = down \ {k}
    /\ UNCHANGED <<g_caps_lock, g_shift_pressed>>

----------------------------------------------------------------------------
Ways == [kb_getchar |-> "g_ch", kb_getchar_w |-> "g_ch", get_chr |-> "stack"]

(* the current call returns v *)
Return(v) ==
    /\ call' = "none"
    /\ at' = "poll"
    /\ spins' = 0
    /\ value' = 0
    /\ loaded' = 0
    /\ got' = [by |-> call, char |-> v]
    /\ due' = IF call \in DOMAIN Ways /\ v = Watched
              THEN [due EXCEPT ![Ways[call]] = @ - 1] ELSE due

Call(f) ==
    /\ Inside
    /\ call = "none"
    /\ call' = f
    /\ at' = IF f = "get_chr" THEN "look" ELSE "poll"
    /\ UNCHANGED <<keyboard, stack, spins, value, loaded, got, due, haste>>

Goto(l) == at' = l /\ UNCHANGED <<call, spins, got, due>>

(* the loop condition of the three g_ch readers *)
Arrived == IF call = "kb_get_scancode" THEN g_scan_code > 0 ELSE g_ch # 0

\* mutant: count > 100
PollAgainLonger ==
    /\ call = "kb_getchar" /\ at = "poll"
    /\ ~ Arrived
    /\ IF spins + 1 > Polls
       THEN Return(0)
       ELSE /\ spins' = spins + 1
            /\ UNCHANGED <<call, at, value, loaded, got, due>>
    /\ UNCHANGED <<keyboard, stack, haste>>

\* mutant: the count commented out, as it is in kb_getchar_w
PollAgainUncounted ==
    /\ call = "kb_getchar" /\ at = "poll"
    /\ ~ Arrived
    /\ UNCHANGED <<keyboard, stack, reader, got, due, haste>>

(* nothing there: only kb_getchar counts *)
PollAgain ==
    /\ call = "kb_getchar" /\ at = "poll"
    /\ ~ Arrived
    /\ IF spins + 1 >= Polls
       THEN Return(0)
       ELSE /\ spins' = spins + 1
            /\ UNCHANGED <<call, at, value, loaded, got, due>>
    /\ UNCHANGED <<keyboard, stack, haste>>

PollEnds ==
    /\ call \in {"kb_getchar", "kb_getchar_w", "kb_get_scancode"} /\ at = "poll"
    /\ Arrived
    /\ Goto("take")
    /\ UNCHANGED <<keyboard, stack, value, loaded, haste>>

Take ==
    /\ at = "take"
    /\ value' = IF call = "kb_get_scancode" THEN g_scan_code ELSE g_ch
    /\ Goto("clear_ch")
    /\ UNCHANGED <<keyboard, stack, loaded, haste>>

\* mutant: g_ch is not cleared
ClearChKept ==
    /\ at = "clear_ch"
    /\ Goto("clear_code")
    /\ UNCHANGED <<keyboard, stack, value, loaded, haste>>

ClearCh ==
    /\ at = "clear_ch"
    /\ g_ch' = 0
    /\ Goto("clear_code")
    /\ UNCHANGED <<g_scan_code, g_caps_lock, g_shift_pressed, down, irqs>>
    /\ UNCHANGED <<stack, value, loaded, haste>>

ClearCode ==
    /\ at = "clear_code"
    /\ g_scan_code' = 0
    /\ Return(value)
    /\ UNCHANGED <<g_ch, g_caps_lock, g_shift_pressed, down, irqs, stack, haste>>

----------------------------------------------------------------------------
(* get_char: a 0 on top of the stack is EOF and stays there *)
Look ==
    /\ at = "look"
    /\ \E v \in ReadAt(buffer_pos) :
          /\ value' = v
          /\ Goto(IF v = 0 THEN "unget" ELSE "load")
    /\ overrun' = (overrun \/ buffer_pos \notin DOMAIN buffer)
    /\ UNCHANGED <<keyboard, buffer, buffer_pos, loaded, haste>>

(* if (buffer_pos > 0) buffer_pos--: load ... *)
Load ==
    /\ at = "load"
    /\ loaded' = IF buffer_pos > 0 THEN buffer_pos ELSE 0
    /\ Goto(IF buffer_pos > 0 THEN "store" ELSE "popped")
    /\ UNCHANGED <<keyboard, stack, value, haste>>

\* mutant: the character is read but not taken off
StoreKept ==
    /\ at = "store"
    /\ loaded' = 0
    /\ Goto("popped")
    /\ UNCHANGED <<keyboard, stack, value, haste>>

(* ... and store *)
Store ==
    /\ at = "store"
    /\ buffer_pos' = loaded - 1
    /\ loaded' = 0
    /\ Goto("popped")
    /\ UNCHANGED <<keyboard, buffer, overrun, value, haste>>

(* get_chr returns what get_char returned, or puts the EOF back *)
Popped ==
    /\ at = "popped"
    /\ IF value = Eof
       THEN Goto("unget") /\ UNCHANGED <<value, loaded>>
       ELSE Return(value)
    /\ UNCHANGED <<keyboard, stack, haste>>

(* unget_char(EOF): buffer_pos++ ... *)
Unget ==
    /\ at = "unget"
    /\ loaded' = buffer_pos
    /\ Goto("increment")
    /\ UNCHANGED <<keyboard, stack, value, haste>>

Increment ==
    /\ at = "increment"
    /\ buffer_pos' = loaded + 1
    /\ loaded' = 0
    /\ Goto("check")
    /\ UNCHANGED <<keyboard, buffer, overrun, value, haste>>

(* ... which stays incremented when there is no room: get_chr returns -1 *)
Check ==
    /\ at = "check"
    /\ IF buffer_pos >= Size
       THEN Return(-1) /\ overrun' = TRUE
       ELSE Goto("put") /\ UNCHANGED <<value, loaded, overrun>>
    /\ UNCHANGED <<keyboard, buffer, buffer_pos, haste>>

(* the EOF is on the stack again; get_chr returns 0 *)
Put ==
    /\ at = "put"
    /\ WriteAt(buffer_pos, Eof)
    /\ Return(0)
    /\ UNCHANGED <<keyboard, haste>>

Main ==
    \/ \E f \in {"kb_getchar", "kb_getchar_w", "kb_get_scancode", "get_chr"} : Call(f)
    \/ PollAgain \/ PollEnds \/ Take \/ ClearCh \/ ClearCode
    \/ Look \/ Load \/ Store \/ Popped \/ Unget \/ Increment \/ Check \/ Put

Irq == \E k \in Keys : Press(k) \/ Release(k)

Next == Main \/ Irq

(* Main is never off the processor for ever; nothing makes anybody type. *)
Spec == Init /\ [][Next]_vars /\ WF_vars(Main)

----------------------------------------------------------------------------
(* The ranges of the variables.  buffer_pos may be anything the aliasing   *)
(* of buffer[IO_BUFFER_SIZE] puts there.                                   *)
TypeOK ==
    /\ g_ch \in Chars \cup {0}
    /\ g_scan_code \in -127 .. 127
    /\ g_caps_lock \in BOOLEAN /\ g_shift_pressed \in BOOLEAN
    /\ buffer \in [0 .. Size - 1 -> Chars \cup {0, Eof}]
    /\ buffer_pos \in Eof .. Size + 2
    /\ down \subseteq Keys
    /\ spins \in 0 .. Polls - 1
    /\ overrun \in BOOLEAN

(* The readers of g_ch deliver a key press at most once, although they     *)
(* test g_ch, copy it and clear it in separate steps and the handler may   *)
(* come between any two (keyboard.c:203-240).                              *)
OneShotRead == due["g_ch"] >= 0

(* As long as kb_buffer has not been full, the terminal gets nothing but   *)
(* characters, and each no more often than it was typed, but for one more  *)
(* with each interrupt in the middle of get_chr: buffer_pos-- and          *)
(* buffer_pos++ (keyboard.c:347, 355) are a load and a store, and undo     *)
(* what the handler pushes in between, however many interrupts come.       *)
NothingInvented ==
    ~ overrun =>
        /\ due["stack"] + races >= 0
        /\ got.by = "get_chr" => got.char \in Chars \cup {0}

(* Nothing is lost either when the terminal looks until there is nothing   *)
(* more after every interrupt: a make code, a break code and the EOF that  *)
(* get_chr puts back never hide a character.                               *)
SlowTypingArrives ==
    ~ overrun /\ ~ hurried /\ Drained => due["stack"] = 0

(* No reader but the two that wait hangs the terminal's loop, whatever is  *)
(* typed or not (kernel.c:738-786).                                        *)
LoopGoesOn == (call \in {"kb_getchar", "get_chr"}) ~> (call = "none")
=============================================================================
