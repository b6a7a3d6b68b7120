---------------------------- MODULE KeyboardProof ----------------------------
(***************************************************************************)
(* The safety of both input paths, for every size of the stack and any     *)
(* number of interrupts.  The argument: due is the number of watched       *)
(* characters that are still to be delivered.  On the way through g_ch     *)
(* that is at least one for the character in g_ch and one for the one the  *)
(* reader has copied and cleared (CreditInv).  On the way through the      *)
(* stack it is exactly the number of them up to the top, as long as no     *)
(* interrupt comes in the middle of get_chr (CountInv), and at most one    *)
(* more for each that does (RaceInv); and nothing but zeros and EOFs is    *)
(* below the top when every character is awaited with get_chr returning 0  *)
(* (SlowInv).                                                              *)
(***************************************************************************)
EXTENDS Keyboard, FiniteSetTheorems, TLAPS

Readers == {"kb_getchar", "kb_getchar_w", "kb_get_scancode", "get_chr"}
Takes == {"take", "clear_ch", "clear_code"}
Gets == {"look", "load", "store", "popped", "unget", "increment", "check", "put"}
Bytes == Chars \cup {0}

Types ==
    /\ g_ch \in Bytes
    /\ g_scan_code \in -127 .. 127
    /\ g_caps_lock \in BOOLEAN /\ g_shift_pressed \in BOOLEAN
    /\ buffer \in [0 .. Size - 1 -> Bytes \cup {Eof}]
    /\ down \subseteq Keys
    /\ spins \in 0 .. Polls - 1
    /\ overrun \in BOOLEAN /\ races \in Nat /\ hurried \in BOOLEAN
    /\ due \in [{"g_ch", "stack"} -> Int]

(* Which reader is where. *)
Place ==
    /\ call \in Readers \cup {"none"}
    /\ at \in {"poll"} \cup Takes \cup Gets
    /\ call = "none" => at = "poll"
    /\ call = "get_chr" <=> at \in Gets

(* buffer_pos, whatever was overrun *)
PosInv ==
    /\ buffer_pos \in Eof .. Size + 2
    /\ buffer_pos = Size + 2 => call = "none" \/ at = "check"
    /\ at = "store" => loaded \in 1 .. Size + 1
    /\ at = "increment" => loaded \in Eof .. Size + 1

(* g_ch and what was copied from it are each still to be delivered. *)
CreditInv ==
    /\ due["g_ch"] >= 0
    /\ g_ch = Watched => due["g_ch"] >= 1
    /\ call \in {"kb_getchar", "kb_getchar_w"} /\ value = Watched =>
          /\ at = "clear_ch" => due["g_ch"] >= 1
          /\ at = "clear_code" => due["g_ch"] >= 1 /\ (g_ch = Watched => due["g_ch"] >= 2)

(* The stack as long as it was not overrun, whatever interrupts came when. *)
StackInv ==
    ~ overrun =>
        /\ buffer_pos \in 0 .. Size
        /\ buffer_pos = Size => at = "check"
        /\ at \in {"check", "put"} => buffer_pos >= 1
        /\ at = "store" => loaded \in 1 .. Size - 1
        /\ at = "increment" => loaded \in 0 .. Size - 1
        /\ buffer[0] = 0
        /\ at \in {"load", "store", "popped"} => value \in Chars \cup {Eof}
        /\ got.by = "get_chr" => got.char \in Bytes

(* The top of the stack: unget_char raises buffer_pos before it writes. *)
Top == IF at \in {"check", "put"} THEN buffer_pos - 1 ELSE buffer_pos

Below(b, p) == {i \in 0 .. p : b[i] = Watched}
Count(b, p) == Cardinality(Below(b, p))

CountInv ==
    ~ overrun /\ races = 0 =>
        /\ due["stack"] = Count(buffer, Top) + IF at = "popped" /\ value = Watched THEN 1 ELSE 0
        /\ at \in {"load", "store"} => value = buffer[buffer_pos]
        /\ at \in {"store", "increment"} => loaded = buffer_pos

(* What get_chr may still deliver, with interrupts in the middle of it: the *)
(* cells up to Settled, and the character it has already taken.             *)
Settled ==
    IF at \in {"load", "check", "put"} THEN buffer_pos - 1
    ELSE IF at = "store" THEN loaded - 1
    ELSE IF at = "increment" THEN loaded
    ELSE buffer_pos
Taken == IF at \in {"load", "store", "popped"} /\ value = Watched THEN 1 ELSE 0

RaceInv ==
    ~ overrun =>
        /\ Count(buffer, Settled) + Taken <= due["stack"] + races
        /\ at = "load" => buffer_pos >= 1
        /\ at \in {"store", "increment"} => loaded <= buffer_pos

(* Up to where there is nothing to deliver. *)
Cleared ==
    IF at \in {"popped", "unget", "increment", "check", "put"} \/ Drained THEN Top ELSE Top - 1

SlowInv ==
    ~ overrun /\ ~ hurried =>
        /\ races = 0
        /\ \A i \in 0 .. Cleared : buffer[i] # Watched

IndInv == Types /\ Place /\ PosInv /\ CreditInv /\ StackInv /\ CountInv /\ RaceInv /\ SlowInv

----------------------------------------------------------------------------
(* What an interrupt stores.                                               *)
LEMMA CharIsByte == \A k \in Keys : CharOf(k) \in Bytes
  BY KeyboardConstants DEF CharOf, Bytes, Chars, Keys

LEMMA IrqStores ==
  ASSUME Irq
  PROVE  \E ch \in Bytes, code \in -127 .. 127 : Interrupt(ch, code)
<1>1. CASE \E k \in Keys : Press(k)
  <2>1. PICK k \in Keys : Press(k)
    BY <1>1
  <2>2. CharOf(k) \in Bytes /\ CodeOf[k] \in -127 .. 127
    BY CharIsByte, KeyboardConstants, SMT
  <2>3. Interrupt(CharOf(k), CodeOf[k])
    BY <2>1 DEF Press
  <2> QED
    BY <2>2, <2>3
<1>2. CASE \E k \in Keys : Release(k)
  <2>1. PICK k \in Keys : Release(k)
    BY <1>2
  <2>2. 0 \in Bytes /\ CodeOf[k] - 128 \in -127 .. 127
    BY KeyboardConstants, SMT DEF Bytes
  <2>3. Interrupt(0, CodeOf[k] - 128)
    BY <2>1 DEF Release
  <2> QED
    BY <2>2, <2>3
<1> QED
  BY <1>1, <1>2 DEF Irq

(* The character 0, the EOF and the watched character are three.           *)
LEMMA Distinct == Watched \in Chars /\ Chars \subseteq 1 .. Size - 1 /\ Size \in Nat /\ Size > 1
  BY KeyboardConstants

----------------------------------------------------------------------------
(* Counting the watched characters.                                        *)
LEMMA CountIsNat ==
  ASSUME NEW b, NEW p \in Int
  PROVE  IsFiniteSet(Below(b, p)) /\ Count(b, p) \in Nat
<1>1. IsFiniteSet(0 .. p)
  BY FS_Interval
<1>2. Below(b, p) \subseteq 0 .. p
  BY DEF Below
<1>3. IsFiniteSet(Below(b, p))
  BY <1>1, <1>2, FS_Subset
<1> QED
  BY <1>3, FS_CardinalityType DEF Count

(* The count depends on the cells up to p only ...                         *)
LEMMA CountSame ==
  ASSUME NEW b, NEW c, NEW p \in Int, \A i \in 0 .. p : b[i] = c[i]
  PROVE  Count(b, p) = Count(c, p)
  BY DEF Count, Below

(* ... grows by one with a watched character ...                           *)
LEMMA CountStep ==
  ASSUME NEW b, NEW p \in Nat
  PROVE  Count(b, p) = Count(b, p - 1) + IF b[p] = Watched THEN 1 ELSE 0
<1>1. CASE b[p] = Watched
  <2>1. Below(b, p) = Below(b, p - 1) \cup {p} /\ p \notin Below(b, p - 1)
    BY <1>1, SMT DEF Below
  <2>2. IsFiniteSet(Below(b, p - 1)) /\ Count(b, p - 1) \in Nat
    BY CountIsNat, p - 1 \in Int
  <2> QED
    BY <1>1, <2>1, <2>2, FS_AddElement DEF Count
<1>2. CASE b[p] # Watched
  <2>1. Below(b, p) = Below(b, p - 1)
    BY <1>2, SMT DEF Below
  <2>2. Count(b, p - 1) \in Nat
    BY CountIsNat, p - 1 \in Int
  <2> QED
    BY <1>2, <2>1, <2>2 DEF Count
<1> QED
  BY <1>1, <1>2

(* ... and is 0 where there is none.                                       *)
LEMMA CountNone ==
  ASSUME NEW b, NEW p \in Int, \A i \in 0 .. p : b[i] # Watched
  PROVE  Count(b, p) = 0
<1>1. Below(b, p) = {}
  BY DEF Below
<1> QED
  BY <1>1, FS_EmptySet DEF Count

----------------------------------------------------------------------------
(* The program starts with nothing typed and nothing due.                  *)
LEMMA InitInv == Init => IndInv
<1> SUFFICES ASSUME Init PROVE IndInv
  OBVIOUS
<1>1. Types
  <2>1. 0 \in Bytes
    BY DEF Bytes
  <2>2. buffer \in [0 .. Size - 1 -> Bytes \cup {Eof}]
    BY <2>1 DEF Init
  <2>3. due \in [{"g_ch", "stack"} -> Int]
    BY DEF Init
  <2>4. spins \in 0 .. Polls - 1 /\ g_scan_code \in -127 .. 127
    BY KeyboardConstants, SMT DEF Init
  <2> QED
    BY <2>1, <2>2, <2>3, <2>4 DEF Init, Types
<1>2. Place /\ PosInv /\ CreditInv /\ StackInv
  BY Distinct, SMT DEF Init, Place, PosInv, CreditInv, StackInv, Readers, Takes, Gets, Eof
<1>3. \A i \in 0 .. 1 : buffer[i] # Watched
  BY Distinct, SMT DEF Init
<1>4. Top = 1 /\ ~ Drained
  BY DEF Init, Top, Drained
<1>5. CountInv
  <2>1. Count(buffer, 1) = 0
    BY <1>3, CountNone
  <2> QED
    BY <1>4, <2>1 DEF Init, CountInv
<1>6. SlowInv
  BY <1>3, <1>4, SMT DEF Init, SlowInv, Cleared
<1>7. RaceInv
  <2>1. Count(buffer, 1) = 0
    BY <1>3, CountNone
  <2>2. Settled = 1 /\ Taken = 0 /\ at = "poll" /\ due["stack"] = 0 /\ races = 0
    BY DEF Init, Settled, Taken
  <2> QED
    BY <2>1, <2>2 DEF RaceInv
<1> QED
  BY <1>1, <1>2, <1>5, <1>6, <1>7 DEF IndInv

(* A return counts once, for the way the reader takes.                     *)
LEMMA ReturnCounts ==
  ASSUME due \in [{"g_ch", "stack"} -> Int], NEW v, Return(v)
  PROVE  /\ due' \in [{"g_ch", "stack"} -> Int]
         /\ due'["g_ch"] = IF call \in {"kb_getchar", "kb_getchar_w"} /\ v = Watched
                           THEN due["g_ch"] - 1 ELSE due["g_ch"]
         /\ due'["stack"] = IF call = "get_chr" /\ v = Watched
                            THEN due["stack"] - 1 ELSE due["stack"]
<1>a. /\ DOMAIN Ways = {"kb_getchar", "kb_getchar_w", "get_chr"}
      /\ Ways["kb_getchar"] = "g_ch" /\ Ways["kb_getchar_w"] = "g_ch" /\ Ways["get_chr"] = "stack"
  BY DEF Ways
<1>b. due' = IF call \in DOMAIN Ways /\ v = Watched
             THEN [due EXCEPT ![Ways[call]] = due[Ways[call]] - 1] ELSE due
  BY Zenon DEF Return
<1>c. due["g_ch"] - 1 \in Int /\ due["stack"] - 1 \in Int
  OBVIOUS
<1>1. CASE call \in {"kb_getchar", "kb_getchar_w"} /\ v = Watched
  <2>1. due' = [due EXCEPT !["g_ch"] = due["g_ch"] - 1]
    BY <1>a, <1>b, <1>1, Zenon
  <2> QED
    BY <1>1, <1>c, <2>1
<1>2. CASE call = "get_chr" /\ v = Watched
  <2>1. due' = [due EXCEPT !["stack"] = due["stack"] - 1]
    BY <1>a, <1>b, <1>2, Zenon
  <2> QED
    BY <1>2, <1>c, <2>1
<1>3. CASE call \notin {"kb_getchar", "kb_getchar_w", "get_chr"} \/ v # Watched
  <2>1. due' = due
    BY <1>a, <1>b, <1>3, Zenon
  <2> QED
    BY <1>3, <2>1
<1> QED
  BY <1>1, <1>2, <1>3

(* Every step keeps the ranges.                                            *)
LEMMA TypesNext == Types /\ Place /\ PosInv /\ [Next]_vars => Types'
<1> SUFFICES ASSUME Types, Place, PosInv, [Next]_vars PROVE Types'
  OBVIOUS
<1> USE Distinct
<1>1. ASSUME NEW f, Call(f) PROVE Types'
  BY <1>1 DEF Types, Call, keyboard, stack, haste
<1>2. CASE PollAgain
  <2>1. due' \in [{"g_ch", "stack"} -> Int]
    BY <1>2, ReturnCounts DEF Types, PollAgain
  <2>2. spins' \in 0 .. Polls - 1
    BY <1>2, KeyboardConstants, SMT DEF Types, PollAgain, Return
  <2> QED
    BY <1>2, <2>1, <2>2 DEF Types, PollAgain, keyboard, stack, haste
<1>3. CASE PollEnds \/ Take
  <2>1. CASE PollEnds
    BY <2>1 DEF Types, PollEnds, Goto, keyboard, stack, haste
  <2>2. CASE Take
    BY <2>2 DEF Types, Take, Goto, keyboard, stack, haste
  <2> QED
    BY <1>3, <2>1, <2>2
<1>4. CASE ClearCh
  BY <1>4 DEF Types, ClearCh, Goto, stack, haste, Bytes
<1>5. CASE ClearCode
  <2>1. due' \in [{"g_ch", "stack"} -> Int]
    BY <1>5, ReturnCounts DEF Types, ClearCode
  <2>2. spins' \in 0 .. Polls - 1
    BY <1>5, KeyboardConstants, SMT DEF Types, ClearCode, Return
  <2> QED
    BY <1>5, <2>1, <2>2 DEF Types, ClearCode, stack, haste
<1>6. CASE Look \/ Load
  <2>1. CASE Look
    BY <2>1 DEF Types, Look, Goto, keyboard, stack, haste
  <2>2. CASE Load
    BY <2>2 DEF Types, Load, Goto, keyboard, stack, haste
  <2> QED
    BY <1>6, <2>1, <2>2
<1>7. CASE Store \/ Unget \/ Increment
  <2>1. CASE Store
    BY <2>1 DEF Types, Store, Goto, keyboard, stack, haste
  <2>2. CASE Unget
    BY <2>2 DEF Types, Unget, Goto, keyboard, stack, haste
  <2>3. CASE Increment
    BY <2>3 DEF Types, Increment, Goto, keyboard, stack, haste
  <2> QED
    BY <1>7, <2>1, <2>2, <2>3
<1>8. CASE Popped
  <2>1. due' \in [{"g_ch", "stack"} -> Int]
    BY <1>8, ReturnCounts DEF Types, Popped, Goto
  <2>2. spins' \in 0 .. Polls - 1
    BY <1>8, KeyboardConstants, SMT DEF Types, Popped, Goto, Return
  <2> QED
    BY <1>8, <2>1, <2>2 DEF Types, Popped, Goto, keyboard, stack, haste
<1>9. CASE Check
  <2>1. due' \in [{"g_ch", "stack"} -> Int]
    BY <1>9, ReturnCounts DEF Types, Check, Goto
  <2>2. spins' \in 0 .. Polls - 1
    BY <1>9, KeyboardConstants, SMT DEF Types, Check, Goto, Return
  <2> QED
    BY <1>9, <2>1, <2>2 DEF Types, Check, Goto, keyboard, stack, haste
<1>10. CASE Put
  <2>1. due' \in [{"g_ch", "stack"} -> Int]
    BY <1>10, ReturnCounts DEF Types, Put
  <2>2. spins' \in 0 .. Polls - 1
    BY <1>10, KeyboardConstants, SMT DEF Types, Put, Return
  <2>3. buffer' \in [0 .. Size - 1 -> Bytes \cup {Eof}]
    BY <1>10 DEF Types, Put, WriteAt
  <2>4. overrun' \in BOOLEAN
    BY <1>10 DEF Types, Put, WriteAt
  <2>5. /\ g_ch' = g_ch /\ g_scan_code' = g_scan_code /\ down' = down
        /\ g_caps_lock' = g_caps_lock /\ g_shift_pressed' = g_shift_pressed
        /\ races' = races /\ hurried' = hurried
    BY <1>10 DEF Put, keyboard, haste
  <2> QED
    BY <2>1, <2>2, <2>3, <2>4, <2>5, Zenon DEF Types
<1>11. CASE Irq
  <2>1. PICK ch \in Bytes, code \in -127 .. 127 : Interrupt(ch, code)
    BY <1>11, IrqStores
  <2>2. g_caps_lock' \in BOOLEAN /\ g_shift_pressed' \in BOOLEAN /\ down' \subseteq Keys
    BY <1>11 DEF Irq, Press, Release, Types
  <2> QED
    BY <2>1, <2>2, SMT DEF Types, Interrupt, WriteAt, Drained, reader
<1>12. CASE UNCHANGED vars
  <2>1. /\ g_ch' = g_ch /\ g_scan_code' = g_scan_code /\ down' = down
        /\ g_caps_lock' = g_caps_lock /\ g_shift_pressed' = g_shift_pressed
        /\ races' = races /\ hurried' = hurried
        /\ buffer' = buffer /\ overrun' = overrun /\ due' = due /\ spins' = spins
    BY <1>12 DEF vars, keyboard, stack, haste, reader
  <2> QED
    BY <2>1, Zenon DEF Types
<1> QED
  BY <1>1, <1>2, <1>3, <1>4, <1>5, <1>6, <1>7, <1>8, <1>9, <1>10, <1>11, <1>12 DEF Next, Main

(* Every step leaves the reader at a place of its own.                     *)
LEMMA PlaceNext == Place /\ [Next]_vars => Place'
<1> SUFFICES ASSUME Place, [Next]_vars PROVE Place'
  OBVIOUS
<1> USE DEF Place, Readers, Takes, Gets, keyboard, stack, haste, reader
<1>1. ASSUME NEW f \in {"kb_getchar", "kb_getchar_w", "kb_get_scancode", "get_chr"}, Call(f)
      PROVE  Place'
  BY <1>1 DEF Call
<1>2. CASE PollAgain
  BY <1>2 DEF PollAgain, Return
<1>3. CASE PollEnds \/ Take \/ ClearCh \/ ClearCode
  BY <1>3 DEF PollEnds, Take, ClearCh, ClearCode, Goto, Return
<1>4. CASE Look \/ Load \/ Store \/ Unget \/ Increment
  BY <1>4 DEF Look, Load, Store, Unget, Increment, Goto
<1>5. CASE Popped \/ Check \/ Put
  BY <1>5 DEF Popped, Check, Put, Goto, Return
<1>6. CASE Irq
  BY <1>6 DEF Irq, Press, Release, Interrupt
<1>7. CASE UNCHANGED vars
  BY <1>7 DEF vars
<1> QED
  BY <1>1, <1>2, <1>3, <1>4, <1>5, <1>6, <1>7 DEF Next, Main

(* Every step keeps buffer_pos within two of the end.                      *)
LEMMA PosNext == Types /\ Place /\ PosInv /\ [Next]_vars => PosInv'
<1> SUFFICES ASSUME Types, Place, PosInv, [Next]_vars PROVE PosInv'
  OBVIOUS
<1> USE Distinct DEF PosInv, Eof
<1>1. ASSUME NEW f, Call(f) PROVE PosInv'
  BY <1>1 DEF Call, Inside, stack
<1>2. CASE PollAgain \/ PollEnds \/ Take \/ ClearCh \/ ClearCode
  BY <1>2 DEF PollAgain, PollEnds, Take, ClearCh, ClearCode, Goto, Return, stack, reader, Place, Gets, Takes
<1>3. CASE Look \/ Load \/ Unget
  BY <1>3, SMT DEF Look, Load, Unget, Goto, stack, Place, Gets
<1>4. CASE Store \/ Increment
  BY <1>4, SMT DEF Store, Increment, Goto, Place, Gets
<1>5. CASE Popped \/ Check
  BY <1>5, SMT DEF Popped, Check, Goto, Return, stack, Place, Gets
<1>6. CASE Put
  BY <1>6, SMT DEF Put, WriteAt, Return, Place, Gets
<1>7. CASE Irq
  <2>1. PICK ch \in Bytes, code \in -127 .. 127 : Interrupt(ch, code)
    BY <1>7, IrqStores
  <2> QED
    BY <2>1, SMT DEF Interrupt, WriteAt, Inside, reader, Bytes
<1>8. CASE UNCHANGED vars
  BY <1>8 DEF vars, stack, reader
<1> QED
  BY <1>1, <1>2, <1>3, <1>4, <1>5, <1>6, <1>7, <1>8 DEF Next, Main

(* What is in g_ch, and what a reader has copied from it, stays due.       *)
LEMMA CreditNext == Types /\ Place /\ CreditInv /\ [Next]_vars => CreditInv'
<1> SUFFICES ASSUME Types, Place, CreditInv, [Next]_vars PROVE CreditInv'
  OBVIOUS
<1> USE Distinct DEF CreditInv
<1>1. ASSUME NEW f, Call(f) PROVE CreditInv'
  BY <1>1 DEF Call, keyboard
<1>2. CASE PollAgain
  <2>1. due'["g_ch"] = due["g_ch"] /\ at' = "poll" /\ g_ch' = g_ch
    BY <1>2, ReturnCounts DEF Types, PollAgain, keyboard, Return
  <2> QED
    BY <2>1
<1>3. CASE PollEnds
  BY <1>3 DEF PollEnds, Goto, keyboard
<1>4. CASE Take
  BY <1>4 DEF Take, Goto, keyboard
<1>5. CASE ClearCh
  BY <1>5 DEF ClearCh, Goto
<1>6. CASE ClearCode
  <2>1. /\ due'["g_ch"] = IF call \in {"kb_getchar", "kb_getchar_w"} /\ value = Watched
                          THEN due["g_ch"] - 1 ELSE due["g_ch"]
        /\ at = "clear_code" /\ at' = "poll" /\ g_ch' = g_ch
    BY <1>6, ReturnCounts DEF Types, ClearCode, Return
  <2>2. due["g_ch"] \in Int
    BY DEF Types
  <2> QED
    BY <2>1, <2>2, SMT
<1>7. CASE Look \/ Load \/ Store \/ Unget \/ Increment
  BY <1>7 DEF Look, Load, Store, Unget, Increment, Goto, keyboard
<1>8. CASE Popped \/ Check \/ Put
  <2>1. call = "get_chr"
    BY <1>8 DEF Place, Gets, Popped, Check, Put
  <2>2. due'["g_ch"] = due["g_ch"] /\ g_ch' = g_ch /\ at' \in {"poll", "unget", "put"}
    BY <1>8, <2>1, ReturnCounts DEF Types, Popped, Check, Put, Goto, Return, keyboard
  <2> QED
    BY <2>2
<1>9. CASE Irq
  <2>1. PICK ch \in Bytes, code \in -127 .. 127 : Interrupt(ch, code)
    BY <1>9, IrqStores
  <2>2. due'["g_ch"] = due["g_ch"] + (IF ch = Watched THEN 1 ELSE 0) /\ g_ch' = ch
    BY <2>1 DEF Interrupt, Types
  <2>3. call' = call /\ at' = at /\ value' = value
    BY <2>1 DEF Interrupt, reader
  <2>4. due["g_ch"] \in Int
    BY DEF Types
  <2> QED
    BY <2>2, <2>3, <2>4, SMT
<1>10. CASE UNCHANGED vars
  BY <1>10 DEF vars, keyboard, reader
<1> QED
  BY <1>1, <1>2, <1>3, <1>4, <1>5, <1>6, <1>7, <1>8, <1>9, <1>10 DEF Next, Main

----------------------------------------------------------------------------
(* The stack, as long as it is not overrun.  No step takes overrun back.   *)
LEMMA OverrunStays == Types /\ [Next]_vars /\ overrun => overrun'
<1> SUFFICES ASSUME Types, [Next]_vars, overrun PROVE overrun'
  OBVIOUS
<1>1. ASSUME NEW f, Call(f) PROVE overrun'
  BY <1>1 DEF Call, stack
<1>2. CASE PollAgain \/ PollEnds \/ Take \/ ClearCh \/ ClearCode
  BY <1>2 DEF PollAgain, PollEnds, Take, ClearCh, ClearCode, stack
<1>3. CASE Look \/ Load \/ Store \/ Popped \/ Unget \/ Increment \/ Check \/ Put
  BY <1>3 DEF Look, Load, Store, Popped, Unget, Increment, Check, Put, WriteAt, stack
<1>4. CASE Irq
  BY <1>4 DEF Irq, Press, Release, Interrupt, WriteAt
<1> QED
  BY <1>1, <1>2, <1>3, <1>4 DEF Next, Main, vars, stack

(* Every step keeps to the stack until it is overrun.                      *)
LEMMA StackNext == Types /\ Place /\ PosInv /\ StackInv /\ [Next]_vars => StackInv'
<1> SUFFICES ASSUME Types, Place, PosInv, StackInv, [Next]_vars, ~ overrun' PROVE StackInv'
  BY DEF StackInv
<1>a. ~ overrun
  BY OverrunStays
<1> USE <1>a, Distinct DEF StackInv, Eof
<1>1. ASSUME NEW f, Call(f) PROVE StackInv'
  BY <1>1 DEF Call, stack, Inside, Place, Gets
<1>2. CASE PollAgain \/ PollEnds \/ Take \/ ClearCh \/ ClearCode
  BY <1>2 DEF PollAgain, PollEnds, Take, ClearCh, ClearCode, Goto, Return, stack, Place, Gets, Takes
<1>3. CASE Look
  <2>1. value' = buffer[buffer_pos] /\ at' = (IF value' = 0 THEN "unget" ELSE "load")
    BY <1>3 DEF Look, ReadAt, Goto
  <2>2. buffer[buffer_pos] \in Bytes \cup {Eof}
    BY <1>3 DEF Types, Look
  <2> QED
    BY <1>3, <2>1, <2>2 DEF Look, Goto, Bytes
<1>4. CASE Load
  BY <1>4, SMT DEF Load, Goto, stack
<1>5. CASE Store
  BY <1>5, SMT DEF Store, Goto
<1>6. CASE Popped
  BY <1>6 DEF Popped, Goto, Return, stack, Bytes
<1>7. CASE Unget
  BY <1>7, SMT DEF Unget, Goto, stack
<1>8. CASE Increment
  BY <1>8, SMT DEF Increment, Goto
<1>9. CASE Check
  BY <1>9, SMT DEF Check, Goto, Return
<1>10. CASE Put
  <2>1. buffer_pos \in 1 .. Size - 1
    BY <1>10, SMT DEF Put
  <2>2. buffer' = [buffer EXCEPT ![buffer_pos] = Eof] /\ buffer_pos' = buffer_pos
    BY <1>10, <2>1 DEF Put, WriteAt, Types
  <2>3. buffer'[0] = 0
    BY <2>1, <2>2 DEF Types
  <2>4. got' = [by |-> call, char |-> 0] /\ at' = "poll"
    BY <1>10 DEF Put, Return
  <2> QED
    BY <2>1, <2>2, <2>3, <2>4 DEF Bytes
<1>11. CASE Irq
  <2>1. PICK ch \in Bytes, code \in -127 .. 127 : Interrupt(ch, code)
    BY <1>11, IrqStores
  <2>2. buffer_pos + 1 \in 1 .. Size - 1
    <3>1. buffer_pos + 1 \in DOMAIN buffer
      BY <2>1 DEF Interrupt, WriteAt
    <3> QED
      BY <3>1, SMT DEF Types
  <2>3. buffer' = [buffer EXCEPT ![buffer_pos + 1] = ch] /\ buffer_pos' = buffer_pos + 1
    BY <2>1, <2>2 DEF Interrupt, WriteAt, Types
  <2>4. buffer'[0] = 0
    BY <2>2, <2>3 DEF Types
  <2>5. got' = [by |-> "none", char |-> 0] /\ at' = at /\ loaded' = loaded /\ value' = value
    BY <2>1 DEF Interrupt, reader
  <2> QED
    BY <2>2, <2>3, <2>4, <2>5, SMT
<1>12. CASE UNCHANGED vars
  BY <1>12 DEF vars, stack, reader
<1> QED
  BY <1>1, <1>2, <1>3, <1>4, <1>5, <1>6, <1>7, <1>8, <1>9, <1>10, <1>11, <1>12 DEF Next, Main

(* races and hurried change only at an interrupt.                          *)
LEMMA OnlyIrqHastes == [Next]_vars /\ ~ Irq => races' = races /\ hurried' = hurried
<1> SUFFICES ASSUME [Next]_vars, ~ Irq PROVE races' = races /\ hurried' = hurried
  OBVIOUS
<1>1. ASSUME NEW f, Call(f) PROVE races' = races /\ hurried' = hurried
  BY <1>1 DEF Call, haste
<1>2. CASE PollAgain \/ PollEnds \/ Take \/ ClearCh \/ ClearCode
  BY <1>2 DEF PollAgain, PollEnds, Take, ClearCh, ClearCode, haste
<1>3. CASE Look \/ Load \/ Store \/ Popped \/ Unget \/ Increment \/ Check \/ Put
  BY <1>3 DEF Look, Load, Store, Popped, Unget, Increment, Check, Put, haste
<1>4. CASE UNCHANGED vars
  BY <1>4 DEF vars, haste
<1> QED
  BY <1>1, <1>2, <1>3, <1>4 DEF Next, Main

(* While the stack is not overrun, every write is inside it.               *)
LEMMA PutWrites ==
  ASSUME Types, StackInv, ~ overrun, Put
  PROVE  /\ buffer_pos \in 1 .. Size - 1 /\ buffer_pos' = buffer_pos
         /\ buffer' = [buffer EXCEPT ![buffer_pos] = Eof]
<1>1. buffer_pos \in 1 .. Size - 1
  BY Distinct, SMT DEF StackInv, Put
<1> QED
  BY <1>1 DEF Put, WriteAt, Types

LEMMA IrqWrites ==
  ASSUME Types, StackInv, ~ overrun', ~ overrun, NEW ch, NEW code, Interrupt(ch, code)
  PROVE  /\ buffer_pos + 1 \in 1 .. Size - 1 /\ buffer_pos' = buffer_pos + 1
         /\ buffer' = [buffer EXCEPT ![buffer_pos + 1] = ch]
<1>1. buffer_pos + 1 \in DOMAIN buffer
  BY DEF Interrupt, WriteAt
<1>2. buffer_pos + 1 \in 1 .. Size - 1
  BY <1>1, SMT DEF Types, StackInv
<1> QED
  BY <1>1, <1>2 DEF Interrupt, WriteAt

(* Every step keeps what is due on the stack.                              *)
LEMMA CountNext == Types /\ Place /\ PosInv /\ StackInv /\ CountInv /\ [Next]_vars => CountInv'
<1> SUFFICES ASSUME Types, Place, PosInv, StackInv, CountInv, [Next]_vars, ~ overrun', races' = 0
             PROVE  CountInv'
  BY DEF CountInv
<1>a. ~ overrun
  BY OverrunStays
<1>b. races = 0
  <2>1. CASE Irq
    <3>1. PICK ch \in Bytes, code \in -127 .. 127 : Interrupt(ch, code)
      BY <2>1, IrqStores
    <3> QED
      BY <3>1 DEF Interrupt, Types
  <2>2. CASE ~ Irq
    BY <2>2, OnlyIrqHastes
  <2> QED
    BY <2>1, <2>2
<1>c. due["stack"] \in Int /\ \A p \in Int : Count(buffer, p) \in Nat
  BY CountIsNat DEF Types
<1>d. /\ due["stack"] = Count(buffer, Top) + IF at = "popped" /\ value = Watched THEN 1 ELSE 0
      /\ at \in {"load", "store"} => value = buffer[buffer_pos]
      /\ at \in {"store", "increment"} => loaded = buffer_pos
  BY <1>a, <1>b DEF CountInv
<1>e. SUFFICES
        /\ due'["stack"] = Count(buffer', Top')
                             + IF at' = "popped" /\ value' = Watched THEN 1 ELSE 0
        /\ at' \in {"load", "store"} => value' = buffer'[buffer_pos']
        /\ at' \in {"store", "increment"} => loaded' = buffer_pos'
  BY DEF CountInv, Count, Below
<1> USE Distinct
<1>1. ASSUME NEW f, Call(f) PROVE CountInv'
  <2>1. /\ at = "poll" /\ at' \in {"poll", "look"}
        /\ buffer' = buffer /\ buffer_pos' = buffer_pos /\ due' = due
    BY <1>1 DEF Call, Place, stack
  <2> QED
    BY <2>1, <1>d DEF CountInv, Top, Count, Below
<1>2. CASE PollAgain \/ ClearCode
  <2>1. call # "get_chr" /\ at \notin Gets
    BY <1>2 DEF PollAgain, ClearCode, Place, Gets
  <2>2. due'["stack"] = due["stack"]
    BY <1>2, <2>1, ReturnCounts DEF Types, PollAgain, ClearCode
  <2>3. at' = "poll" /\ buffer' = buffer /\ buffer_pos' = buffer_pos
    BY <1>2 DEF PollAgain, ClearCode, Return, stack
  <2> QED
    BY <2>1, <2>2, <2>3, <1>d DEF Top, Gets, Count, Below
<1>3. CASE PollEnds \/ Take \/ ClearCh
  <2>1. /\ at \notin Gets /\ at' \in Takes
        /\ buffer' = buffer /\ buffer_pos' = buffer_pos /\ due' = due
    BY <1>3 DEF PollEnds, Take, ClearCh, Goto, stack, Takes, Gets
  <2> QED
    BY <2>1, <1>d DEF Top, Takes, Gets, Count, Below
<1>4. CASE Look
  <2>1. /\ value' = buffer[buffer_pos] /\ at = "look" /\ at' \in {"unget", "load"}
        /\ buffer' = buffer /\ buffer_pos' = buffer_pos /\ due' = due
    BY <1>4, <1>a, SMT DEF Look, ReadAt, Goto, StackInv, Types
  <2> QED
    BY <2>1, <1>d DEF Top, Count, Below
<1>5. CASE Load
  <2>1. buffer_pos > 0
    BY <1>5, <1>a, <1>d, SMT DEF Load, StackInv, Eof
  <2>2. /\ at = "load" /\ at' = "store" /\ loaded' = buffer_pos /\ value' = value
        /\ buffer' = buffer /\ buffer_pos' = buffer_pos /\ due' = due
    BY <1>5, <2>1 DEF Load, Goto, stack
  <2> QED
    BY <2>2, <1>d DEF Top, Count, Below
<1>6. CASE Store
  <2>1. /\ at = "store" /\ at' = "popped" /\ buffer_pos' = buffer_pos - 1 /\ value' = value
        /\ buffer' = buffer /\ due' = due /\ value = buffer[buffer_pos]
    BY <1>6, <1>d DEF Store, Goto
  <2>2. buffer_pos \in Nat
    BY <1>6, <1>a, <1>d, SMT DEF Store, StackInv
  <2>3. Count(buffer, buffer_pos) =
          Count(buffer, buffer_pos - 1) + IF buffer[buffer_pos] = Watched THEN 1 ELSE 0
    BY <2>2, CountStep
  <2>4. Top = buffer_pos /\ Top' = buffer_pos - 1
    BY <2>1 DEF Top
  <2>5. due["stack"] = Count(buffer, buffer_pos)
    BY <1>c, <1>d, <2>1, <2>2, <2>4
  <2> QED
    BY <2>1, <2>3, <2>4, <2>5
<1>7. CASE Popped
  <2>1. at = "popped" /\ at' \in {"unget", "poll"} /\ buffer' = buffer /\ buffer_pos' = buffer_pos
    BY <1>7 DEF Popped, Goto, Return, stack
  <2>2. call = "get_chr"
    BY <2>1 DEF Place, Gets
  <2>3. due'["stack"] = IF value = Watched THEN due["stack"] - 1 ELSE due["stack"]
    BY <1>7, <2>2, ReturnCounts, SMT DEF Popped, Goto, Types, Eof
  <2>4. Top = buffer_pos /\ Top' = buffer_pos /\ buffer_pos \in Int
    BY <2>1 DEF Top, PosInv
  <2> QED
    BY <1>c, <1>d, <2>1, <2>3, <2>4
<1>8. CASE Unget
  <2>1. /\ at = "unget" /\ at' = "increment" /\ loaded' = buffer_pos
        /\ buffer' = buffer /\ buffer_pos' = buffer_pos /\ due' = due
    BY <1>8 DEF Unget, Goto, stack
  <2> QED
    BY <2>1, <1>d DEF Top, Count, Below
<1>9. CASE Increment
  <2>1. /\ at = "increment" /\ at' = "check" /\ buffer_pos' = buffer_pos + 1
        /\ buffer' = buffer /\ due' = due
    BY <1>9, <1>d DEF Increment, Goto
  <2>2. Top = buffer_pos /\ Top' = buffer_pos
    BY <2>1, SMT DEF Top, PosInv
  <2> QED
    BY <2>1, <2>2, <1>d
<1>10. CASE Check
  <2>1. /\ at = "check" /\ at' = "put"
        /\ buffer' = buffer /\ buffer_pos' = buffer_pos /\ due' = due
    BY <1>10 DEF Check, Goto
  <2> QED
    BY <2>1, <1>d DEF Top, Count, Below
<1>11. CASE Put
  <2>1. /\ buffer_pos \in 1 .. Size - 1 /\ buffer_pos' = buffer_pos
        /\ buffer' = [buffer EXCEPT ![buffer_pos] = Eof]
    BY <1>11, <1>a, PutWrites
  <2>2. at = "put" /\ at' = "poll" /\ call = "get_chr"
    BY <1>11 DEF Put, Return, Place, Gets
  <2>3. due'["stack"] = due["stack"]
    BY <1>11, ReturnCounts, SMT DEF Put, Types
  <2>4. buffer'[buffer_pos] = Eof /\ \A i \in 0 .. buffer_pos - 1 : buffer'[i] = buffer[i]
    BY <2>1, SMT DEF Types
  <2>5. Count(buffer', buffer_pos - 1) = Count(buffer, buffer_pos - 1)
    BY <2>1, <2>4, CountSame, buffer_pos - 1 \in Int
  <2>6. Count(buffer', buffer_pos) = Count(buffer', buffer_pos - 1)
    <3>1. Count(buffer', buffer_pos) =
            Count(buffer', buffer_pos - 1) + IF buffer'[buffer_pos] = Watched THEN 1 ELSE 0
      BY <2>1, CountStep, buffer_pos \in Nat
    <3>2. Count(buffer', buffer_pos - 1) \in Nat
      BY <2>1, CountIsNat, buffer_pos - 1 \in Int
    <3> QED
      BY <3>1, <3>2, <2>4 DEF Eof
  <2>7. Top = buffer_pos - 1 /\ Top' = buffer_pos
    BY <2>1, <2>2 DEF Top
  <2>8. Count(buffer, buffer_pos - 1) \in Nat
    BY <2>1, CountIsNat, buffer_pos - 1 \in Int
  <2> QED
    BY <1>d, <2>2, <2>3, <2>5, <2>6, <2>7, <2>8
<1>12. CASE Irq
  <2>1. PICK ch \in Bytes, code \in -127 .. 127 : Interrupt(ch, code)
    BY <1>12, IrqStores
  <2>2. /\ buffer_pos + 1 \in 1 .. Size - 1 /\ buffer_pos' = buffer_pos + 1
        /\ buffer' = [buffer EXCEPT ![buffer_pos + 1] = ch]
    BY <2>1, <1>a, IrqWrites
  <2>3. call # "get_chr" \/ at = "look"
    BY <2>1, <1>b DEF Interrupt
  <2>4. at \notin Gets \ {"look"} /\ at' = at
    BY <2>1, <2>3 DEF Place, Interrupt, reader
  <2>5. due'["stack"] = due["stack"] + IF ch = Watched THEN 1 ELSE 0
    BY <2>1 DEF Interrupt, Types
  <2>6. /\ buffer'[buffer_pos + 1] = ch
        /\ \A i \in 0 .. buffer_pos : buffer'[i] = buffer[i]
    BY <2>2, SMT DEF Types, PosInv
  <2>7. Count(buffer', buffer_pos) = Count(buffer, buffer_pos)
    BY <2>2, <2>6, CountSame, buffer_pos \in Int DEF PosInv
  <2>8. Count(buffer', buffer_pos + 1) = Count(buffer', buffer_pos) + IF ch = Watched THEN 1 ELSE 0
    <3>1. buffer_pos + 1 \in Nat /\ (buffer_pos + 1) - 1 = buffer_pos
      BY <2>2, SMT DEF PosInv
    <3>2. Count(buffer', buffer_pos + 1) = Count(buffer', (buffer_pos + 1) - 1)
                                     + IF buffer'[buffer_pos + 1] = Watched THEN 1 ELSE 0
      BY <3>1, CountStep
    <3> QED
      BY <3>1, <3>2, <2>6
  <2>9. Top = buffer_pos /\ Top' = buffer_pos + 1
    BY <2>2, <2>4 DEF Top, Gets
  <2>10. due["stack"] = Count(buffer, buffer_pos)
    BY <1>c, <1>d, <2>4, <2>9 DEF Gets, PosInv
  <2>11. at' \notin {"load", "store", "popped", "increment"}
    BY <2>4 DEF Gets
  <2>12. buffer_pos' = buffer_pos + 1 /\ Count(buffer, buffer_pos) \in Nat
    BY <1>c, <2>2 DEF PosInv
  <2> QED
    BY <2>5, <2>7, <2>8, <2>9, <2>10, <2>11, <2>12
<1>13. CASE UNCHANGED vars
  <2>1. /\ at' = at /\ value' = value /\ loaded' = loaded
        /\ buffer' = buffer /\ buffer_pos' = buffer_pos /\ due' = due
    BY <1>13 DEF vars, stack, reader
  <2> QED
    BY <2>1, <1>d DEF Top, Count, Below
<1> QED
  BY <1>1, <1>2, <1>3, <1>4, <1>5, <1>6, <1>7, <1>8, <1>9, <1>10, <1>11, <1>12, <1>13
     DEF Next, Main, CountInv

(* Every step keeps what may still be delivered within what is due, with   *)
(* one more for each interrupt in the middle of get_chr.                   *)
LEMMA RaceNext == Types /\ Place /\ PosInv /\ StackInv /\ RaceInv /\ [Next]_vars => RaceInv'
<1> SUFFICES ASSUME Types, Place, PosInv, StackInv, RaceInv, [Next]_vars, ~ overrun'
             PROVE  RaceInv'
  BY DEF RaceInv
<1>a. ~ overrun
  BY OverrunStays
<1>b. /\ due["stack"] \in Int /\ races \in Nat /\ buffer_pos \in 0 .. Size
      /\ \A p \in Int : Count(buffer, p) \in Nat
  BY <1>a, CountIsNat DEF Types, StackInv
<1>c. /\ Count(buffer, Settled) + Taken <= due["stack"] + races
      /\ at = "load" => buffer_pos >= 1
      /\ at \in {"store", "increment"} => loaded <= buffer_pos
  BY <1>a DEF RaceInv
<1>d. ~ Irq => races' = races
  BY OnlyIrqHastes
<1> USE Distinct
<1>1. ASSUME NEW f, Call(f) PROVE RaceInv'
  <2>1. /\ at = "poll" /\ at' \in {"poll", "look"} /\ races' = races
        /\ buffer' = buffer /\ buffer_pos' = buffer_pos /\ due' = due
    BY <1>1 DEF Call, Place, stack, haste
  <2> QED
    BY <2>1, <1>c DEF RaceInv, Settled, Taken, Count, Below
<1>2. CASE PollAgain \/ ClearCode
  <2>1. call # "get_chr" /\ at \notin Gets
    BY <1>2 DEF PollAgain, ClearCode, Place, Gets
  <2>2. due'["stack"] = due["stack"]
    BY <1>2, <2>1, ReturnCounts DEF Types, PollAgain, ClearCode
  <2>3. at' = "poll" /\ buffer' = buffer /\ buffer_pos' = buffer_pos /\ races' = races
    BY <1>2 DEF PollAgain, ClearCode, Return, stack, haste
  <2> QED
    BY <2>1, <2>2, <2>3, <1>c DEF RaceInv, Settled, Taken, Gets, Count, Below
<1>3. CASE PollEnds \/ Take \/ ClearCh
  <2>1. /\ at \notin Gets /\ at' \in Takes /\ races' = races
        /\ buffer' = buffer /\ buffer_pos' = buffer_pos /\ due' = due
    BY <1>3 DEF PollEnds, Take, ClearCh, Goto, stack, haste, Takes, Gets
  <2> QED
    BY <2>1, <1>c DEF RaceInv, Settled, Taken, Takes, Gets, Count, Below
<1>4. CASE Look
  <2>1. /\ value' = buffer[buffer_pos] /\ at = "look"
        /\ at' = (IF value' = 0 THEN "unget" ELSE "load") /\ races' = races
        /\ buffer' = buffer /\ buffer_pos' = buffer_pos /\ due' = due
    BY <1>4, <1>a, SMT DEF Look, ReadAt, Goto, StackInv, Types, haste
  <2>2. Settled = buffer_pos /\ Taken = 0
    BY <2>1 DEF Settled, Taken
  <2>3. Count(buffer, buffer_pos) =
          Count(buffer, buffer_pos - 1) + IF buffer[buffer_pos] = Watched THEN 1 ELSE 0
    BY <1>b, CountStep, buffer_pos \in Nat
  <2>4. CASE value' = 0
    BY <2>1, <2>2, <2>4, <1>c DEF RaceInv, Settled, Taken, Count, Below
  <2>5. CASE value' # 0
    <3>1. buffer_pos >= 1
      BY <2>1, <2>5, <1>a, <1>b, SMT DEF StackInv
    <3>2. Settled' = buffer_pos - 1 /\ Taken' = IF value' = Watched THEN 1 ELSE 0
      BY <2>1, <2>5 DEF Settled, Taken
    <3>3. Count(buffer', Settled') + Taken' <= due'["stack"] + races'
      <4>1. Count(buffer', Settled') = Count(buffer, buffer_pos - 1)
        BY <2>1, <3>2
      <4>2. Taken' = IF buffer[buffer_pos] = Watched THEN 1 ELSE 0
        BY <2>1, <3>2
      <4>3. Count(buffer, buffer_pos - 1) \in Nat /\ Count(buffer, buffer_pos) \in Nat
        BY <1>b, buffer_pos - 1 \in Int
      <4>4. Count(buffer, buffer_pos) <= due["stack"] + races
        BY <1>c, <2>2, <4>3
      <4> QED
        BY <2>1, <2>3, <4>1, <4>2, <4>4
    <3> QED
      BY <2>1, <2>5, <3>1, <3>3 DEF RaceInv, Count, Below
  <2> QED
    BY <2>4, <2>5
<1>5. CASE Load
  <2>1. at = "load" /\ buffer_pos > 0
    BY <1>5, <1>b, <1>c, SMT DEF Load
  <2>2. /\ at' = "store" /\ loaded' = buffer_pos /\ value' = value /\ races' = races
        /\ buffer' = buffer /\ buffer_pos' = buffer_pos /\ due' = due
    BY <1>5, <2>1 DEF Load, Goto, stack, haste
  <2> QED
    BY <2>1, <2>2, <1>b, <1>c DEF RaceInv, Settled, Taken, Count, Below
<1>6. CASE Store
  <2>1. /\ at = "store" /\ at' = "popped" /\ buffer_pos' = loaded - 1 /\ value' = value
        /\ buffer' = buffer /\ due' = due /\ races' = races
    BY <1>6 DEF Store, Goto, haste
  <2> QED
    BY <2>1, <1>c DEF RaceInv, Settled, Taken, Count, Below
<1>7. CASE Popped
  <2>1. /\ at = "popped" /\ at' \in {"unget", "poll"} /\ races' = races
        /\ buffer' = buffer /\ buffer_pos' = buffer_pos
    BY <1>7 DEF Popped, Goto, Return, stack, haste
  <2>2. call = "get_chr"
    BY <2>1 DEF Place, Gets
  <2>3. due'["stack"] = IF value = Watched THEN due["stack"] - 1 ELSE due["stack"]
    BY <1>7, <2>2, ReturnCounts, SMT DEF Popped, Goto, Types, Eof
  <2>4. /\ Settled = buffer_pos /\ Settled' = buffer_pos /\ Taken' = 0
        /\ Taken = IF value = Watched THEN 1 ELSE 0
    BY <2>1 DEF Settled, Taken
  <2>5. Count(buffer', Settled') + Taken' <= due'["stack"] + races'
    BY <1>b, <1>c, <2>1, <2>3, <2>4
  <2> QED
    BY <2>1, <2>5 DEF RaceInv, Count, Below
<1>8. CASE Unget
  <2>1. /\ at = "unget" /\ at' = "increment" /\ loaded' = buffer_pos /\ races' = races
        /\ buffer' = buffer /\ buffer_pos' = buffer_pos /\ due' = due
    BY <1>8 DEF Unget, Goto, stack, haste
  <2> QED
    BY <2>1, <1>b, <1>c DEF RaceInv, Settled, Taken, Count, Below
<1>9. CASE Increment
  <2>1. /\ at = "increment" /\ at' = "check" /\ buffer_pos' = loaded + 1
        /\ buffer' = buffer /\ due' = due /\ races' = races
    BY <1>9 DEF Increment, Goto, haste
  <2>2. Settled = loaded /\ Settled' = loaded
    BY <1>a, <2>1, SMT DEF Settled, StackInv
  <2> QED
    BY <2>1, <2>2, <1>c DEF RaceInv, Taken, Count, Below
<1>10. CASE Check
  <2>1. /\ at = "check" /\ at' = "put" /\ races' = races
        /\ buffer' = buffer /\ buffer_pos' = buffer_pos /\ due' = due
    BY <1>10 DEF Check, Goto, haste
  <2> QED
    BY <2>1, <1>c DEF RaceInv, Settled, Taken, Count, Below
<1>11. CASE Put
  <2>1. /\ buffer_pos \in 1 .. Size - 1 /\ buffer_pos' = buffer_pos
        /\ buffer' = [buffer EXCEPT ![buffer_pos] = Eof]
    BY <1>11, <1>a, PutWrites
  <2>2. at = "put" /\ at' = "poll" /\ call = "get_chr" /\ races' = races
    BY <1>11 DEF Put, Return, Place, Gets, haste
  <2>3. due'["stack"] = due["stack"]
    BY <1>11, ReturnCounts, SMT DEF Put, Types
  <2>4. buffer'[buffer_pos] = Eof /\ \A i \in 0 .. buffer_pos - 1 : buffer'[i] = buffer[i]
    BY <2>1, SMT DEF Types
  <2>5. Count(buffer', buffer_pos - 1) = Count(buffer, buffer_pos - 1)
    BY <2>1, <2>4, CountSame, buffer_pos - 1 \in Int
  <2>6. Count(buffer', buffer_pos) = Count(buffer', buffer_pos - 1)
    <3>1. Count(buffer', buffer_pos) =
            Count(buffer', buffer_pos - 1) + IF buffer'[buffer_pos] = Watched THEN 1 ELSE 0
      BY <2>1, CountStep, buffer_pos \in Nat
    <3>2. Count(buffer', buffer_pos - 1) \in Nat
      BY <2>1, CountIsNat, buffer_pos - 1 \in Int
    <3> QED
      BY <3>1, <3>2, <2>4 DEF Eof
  <2>7. Settled = buffer_pos - 1 /\ Settled' = buffer_pos /\ Taken = 0 /\ Taken' = 0
    BY <2>1, <2>2 DEF Settled, Taken
  <2>8. Count(buffer', Settled') + Taken' <= due'["stack"] + races'
    BY <1>c, <2>2, <2>3, <2>5, <2>6, <2>7
  <2> QED
    BY <2>2, <2>8 DEF RaceInv, Count, Below
<1>12. CASE Irq
  <2>1. PICK ch \in Bytes, code \in -127 .. 127 : Interrupt(ch, code)
    BY <1>12, IrqStores
  <2>2. /\ buffer_pos + 1 \in 1 .. Size - 1 /\ buffer_pos' = buffer_pos + 1
        /\ buffer' = [buffer EXCEPT ![buffer_pos + 1] = ch]
    BY <2>1, <1>a, IrqWrites
  <2>3. /\ races' = races + IF call = "get_chr" /\ at # "look" THEN 1 ELSE 0
        /\ at' = at /\ loaded' = loaded /\ value' = value
    BY <2>1 DEF Interrupt, reader
  <2>4. due'["stack"] = due["stack"] + IF ch = Watched THEN 1 ELSE 0
    BY <2>1 DEF Interrupt, Types
  <2>5. buffer'[buffer_pos + 1] = ch /\ \A i \in 0 .. buffer_pos : buffer'[i] = buffer[i]
    BY <2>2, SMT DEF Types, PosInv
  <2>6. \A p \in Int : p <= buffer_pos => Count(buffer', p) = Count(buffer, p)
    <3>1. SUFFICES ASSUME NEW p \in Int, p <= buffer_pos PROVE Count(buffer', p) = Count(buffer, p)
      OBVIOUS
    <3>2. \A i \in 0 .. p : buffer'[i] = buffer[i]
      BY <1>b, <2>5, <3>1
    <3> QED
      BY <3>2, CountSame
  <2>7. Taken' = Taken /\ Taken \in {0, 1}
    BY <2>3 DEF Taken
  <2>8. CASE at \in {"load", "check", "put"}
    <3>1. Settled = buffer_pos - 1 /\ Settled' = buffer_pos
      BY <1>b, <2>2, <2>3, <2>8 DEF Settled
    <3>2. Count(buffer, buffer_pos) <= Count(buffer, buffer_pos - 1) + 1
      <4>1. /\ Count(buffer, buffer_pos) =
                  Count(buffer, buffer_pos - 1) + IF buffer[buffer_pos] = Watched THEN 1 ELSE 0
            /\ Count(buffer, buffer_pos - 1) \in Nat
        BY <1>b, CountStep, buffer_pos \in Nat, buffer_pos - 1 \in Int
      <4> QED
        BY <4>1
    <3>3. Count(buffer', buffer_pos) = Count(buffer, buffer_pos)
      BY <1>b, <2>6
    <3>4. races' = races + 1
      BY <2>3, <2>8 DEF Place, Gets
    <3>5. Count(buffer, buffer_pos - 1) \in Nat /\ Count(buffer, buffer_pos) \in Nat
      BY <1>b
    <3>6. Count(buffer', Settled') + Taken' <= due'["stack"] + races'
      BY <1>b, <1>c, <2>4, <2>7, <3>1, <3>2, <3>3, <3>4, <3>5
    <3> QED
      BY <1>b, <1>c, <2>2, <2>3, <2>8, <3>6 DEF RaceInv, Count, Below
  <2>9. CASE at \in {"store", "increment"}
    <3>1. Settled' = Settled /\ Settled \in Int /\ Settled <= buffer_pos
      BY <1>a, <1>b, <1>c, <2>3, <2>9, SMT DEF Settled, StackInv
    <3>2. Count(buffer', Settled') = Count(buffer, Settled) /\ Count(buffer, Settled) \in Nat
      BY <1>b, <2>6, <3>1
    <3>3. Count(buffer', Settled') + Taken' <= due'["stack"] + races'
      BY <1>b, <1>c, <2>3, <2>4, <2>7, <3>2
    <3> QED
      BY <1>a, <1>b, <1>c, <2>2, <2>3, <2>9, <3>3, SMT DEF RaceInv, StackInv
  <2>10. CASE at \notin {"load", "check", "put", "store", "increment"}
    <3>1. Settled = buffer_pos /\ Settled' = buffer_pos + 1
      BY <2>2, <2>3, <2>10 DEF Settled
    <3>2. Count(buffer', buffer_pos + 1) = Count(buffer', buffer_pos) + IF ch = Watched THEN 1 ELSE 0
      <4>1. buffer_pos + 1 \in Nat /\ (buffer_pos + 1) - 1 = buffer_pos
        BY <1>b
      <4>2. Count(buffer', buffer_pos + 1) = Count(buffer', (buffer_pos + 1) - 1)
                                       + IF buffer'[buffer_pos + 1] = Watched THEN 1 ELSE 0
        BY <4>1, CountStep
      <4> QED
        BY <4>1, <4>2, <2>5
    <3>3. Count(buffer', buffer_pos) = Count(buffer, buffer_pos) /\ Count(buffer, buffer_pos) \in Nat
      BY <1>b, <2>6
    <3>4. Count(buffer', Settled') + Taken' <= due'["stack"] + races'
      BY <1>b, <1>c, <2>3, <2>4, <2>7, <3>1, <3>2, <3>3
    <3> QED
      BY <2>3, <2>10, <3>4 DEF RaceInv, Count, Below
  <2> QED
    BY <2>8, <2>9, <2>10
<1>13. CASE UNCHANGED vars
  <2>1. /\ at' = at /\ value' = value /\ loaded' = loaded /\ races' = races
        /\ buffer' = buffer /\ buffer_pos' = buffer_pos /\ due' = due
    BY <1>13 DEF vars, stack, reader, haste
  <2> QED
    BY <2>1, <1>c DEF RaceInv, Settled, Taken, Count, Below
<1> QED
  BY <1>1, <1>2, <1>3, <1>4, <1>5, <1>6, <1>7, <1>8, <1>9, <1>10, <1>11, <1>12, <1>13
     DEF Next, Main

(* SlowTypingArrives: below Cleared nothing is left, and only Look and Put *)
(* move it up, past a 0 and past an EOF.                                   *)
LEMMA SlowNext ==
  Types /\ Place /\ PosInv /\ StackInv /\ CountInv /\ SlowInv /\ [Next]_vars => SlowInv'
<1> SUFFICES ASSUME Types, Place, PosInv, StackInv, CountInv, SlowInv, [Next]_vars,
                    ~ overrun', ~ hurried'
             PROVE  SlowInv'
  BY DEF SlowInv
<1>a. ~ overrun
  BY OverrunStays
<1>b. ~ hurried
  BY OnlyIrqHastes DEF Irq, Press, Release, Interrupt
<1>c. races = 0 /\ \A i \in 0 .. Cleared : buffer[i] # Watched
  BY <1>a, <1>b DEF SlowInv
<1>d. /\ at \in {"load", "store"} => value = buffer[buffer_pos]
      /\ at \in {"store", "increment"} => loaded = buffer_pos
  BY <1>a, <1>c DEF CountInv
<1>e. buffer_pos \in 0 .. Size /\ Cleared \in Int
  BY <1>a, SMT DEF StackInv, Cleared, Top
<1>f. ASSUME races' = races, buffer' = buffer, Cleared' \in Int, Cleared' <= Cleared
      PROVE  SlowInv'
  BY <1>c, <1>e, <1>f, SMT DEF SlowInv
<1> USE Distinct
<1>1. ASSUME NEW f, Call(f) PROVE SlowInv'
  <2>1. /\ at = "poll" /\ at' \in {"poll", "look"} /\ call' \in {"none", f} /\ got' = got
        /\ call = "none" /\ races' = races
        /\ buffer' = buffer /\ buffer_pos' = buffer_pos
    BY <1>1 DEF Call, Place, stack, haste
  <2>2. Cleared' <= Cleared /\ Cleared' \in Int
    BY <1>e, <2>1, SMT DEF Cleared, Top, Drained
  <2> QED
    BY <1>f, <2>1, <2>2
<1>2. CASE PollAgain \/ ClearCode
  <2>1. /\ call \in {"kb_getchar", "kb_getchar_w", "kb_get_scancode"} /\ at \notin Gets
    BY <1>2 DEF PollAgain, ClearCode, Place, Readers, Takes, Gets
  <2>2. /\ at' = "poll" /\ (call' = call \/ got'.by = call)
        /\ races' = races /\ buffer' = buffer /\ buffer_pos' = buffer_pos
    BY <1>2 DEF PollAgain, ClearCode, Return, stack, haste
  <2>3. ~ Drained' /\ ~ Drained
    BY <2>1, <2>2 DEF Drained
  <2>4. Cleared' <= Cleared /\ Cleared' \in Int
    BY <1>e, <2>1, <2>2, <2>3, SMT DEF Cleared, Top, Gets
  <2> QED
    BY <1>f, <2>2, <2>4
<1>3. CASE PollEnds \/ Take \/ ClearCh
  <2>1. /\ call' = call /\ call # "none" /\ at \notin Gets /\ at' \in Takes
        /\ races' = races /\ buffer' = buffer /\ buffer_pos' = buffer_pos
    BY <1>3 DEF PollEnds, Take, ClearCh, Goto, stack, haste, Takes, Gets, Place
  <2>2. Cleared' <= Cleared /\ Cleared' \in Int
    BY <1>e, <2>1, SMT DEF Cleared, Top, Gets, Takes, Drained
  <2> QED
    BY <1>f, <2>1, <2>2
<1>4. CASE Look
  <2>1. /\ at = "look" /\ call' = call /\ call = "get_chr"
        /\ races' = races /\ buffer' = buffer /\ buffer_pos' = buffer_pos
    BY <1>4 DEF Look, Goto, haste, Place, Gets
  <2>2. buffer_pos \in 0 .. Size - 1
    BY <1>a, <2>1, SMT DEF StackInv
  <2>3. value' = buffer[buffer_pos] /\ at' = (IF value' = 0 THEN "unget" ELSE "load")
    BY <1>4, <2>2 DEF Look, ReadAt, Goto, Types
  <2>4. Cleared = buffer_pos - 1
    BY <2>1 DEF Cleared, Top, Drained
  <2>5. CASE buffer[buffer_pos] = 0
    <3>1. Cleared' = buffer_pos
      BY <2>1, <2>3, <2>5 DEF Cleared, Top
    <3>2. \A i \in 0 .. buffer_pos : buffer[i] # Watched
      BY <1>c, <2>2, <2>4, <2>5, SMT
    <3> QED
      BY <1>c, <2>1, <3>1, <3>2 DEF SlowInv
  <2>6. CASE buffer[buffer_pos] # 0
    <3>1. Cleared' = buffer_pos - 1
      BY <2>1, <2>3, <2>6 DEF Cleared, Top, Drained
    <3> QED
      BY <1>e, <1>f, <2>1, <2>4, <3>1
  <2> QED
    BY <2>5, <2>6
<1>5. CASE Load
  <2>1. buffer_pos > 0
    BY <1>5, <1>a, <1>d, SMT DEF Load, StackInv, Eof
  <2>2. /\ at = "load" /\ at' = "store" /\ call' = call /\ call = "get_chr"
        /\ races' = races /\ buffer' = buffer /\ buffer_pos' = buffer_pos
    BY <1>5, <2>1 DEF Load, Goto, stack, haste, Place, Gets
  <2>3. Cleared' <= Cleared /\ Cleared' \in Int
    BY <1>e, <2>2, SMT DEF Cleared, Top, Drained
  <2> QED
    BY <1>f, <2>2, <2>3
<1>6. CASE Store
  <2>1. /\ at = "store" /\ at' = "popped" /\ buffer_pos' = buffer_pos - 1
        /\ call' = call /\ call = "get_chr" /\ races' = races /\ buffer' = buffer
    BY <1>6, <1>d DEF Store, Goto, haste, Place, Gets
  <2>2. Cleared' <= Cleared /\ Cleared' \in Int
    BY <1>e, <2>1, SMT DEF Cleared, Top, Drained
  <2> QED
    BY <1>f, <2>1, <2>2
<1>7. CASE Popped
  <2>1. /\ at = "popped" /\ at' \in {"unget", "poll"} /\ races' = races
        /\ buffer' = buffer /\ buffer_pos' = buffer_pos
    BY <1>7 DEF Popped, Goto, Return, stack, haste
  <2>2. Cleared = buffer_pos
    BY <2>1 DEF Cleared, Top
  <2>3. Cleared' \in {buffer_pos, buffer_pos - 1}
    BY <2>1 DEF Cleared, Top
  <2> QED
    BY <1>e, <1>f, <2>1, <2>2, <2>3
<1>8. CASE Unget
  <2>1. /\ at = "unget" /\ at' = "increment" /\ races' = races
        /\ buffer' = buffer /\ buffer_pos' = buffer_pos
    BY <1>8 DEF Unget, Goto, stack, haste
  <2> QED
    BY <1>e, <1>f, <2>1 DEF Cleared, Top
<1>9. CASE Increment
  <2>1. /\ at = "increment" /\ at' = "check" /\ races' = races
        /\ buffer' = buffer /\ buffer_pos' = buffer_pos + 1
    BY <1>9, <1>d DEF Increment, Goto, haste
  <2>2. Cleared = buffer_pos /\ Cleared' = buffer_pos
    BY <1>e, <2>1, SMT DEF Cleared, Top
  <2> QED
    BY <1>e, <1>f, <2>1, <2>2
<1>10. CASE Check
  <2>1. /\ at = "check" /\ at' = "put" /\ races' = races
        /\ buffer' = buffer /\ buffer_pos' = buffer_pos
    BY <1>10 DEF Check, Goto, haste
  <2> QED
    BY <1>e, <1>f, <2>1 DEF Cleared, Top
<1>11. CASE Put
  <2>1. /\ buffer_pos \in 1 .. Size - 1 /\ buffer_pos' = buffer_pos
        /\ buffer' = [buffer EXCEPT ![buffer_pos] = Eof]
    BY <1>11, <1>a, PutWrites
  <2>2. at = "put" /\ at' = "poll" /\ races' = races
    BY <1>11 DEF Put, Return, haste
  <2>3. Cleared = buffer_pos - 1 /\ Cleared' \in {buffer_pos, buffer_pos - 1}
    BY <2>1, <2>2 DEF Cleared, Top
  <2>4. \A i \in 0 .. buffer_pos : buffer'[i] # Watched
    BY <1>c, <2>1, <2>3, SMT DEF Types, Eof
  <2>5. \A i \in 0 .. Cleared' : buffer'[i] # Watched
    BY <2>1, <2>3, <2>4, SMT
  <2> QED
    BY <1>c, <2>2, <2>5 DEF SlowInv
<1>12. CASE Irq
  <2>1. PICK ch \in Bytes, code \in -127 .. 127 : Interrupt(ch, code)
    BY <1>12, IrqStores
  <2>2. /\ buffer_pos + 1 \in 1 .. Size - 1 /\ buffer_pos' = buffer_pos + 1
        /\ buffer' = [buffer EXCEPT ![buffer_pos + 1] = ch]
    BY <2>1, <1>a, IrqWrites
  <2>3. Drained /\ call = "none" /\ at = "poll"
    BY <2>1 DEF Interrupt, Drained, Place
  <2>4. /\ at' = "poll" /\ call' = "none" /\ got' = [by |-> "none", char |-> 0]
        /\ races' = 0
    BY <1>c, <2>1, <2>3 DEF Interrupt, reader
  <2>5. Cleared = buffer_pos
    BY <2>3 DEF Cleared, Top
  <2>6. Cleared' = buffer_pos
    BY <1>e, <2>2, <2>4, SMT DEF Cleared, Top, Drained
  <2>7. \A i \in 0 .. buffer_pos : buffer'[i] # Watched
    BY <1>c, <1>e, <2>2, <2>5, SMT DEF Types
  <2> QED
    BY <1>c, <2>4, <2>6, <2>7 DEF SlowInv
<1>13. CASE UNCHANGED vars
  <2>1. /\ at' = at /\ call' = call /\ got' = got /\ races' = races
        /\ buffer' = buffer /\ buffer_pos' = buffer_pos
    BY <1>13 DEF vars, stack, reader, haste
  <2> QED
    BY <1>e, <1>f, <2>1 DEF Cleared, Top, Drained
<1> QED
  BY <1>1, <1>2, <1>3, <1>4, <1>5, <1>6, <1>7, <1>8, <1>9, <1>10, <1>11, <1>12, <1>13
     DEF Next, Main

----------------------------------------------------------------------------
(* The inductive invariant holds throughout.                               *)
LEMMA Safety == Spec => []IndInv
<1>1. IndInv /\ [Next]_vars => IndInv'
  BY TypesNext, PlaceNext, PosNext, CreditNext, StackNext, CountNext, RaceNext, SlowNext DEF IndInv
<1> QED
  BY InitInv, <1>1, PTL DEF Spec

(* The ranges of the variables: buffer_pos, which the handler and get_chr  *)
(* raise without looking at the size of the stack, ends at most two behind *)
(* the last cell before the model stops (keyboard.c:109-137, 336-372).     *)
THEOREM TypesHold == Spec => []TypeOK
<1>1. IndInv => TypeOK
  BY DEF IndInv, Types, PosInv, TypeOK, Bytes
<1> QED
  BY Safety, <1>1, PTL

(* A key press is delivered at most once by the readers of g_ch, wherever  *)
(* interrupts come between their test, their copy and their two clears     *)
(* (keyboard.c:203-240).                                                   *)
THEOREM DeliveredOnce == Spec => []OneShotRead
<1>1. IndInv => OneShotRead
  BY DEF IndInv, CreditInv, OneShotRead
<1> QED
  BY Safety, <1>1, PTL

(* Short of an overrun the terminal gets nothing but typed characters,     *)
(* each no more often than it was typed but for one more with each         *)
(* interrupt in the middle of get_chr (keyboard.c:336-372, stdio.c:8-41).  *)
THEOREM OnlyWhatWasTyped == Spec => []NothingInvented
<1>1. ASSUME IndInv, ~ overrun PROVE due["stack"] + races >= 0
  <2>1. Settled \in Int /\ Taken \in {0, 1} /\ due["stack"] \in Int /\ races \in Nat
    BY <1>1, SMT DEF IndInv, Types, StackInv, Settled, Taken
  <2>2. Count(buffer, Settled) \in Nat
    BY <2>1, CountIsNat
  <2> QED
    BY <1>1, <2>1, <2>2, SMT DEF IndInv, RaceInv
<1>2. ASSUME IndInv, ~ overrun PROVE got.by = "get_chr" => got.char \in Chars \cup {0}
  BY <1>2 DEF IndInv, StackInv, Bytes
<1>3. IndInv => NothingInvented
  BY <1>1, <1>2 DEF NothingInvented
<1> QED
  BY Safety, <1>3, PTL

(* When the terminal reads until there is nothing more after every         *)
(* interrupt, it has got every character (keyboard.c:336-372).             *)
THEOREM NothingHidden == Spec => []SlowTypingArrives
<1>1. ASSUME IndInv, ~ overrun, ~ hurried, Drained PROVE due["stack"] = 0
  <2>1. at = "poll" /\ Top = buffer_pos /\ Cleared = buffer_pos /\ buffer_pos \in Int
    BY <1>1 DEF IndInv, Place, PosInv, Drained, Top, Cleared
  <2>2. races = 0 /\ \A i \in 0 .. buffer_pos : buffer[i] # Watched
    BY <1>1, <2>1 DEF IndInv, SlowInv
  <2>3. Count(buffer, buffer_pos) = 0
    BY <2>1, <2>2, CountNone
  <2> QED
    BY <1>1, <2>1, <2>2, <2>3 DEF IndInv, CountInv
<1>2. IndInv => SlowTypingArrives
  BY <1>1 DEF SlowTypingArrives
<1> QED
  BY Safety, <1>2, PTL

==============================================================================
