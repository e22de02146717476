------------------------------ MODULE Keyboard ------------------------------
(***************************************************************************)
(* From the keys to the line buffer: the scan codes the keyboard sends,    *)
(* one interrupt each, the modifier flags keyboard_handler keeps of them   *)
(* and the character tables set_buffer chooses from (keyboard.c).  held is *)
(* what the user's fingers do; the code sees only the codes.  Three keys   *)
(* stand for the rows of the tables: l for the letters, d for the digits   *)
(* and signs, b for the backslash.                                         *)
(***************************************************************************)
EXTENDS LineBuffer

CONSTANTS
    TypedKeys,      \* the keys typed, of those the tables have
    Modifiers,      \* the modifier keys used
    MAX_HELD        \* bound: modifier keys held at once

\* The tables.  A key has two characters, the one printed low on it and the one
\* printed high: l and L, 1 and !, backslash and bar.
no_modifier == [l |-> "low", d |-> "low", b |-> "low"]
shift_pressed == [l |-> "high", d |-> "high", b |-> "high"]
caps_pressed == [l |-> "high", d |-> "low", b |-> "low"]
caps_shift_pressed == [l |-> "low", d |-> "high", b |-> "low"]

ASSUME KeyboardAssumption ==
    /\ TypedKeys \subseteq DOMAIN no_modifier
    /\ Modifiers \subseteq { "LSHIFT", "RSHIFT", "LCTRL", "RCTRL", "LALT", "RALT" }
    /\ { "low", "high" } \subseteq Chars
    /\ MAX_HELD \in Nat

VARIABLES
    SHIFT_LEFT_FLAG, SHIFT_RIGHT_FLAG, CAPS_LOCK_FLAG, CTRL_FLAG, alt_flag,
    held,           \* modifier keys that are down
    extended        \* a key with the prefix 0xE0 has been used

flags == <<SHIFT_LEFT_FLAG, SHIFT_RIGHT_FLAG, CAPS_LOCK_FLAG, CTRL_FLAG, alt_flag>>
keys == <<flags, held, extended>>
kvars == <<vars, keys>>

Prefixed == { "RCTRL", "RALT" }

KInit ==
    /\ Init
    /\ SHIFT_LEFT_FLAG = FALSE /\ SHIFT_RIGHT_FLAG = FALSE
    /\ CAPS_LOCK_FLAG = FALSE /\ CTRL_FLAG = FALSE /\ alt_flag = FALSE
    /\ held = {}
    /\ extended = FALSE

-----------------------------------------------------------------------------
(***************************************************************************)
(* The modifier keys: their own code, behind the prefix 0xE0 for the keys  *)
(* on the right, which keyboard_handler takes for the right Alt key.       *)
(***************************************************************************)
\* Mutant: releasing either shift key clears both flags.
OneShift(key, down) ==
    CASE key = "LSHIFT" -> <<down, down /\ SHIFT_RIGHT_FLAG>>
      [] key = "RSHIFT" -> <<down /\ SHIFT_LEFT_FLAG, down>>
      [] OTHER -> <<SHIFT_LEFT_FLAG, SHIFT_RIGHT_FLAG>>

ShiftsAfter(key, down) ==
    <<IF key = "LSHIFT" THEN down ELSE SHIFT_LEFT_FLAG,
      IF key = "RSHIFT" THEN down ELSE SHIFT_RIGHT_FLAG>>

AltAfter(key, down) ==
    CASE key \in { "LALT", "RALT" } -> down
      [] key = "RCTRL" -> TRUE
      [] OTHER -> alt_flag

Modifier(key, down) ==
    /\ SHIFT_LEFT_FLAG' = ShiftsAfter(key, down)[1]
    /\ SHIFT_RIGHT_FLAG' = ShiftsAfter(key, down)[2]
    /\ CTRL_FLAG' = IF key \in { "LCTRL", "RCTRL" } THEN down ELSE CTRL_FLAG
    /\ alt_flag' = AltAfter(key, down)
    /\ extended' = (extended \/ key \in Prefixed)
    /\ UNCHANGED <<vars, CAPS_LOCK_FLAG>>

\* A key held down repeats its code.
Press(key) ==
    /\ Cardinality(held \cup {key}) <= MAX_HELD
    /\ held' = held \cup {key}
    /\ Modifier(key, TRUE)

Release(key) ==
    /\ key \in held
    /\ held' = held \ {key}
    /\ Modifier(key, FALSE)

CapsLock ==
    /\ CAPS_LOCK_FLAG' = ~ CAPS_LOCK_FLAG
    /\ UNCHANGED <<vars, SHIFT_LEFT_FLAG, SHIFT_RIGHT_FLAG, CTRL_FLAG, alt_flag,
                   held, extended>>

\* An arrow or another key of the extended block, pressed or released: the code
\* behind the prefix is none the tables know.
ExtendedKey ==
    /\ alt_flag' = TRUE
    /\ extended' = TRUE
    /\ UNCHANGED <<vars, SHIFT_LEFT_FLAG, SHIFT_RIGHT_FLAG, CAPS_LOCK_FLAG,
                   CTRL_FLAG, held>>

-----------------------------------------------------------------------------
\* Mutant: Caps Lock is looked at before the shift keys.
CapsFirst(key) ==
    IF CAPS_LOCK_FLAG THEN caps_pressed[key]
    ELSE IF SHIFT_LEFT_FLAG \/ SHIFT_RIGHT_FLAG THEN shift_pressed[key]
    ELSE no_modifier[key]

Mapping(key) ==
    LET shift == SHIFT_LEFT_FLAG \/ SHIFT_RIGHT_FLAG
        table == CASE CAPS_LOCK_FLAG /\ shift -> caps_shift_pressed
                   [] ~ CAPS_LOCK_FLAG /\ shift -> shift_pressed
                   [] CAPS_LOCK_FLAG /\ ~ shift -> caps_pressed
                   [] OTHER -> no_modifier
    IN table[key]

\* Ctrl with l clears the screen, which leaves the line alone.
TypeKey(key) ==
    /\ UNCHANGED keys
    /\ IF CTRL_FLAG /\ key = "l" THEN UNCHANGED vars ELSE set_buffer(Mapping(key))

FunctionKey(t) ==
    /\ alt_flag
    /\ switch_displaying_term(t)
    /\ UNCHANGED keys

KNext ==
    \/ \E key \in Modifiers : Press(key) \/ Release(key)
    \/ CapsLock \/ ExtendedKey
    \/ \E key \in TypedKeys : TypeKey(key)
    \/ \E t \in Term : FunctionKey(t)
    \/ Others /\ UNCHANGED keys

\* What a state is told apart by: the copy terms[] holds of the displayed line
\* buffer is written before it is read.
Live == <<[t \in Term |-> View(t)], curr_term_id, exec_term_id, read_buf, overrun, keys>>

KSpec == KInit /\ [][KNext]_kvars

-----------------------------------------------------------------------------
(***************************************************************************)
(* Properties.                                                             *)
(***************************************************************************)
\* Whatever order the modifier keys go down and up in, and with a key repeating
\* its code, each shift flag is the state of its key; so is the Ctrl flag when
\* only one Ctrl key is used, and the Alt flag as long as no key with the prefix
\* 0xE0 has been used.
FlagsFollowKeys ==
    /\ SHIFT_LEFT_FLAG <=> "LSHIFT" \in held
    /\ SHIFT_RIGHT_FLAG <=> "RSHIFT" \in held
    /\ \A key \in { "LCTRL", "RCTRL" } :
          Modifiers \cap { "LCTRL", "RCTRL" } = {key} => (CTRL_FLAG <=> key \in held)
    /\ ~ extended => (alt_flag <=> "LALT" \in held)

\* The character the keyboard's labels promise for a key.
Wanted(key) ==
    LET shift == held \cap { "LSHIFT", "RSHIFT" } # {}
        capital == IF key = "l" THEN shift # CAPS_LOCK_FLAG ELSE shift
    IN IF capital THEN shift_pressed[key] ELSE no_modifier[key]

\* A key puts the character into the line that the held shift keys and Caps Lock
\* call for, and the line is that of the terminal on the display; the one exception
\* is the bar, for which caps_shift_pressed has a backslash.
TypedAsHeld ==
    [][\A key \in TypedKeys \ {"b"} : TypeKey(key) /\ vars' # vars =>
          /\ View(curr_term_id)'.buff_save[buff_index] = Wanted(key)
          /\ \A t \in Term \ {curr_term_id} : View(t)' = View(t)]_kvars
=============================================================================
