---------------------------- MODULE HIDKeyboard ----------------------------
(***************************************************************************)
(* HIDKeyboard.cs and a host that turns its reports into text.             *)
(***************************************************************************)
EXTENDS DevicePath, FiniteSets

CONSTANTS
  Strings,      \* what the application may type by one SendString
  MaxCalls      \* calls of SendString and SendKey

KeySet == UNION {{s[k] : k \in DOMAIN s} : s \in Strings}
None == "none"

ASSUME KeyboardAssumption ==
  /\ MaxCalls \in Nat
  /\ Strings \subseteq Seq(KeySet) /\ None \notin KeySet
  /\ \E s \in Strings : \A t \in Strings : Len(t) <= Len(s)

VARIABLES
  keys,         \* _messages: the reports to be written
  configured,   \* _configured
  typed,        \* characters typed so far, in order
  calls,        \* calls so far
  held,         \* the last report the host has read
  text          \* key presses the host has seen

keyboard == <<keys, configured, typed, calls, held, text>>

(* A report: its key, the call it belongs to, its place in that call. *)
Report(k, n, at) == [key |-> k, call |-> n, at |-> at]
Cleared == Report(None, 0, 0)
Longest == CHOOSE n \in {Len(s) : s \in Strings} : \A s \in Strings : Len(s) <= n
Reports == [key : KeySet \cup {None}, call : 0 .. MaxCalls, at : 0 .. Longest + 1]

KeyboardTypeOK ==
  /\ PathTypeOK(Reports, {})
  /\ keys \in Seq(Reports) /\ configured \in BOOLEAN
  /\ typed \in Seq(Reports) /\ text \in Seq(Reports)
  /\ calls \in 0 .. MaxCalls /\ held \in Reports

KeyboardInit ==
  /\ PathInit
  /\ keys = <<>> /\ configured = FALSE /\ typed = <<>> /\ calls = 0
  /\ held = Cleared /\ text = <<>>

-----------------------------------------------------------------------------
(* The application: a report for every character, and a last one with no  *)
(* key.  SendKey is the call for a string of one.                          *)
Pressed(s) == [k \in DOMAIN s |-> Report(s[k], calls + 1, k)]
Clear(s) == Report(None, calls + 1, Len(s) + 1)

(* Mutant: the keys are not released after the last character. *)
SendStringHolds(s) ==
  /\ calls < MaxCalls /\ calls' = calls + 1
  /\ keys' = keys \o Pressed(s)
  /\ typed' = typed \o Pressed(s)
  /\ UNCHANGED <<path, configured, held, text>>

SendString(s) ==
  /\ calls < MaxCalls /\ calls' = calls + 1
  /\ keys' = keys \o Append(Pressed(s), Clear(s))
  /\ typed' = typed \o Pressed(s)
  /\ UNCHANGED <<path, configured, held, text>>

(* The keyboard's own thread, _SendMessages. *)

(* Mutant: the newest report is taken. *)
SendReportNewest ==
  /\ configured /\ keys # <<>> /\ keys' = SubSeq(keys, 1, Len(keys) - 1)
  /\ WriteOutgoingData(<< <<keys[Len(keys)]>> >>) /\ UNCHANGED <<toPC, replying>>
  /\ UNCHANGED <<configured, typed, calls, held, text>>

SendReport ==
  /\ configured /\ keys # <<>> /\ keys' = Tail(keys)
  /\ WriteOutgoingData(<< <<Head(keys)>> >>) /\ UNCHANGED <<toPC, replying>>
  /\ UNCHANGED <<configured, typed, calls, held, text>>

(* OnControlRequestReceived: SET_CONFIGURATION is remembered, for ever. *)
KeyboardRequested ==
  /\ \/ Requested("configure") /\ configured' = TRUE
     \/ Requested("class") /\ UNCHANGED configured
  /\ UNCHANGED <<keys, typed, calls, held, text>>

-----------------------------------------------------------------------------
(* The host: a key in this report and not in the one before is a press.   *)
HostReadsReport ==
  /\ HostReads
  /\ held' = bank[1]
  /\ text' = IF bank[1].key \notin {None, held.key} THEN Append(text, bank[1]) ELSE text
  /\ UNCHANGED <<keys, configured, typed, calls>>

HostForgetsKeyboard ==
  /\ HostResets /\ held' = Cleared
  /\ UNCHANGED <<keys, configured, typed, calls, text>>

KeyboardSteps == SendReport \/ KeyboardRequested \/ HostReadsReport
KeyboardNext ==
  \/ \E s \in Strings : SendString(s)
  \/ KeyboardSteps \/ HostForgetsKeyboard

-----------------------------------------------------------------------------
KeysDrained == keys = <<>> /\ queue = <<>> /\ bank = <<>>

(* A character that repeats the one before it in the same string: the      *)
(* two reports are the same, and the host sees no second press.            *)
Repeats(k) == /\ k > 1 /\ typed[k - 1].call = typed[k].call
              /\ typed[k - 1].key = typed[k].key
Visible == {k \in DOMAIN typed : ~Repeats(k)}

(* If no report was lost, and no reset made the host forget which key is   *)
(* down, the n-th press it has seen is the n-th character typed, not       *)
(* counting repetitions, and it has seen all of them once nothing is under *)
(* way (HIDKeyboard.cs:395-422).                                           *)
TextAsTyped ==
  lost = {} /\ resets = 0 =>
    /\ \A n \in DOMAIN text :
         \E k \in Visible : text[n] = typed[k] /\ Cardinality({v \in Visible : v <= k}) = n
    /\ KeysDrained => Len(text) = Cardinality(Visible)

(* A key stays pressed only if the report that releases it was lost, and   *)
(* with it every report after it.                                          *)
StuckKey ==
  KeysDrained /\ held.key # None =>
    \A r \in Reports :
      /\ r.call > held.call \/ (r.call = held.call /\ r.at > held.at)
      /\ r.key = None /\ r.call <= calls
      /\ \E k \in DOMAIN typed : typed[k].call = r.call /\ typed[k].at = r.at - 1
      /\ \A k \in DOMAIN typed : typed[k].call = r.call => typed[k].at < r.at
      => r \in lost

(* Every press is followed by its release, unless reports are lost, or one *)
(* that came right behind the reply to a request has hung the firmware     *)
(* (simulator.c:213-217, 422-440).                                         *)
KeysReleased == held.key # None ~> held.key = None \/ lost # {} \/ waiting = "stuck"

=============================================================================
