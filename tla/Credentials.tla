---------------------------- MODULE Credentials ----------------------------
(***************************************************************************)
(* What pairing promises the owner of a library: a code gives a credential *)
(* once, to a device that is new to the library, and a device that was     *)
(* barred holds no credential from then on.  Which requests overlap, and   *)
(* what they look at when, is left to DevicePairing.                       *)
(***************************************************************************)
EXTENDS Naturals

CONSTANTS Codes, Devices

VARIABLES spent,   \* the codes that gave a credential
          known,   \* the devices the library has, or had
          held,    \* the credentials in force: pairs of a code and a device
          barred   \* the devices that were revoked

vars == <<spent, known, held, barred>>

TypeOK ==
  /\ spent \subseteq Codes
  /\ known \subseteq Devices
  /\ held \subseteq Codes \X Devices
  /\ barred \subseteq Devices

Init == spent = {} /\ known = {} /\ held = {} /\ barred = {}

Pair(k, d) ==
  /\ k \notin spent /\ d \notin known
  /\ spent' = spent \cup {k}
  /\ known' = known \cup {d}
  /\ held' = held \cup {<<k, d>>}
  /\ UNCHANGED barred

Add(d) ==
  /\ d \notin known
  /\ known' = known \cup {d}
  /\ UNCHANGED <<spent, held, barred>>

\* Barred or deleted, a device is left without a credential.
Withdraw(d) ==
  /\ d \in known
  /\ held' = {h \in held : h[2] # d}
  /\ barred' \in {barred, barred \cup {d}}
  /\ UNCHANGED <<spent, known>>

Next == \E d \in Devices : Add(d) \/ Withdraw(d) \/ \E k \in Codes : Pair(k, d)

Spec == Init /\ [][Next]_vars

\* Each code has given one credential at most.
OncePerCode == \A g, h \in held : g[1] = h[1] => g = h

\* No barred device holds one.
BarredHoldNone == \A h \in held : h[2] \notin barred
=============================================================================
