-------------------------------- MODULE Fund --------------------------------
(***************************************************************************)
(* `lium fund`: a deposit in TAO, or in the alpha of a subnet.  The pay    *)
(* API names the subnet and the address and turns dollars into alpha; the  *)
(* chain moves what was signed, at once, late or never, and the answer may *)
(* be lost.  The user wants one deposit, does what the hint of a failed    *)
(* command says, and starts an interrupted command once more.              *)
(***************************************************************************)
EXTENDS Naturals, SequencesExt

CONSTANTS
  Netuids,
  Companies,      \* Lium's addresses, one of them current
  Own,            \* the user's coldkey
  Tao,            \* stands for the root network, where TAO is
  LegacyAddress,  \* LIUM_FUNDING_ADDRESS
  Quotes,         \* what the API quotes, in parts of a rao
  Grain,          \* parts of a rao
  MaxFree,        \* bound: free alpha
  MaxRuns         \* bound: runs of the command

VARIABLES
  free,        \* chain: the free alpha of the user's hotkey on a subnet
  pending,     \* chain: transfers that were submitted and are undecided
  moved,       \* chain: the transfers made, in order
  pay,         \* pay API: [netuid, address]
  registered,  \* pay API: the wallet is linked with the account
  fund,        \* the command
  user,        \* [hint, wants, runs]
  lost,        \* history: after a transfer was submitted, an alpha command raised or any was cut off
  shown        \* history: what the user confirmed last, and the netuids the API has had since

chain == <<free, pending, moved>>
vars  == <<free, pending, moved, pay, registered, fund, user, lost, shown>>

-----------------------------------------------------------------------------
\* The quote in whole rao, rounded down.
Floor(q) == q \div Grain

\* A deposit in TAO is of one amount.  run tells the transfers of two commands apart.
Amounts   == {1} \cup {Floor(q) : q \in Quotes}
Transfers == [netuid : Netuids \cup {Tao}, dest : Companies \cup {Own, LegacyAddress}, amount : Amounts,
              run : 0..MaxRuns]

Places == {"idle", "load", "balance", "unlock", "register", "discover", "address", "quote", "check",
           "confirm", "requote", "gate", "submit", "wait"}

NoFund ==
  [pc |-> "idle", alpha |-> FALSE, yes |-> FALSE, json |-> FALSE, netuid |-> Tao,
   dest |-> LegacyAddress, quote |-> Grain, amount |-> 1]

NotShown == [of |-> 0, netuid |-> Tao, dest |-> LegacyAddress, amount |-> 0, quote |-> 0, live |-> {}]

At(pc)   == fund.pc = pc
Go(pc)   == fund' = [fund EXCEPT !.pc = pc]
Then(a, t) == Go(IF fund.alpha THEN a ELSE t)
Signed   == [netuid |-> fund.netuid, dest |-> fund.dest, amount |-> fund.amount, run |-> user.runs]

\* The command ends; the user reads what to do next.
Over          == fund' = NoFund /\ shown' = NotShown
EndWith(hint) == Over /\ user' = [user EXCEPT !.hint = hint]
Still         == UNCHANGED <<chain, pay, lost>>

-----------------------------------------------------------------------------
(* Up to the confirmation.                                                 *)

\* A user who wants the deposit and was not told to wait runs the command.
Begin ==
  /\ At("idle")
  /\ user.wants /\ user.hint # "check" /\ user.runs < MaxRuns
  /\ user' = [user EXCEPT !.runs = @ + 1, !.hint = "none"]
  /\ \E alpha, yes, json \in BOOLEAN :
       /\ json => alpha
       /\ fund' = [NoFund EXCEPT !.pc = "load", !.alpha = alpha, !.yes = yes, !.json = json]
  /\ Still /\ UNCHANGED <<registered, shown>>

\* Whatever fails before something is signed: no chain stack, an argument missing under
\* --json, a wallet, hotkey or amount that is none, a wrong password, any answer of the API
\* that is an error.  The hint is the general one of its code.
Fails ==
  /\ fund.pc \notin {"idle", "submit", "wait"}
  /\ EndWith("retry")
  /\ Still /\ UNCHANGED registered

\* Ctrl-C, or the process is killed: no `except Exception` sees it, and there is no hint.
Interrupted ==
  /\ ~At("idle")
  /\ lost' = (lost \/ At("wait"))
  /\ EndWith("none")
  /\ UNCHANGED <<chain, pay, registered>>

\* Wallet, hotkey and amount.
Load ==
  /\ At("load")
  /\ Then("unlock", "balance")
  /\ Still /\ UNCHANGED <<registered, user, shown>>

Balance ==
  /\ At("balance")
  /\ Go("confirm")
  /\ Still /\ UNCHANGED <<registered, user, shown>>

Unlock ==
  /\ At("unlock")
  /\ Go("register")
  /\ Still /\ UNCHANGED <<registered, user, shown>>

\* The wallet is linked if it is not; that tells the app id as well.  It may be linked and
\* not be seen in the list for all five looks.
Register ==
  /\ At("register")
  /\ registered' = TRUE
  /\ \/ Then(IF registered THEN "discover" ELSE "address", "submit") /\ UNCHANGED <<user, shown>>
     \/ ~registered /\ EndWith("retry")
  /\ Still

Discover ==
  /\ At("discover")
  /\ Go("address")
  /\ Still /\ UNCHANGED <<registered, user, shown>>

\* Mutant: whatever address the API names is taken.
AddressUnchecked ==
  /\ At("address")
  /\ fund' = [fund EXCEPT !.pc = "quote", !.dest = pay.address]
  /\ Still /\ UNCHANGED <<registered, user, shown>>

\* The address must be one, and not the user's own.
Address ==
  /\ At("address")
  /\ pay.address # Own
  /\ fund' = [fund EXCEPT !.pc = "quote", !.dest = pay.address]
  /\ Still /\ UNCHANGED <<registered, user, shown>>

Quote ==
  /\ At("quote")
  /\ \E q \in Quotes :
       fund' = [fund EXCEPT !.pc = "check", !.netuid = pay.netuid, !.quote = q, !.amount = Floor(q)]
  /\ Still /\ UNCHANGED <<registered, user, shown>>

\* Only a hotkey without any stake ends here; too little is shown and goes on.
CheckFree ==
  /\ At("check")
  /\ Go("confirm")
  /\ Still /\ UNCHANGED <<registered, user, shown>>

\* --yes, or the user answers y; --json does not ask.
Agree ==
  /\ At("confirm")
  /\ fund.yes \/ ~fund.json
  /\ fund' = [fund EXCEPT !.pc = IF fund.alpha THEN "requote" ELSE "unlock",
                          !.yes = FALSE, !.json = FALSE, !.quote = Grain]      \* not used again
  /\ shown' = [of |-> user.runs, netuid |-> fund.netuid, dest |-> fund.dest, amount |-> fund.amount,
               quote |-> fund.quote, live |-> {pay.netuid}]
  /\ Still /\ UNCHANGED <<registered, user>>

Decline ==
  /\ At("confirm")
  /\ ~fund.yes /\ ~fund.json
  /\ Over
  /\ user' = [user EXCEPT !.wants = FALSE]
  /\ Still /\ UNCHANGED registered

-----------------------------------------------------------------------------
(* After it.                                                               *)

\* Mutant: the second quote takes the place of the first.
RequoteAnew ==
  /\ At("requote")
  /\ pay.netuid = fund.netuid
  /\ \E q \in Quotes : fund' = [fund EXCEPT !.pc = "gate", !.amount = Floor(q)]
  /\ Still /\ UNCHANGED <<registered, user, shown>>

\* Another subnet than the one confirmed ends the command (Fails); the amount stays.
Requote ==
  /\ At("requote")
  /\ pay.netuid = fund.netuid
  /\ Go("gate")
  /\ Still /\ UNCHANGED <<registered, user, shown>>

\* The stake of this hotkey on this subnet that is not locked.
Free == free[fund.netuid]

\* The free alpha is read once more, and is enough.
Gate ==
  /\ At("gate")
  /\ Free >= fund.amount
  /\ Go("submit")
  /\ Still /\ UNCHANGED <<registered, user, shown>>

Submit ==
  /\ At("submit")
  /\ pending' = Append(pending, Signed)
  /\ Go("wait")
  /\ UNCHANGED <<free, moved, pay, registered, user, lost, shown>>

\* What the user is told when the call to the chain raises: an alpha transfer is reported as
\* if nothing had been sent (no transfer_attempted), a TAO transfer as sent.
HintOfRaise == IF fund.alpha THEN "retry" ELSE "check"

\* The chain cannot be reached.
Unreachable ==
  /\ At("submit")
  /\ EndWith(HintOfRaise)
  /\ Still /\ UNCHANGED registered

\* The connection breaks, or a library call raises, after the transfer was submitted.
Raises ==
  /\ At("wait")
  /\ lost' = (lost \/ fund.alpha)
  /\ EndWith(HintOfRaise)
  /\ UNCHANGED <<chain, pay, registered>>

Succeeds ==
  /\ At("wait")
  /\ Contains(moved, Signed)
  /\ Over
  /\ user' = [user EXCEPT !.wants = FALSE]
  /\ Still /\ UNCHANGED registered

\* Mutant: the flag transfer_attempted is not set.
HintOfRejected == "retry"

\* Success is false: the chain has rejected the transfer, or has not included it in time.
HintOfFailure == "check"

Rejected ==
  /\ At("wait")
  /\ ~Contains(moved, Signed)
  /\ EndWith(HintOfFailure)
  /\ Still /\ UNCHANGED registered

-----------------------------------------------------------------------------
(* The user, the chain and the pay API.                                    *)

\* Told to check, the user waits until the transfer is decided and looks at the wallet.
LookAtWallet ==
  /\ At("idle")
  /\ user.hint = "check"
  /\ pending = <<>>
  /\ user' = [user EXCEPT !.hint = "none", !.wants = (moved = <<>>)]
  /\ Still /\ UNCHANGED <<registered, fund, shown>>

Include ==
  /\ pending # <<>>
  /\ LET t == Head(pending) IN
       /\ t.netuid # Tao => free[t.netuid] >= t.amount
       /\ moved' = Append(moved, t)
       /\ free' = [n \in Netuids |-> IF n = t.netuid THEN free[n] - t.amount ELSE free[n]]
  /\ pending' = Tail(pending)
  /\ UNCHANGED <<pay, registered, fund, user, lost, shown>>

Drop ==
  /\ pending # <<>>
  /\ pending' = Tail(pending)
  /\ UNCHANGED <<free, moved, pay, registered, fund, user, lost, shown>>

\* The user's alpha moves by other means.
Elsewhere ==
  /\ fund.pc \in {"confirm", "requote", "gate", "submit"} /\ fund.alpha
  /\ \E f \in 0..MaxFree : f # free[fund.netuid] /\ free' = [free EXCEPT ![fund.netuid] = f]
  /\ UNCHANGED <<pending, moved, pay, registered, fund, user, lost, shown>>

\* The API names another subnet or another address.
Rotate ==
  /\ fund.pc \in {"address", "quote", "confirm", "requote", "gate"} /\ fund.alpha
  /\ \E n \in Netuids, a \in Companies \cup {Own} :
       /\ pay' = [netuid |-> n, address |-> a]
       /\ pay' # pay
       /\ shown' = [shown EXCEPT !.live = IF shown.of = 0 THEN @ ELSE @ \cup {n}]
  /\ UNCHANGED <<chain, registered, fund, user, lost>>

Init ==
  /\ free = [n \in Netuids |-> MaxFree]
  /\ pending = <<>> /\ moved = <<>>
  /\ pay = [netuid |-> CHOOSE n \in Netuids : TRUE, address |-> CHOOSE a \in Companies : TRUE]
  /\ registered = FALSE
  /\ fund = NoFund
  /\ user = [hint |-> "none", wants |-> TRUE, runs |-> 0]
  /\ lost = FALSE
  /\ shown = NotShown

Next ==
  \/ Begin \/ Fails \/ Interrupted \/ Load \/ Balance \/ Unlock \/ Register \/ Discover \/ Address \/ Quote
  \/ CheckFree \/ Agree \/ Decline \/ Requote \/ Gate \/ Submit
  \/ Unreachable \/ Raises \/ Succeeds \/ Rejected
  \/ LookAtWallet \/ Include \/ Drop \/ Elsewhere \/ Rotate

Spec == Init /\ [][Next]_vars

-----------------------------------------------------------------------------
TypeOK ==
  /\ free \in [Netuids -> 0..MaxFree]
  /\ pending \in Seq(Transfers) /\ moved \in Seq(Transfers)
  /\ pay \in [netuid : Netuids, address : Companies \cup {Own}]
  /\ {registered, lost} \subseteq BOOLEAN
  /\ fund \in [pc : Places, alpha : BOOLEAN, yes : BOOLEAN, json : BOOLEAN, netuid : Netuids \cup {Tao},
               dest : Companies \cup {Own, LegacyAddress}, quote : Quotes \cup {Grain}, amount : Amounts]
  /\ user \in [hint : {"none", "retry", "check"}, wants : BOOLEAN, runs : 0..MaxRuns]
  /\ shown \in [of : 0..MaxRuns, netuid : Netuids \cup {Tao}, dest : Companies \cup {Own, LegacyAddress},
                amount : Amounts \cup {0}, quote : Quotes \cup {0, Grain}, live : SUBSET Netuids]

\* What is signed is what the user of this command confirmed: the subnet, the address, which is
\* not the user's own, and an amount that is not above the quote; and the API has named that
\* subnet at some moment since the confirmation, for a wallet it can tell the account of.
SentAsConfirmed ==
  [][Len(pending') > Len(pending) =>
       LET t == Last(pending') IN
         /\ shown.of = t.run
         /\ t.netuid = shown.netuid /\ t.dest = shown.dest /\ t.dest # Own
         /\ t.amount * Grain <= shown.quote
         /\ t.netuid # Tao => t.netuid \in shown.live
         /\ registered]_vars

\* A user who does what the hints say sends twice only after a transfer had been submitted and
\* the command ended without a hint to check: a call for alpha that raised, or a Ctrl-C or a
\* kill.  No rejection, timeout, refused step or TAO call that raised makes a second one.
ResendNeedsLostAnswer == Len(pending) + Len(moved) > 1 => lost
=============================================================================
