---------------------------- MODULE SubnetActor ----------------------------
(***************************************************************************)
(* The contract of a subnet on its parent, with what the parent's gateway  *)
(* holds for it.  Before the subnet is bootstrapped deposits, withdrawals  *)
(* and powers are confirmed at once; after that they are changes in a log, *)
(* numbered in order, that a checkpoint of the child confirms up to the    *)
(* number it carries.  Funds are the native coin.                          *)
(*                                                                         *)
(* Pausing, which only forbids calls, and the addresses of bootstrap nodes *)
(* are left out.                                                           *)
(***************************************************************************)
EXTENDS ValidatorSet

CONSTANTS Modes,          \* the permission modes the owner chooses from
          ActiveLimit, MinValidators, MinActivationCollateral,
          FederatedCalls, \* lists of distinct validators with their powers, set by the owner
          MaxStake,       \* bound: the total collateral of a validator
          MaxFunds,       \* bound: the supply of the subnet
          MaxChanges      \* bound: the configuration numbers

ASSUME ActorAssumption ==
    /\ Modes \subseteq {"Collateral", "Federated", "Static"}
    /\ ActiveLimit \in Nat \ {0} /\ MinValidators \in Nat /\ MinActivationCollateral \in Nat \ {0}
    /\ {MaxStake, MaxFunds, MaxChanges} \subseteq Nat

VARIABLES
    set,                \* validatorSet
    changes,            \* changeSet.changes, from the start to before the next number
    start, next,        \* startConfigurationNumber, nextConfigurationNumber
    releases,           \* releaseQueue: what each validator can claim
    bootstrapped, killed,
    genesis,            \* genesisValidators
    genesisBalance, genesisBalanceKeys, genesisCircSupply,
    balance,            \* the actor's funds
    gateway             \* the gateway's record of the subnet

actorVars == <<set, changes, start, next, releases, bootstrapped, killed, genesis,
               genesisBalance, genesisBalanceKeys, genesisCircSupply, balance, gateway>>

log == <<changes, start, next>>
funds == <<genesisBalance, genesisBalanceKeys, genesisCircSupply>>

Total(f) == MapThenSumSet(LAMBDA v : f[v], Validators)

\* minActivationCollateral is ignored in federated mode.
minActivationCollateral == IF set.mode = "Federated" THEN 0 ELSE MinActivationCollateral

Init ==
    /\ \E mode \in Modes : set = EmptySet(mode, ActiveLimit)
    /\ changes = <<>> /\ start = 1 /\ next = 1
    /\ releases = [v \in Validators |-> 0]
    /\ bootstrapped = FALSE /\ killed = FALSE
    /\ genesis = <<>>
    /\ genesisBalance = [v \in Validators |-> 0] /\ genesisBalanceKeys = {} /\ genesisCircSupply = 0
    /\ balance = 0
    /\ gateway = [registered |-> FALSE, stake |-> 0, circSupply |-> 0]

----------------------------------------------------------------------------
preFund(u, value) ==
    /\ ~bootstrapped
    /\ genesisBalance[u] + genesisCircSupply + value <= MaxFunds
    /\ genesisBalanceKeys' = IF genesisBalance[u] = 0 THEN genesisBalanceKeys \cup {u} ELSE genesisBalanceKeys
    /\ genesisBalance' = [genesisBalance EXCEPT ![u] = @ + value]
    /\ genesisCircSupply' = genesisCircSupply + value
    /\ balance' = balance + value
    /\ UNCHANGED <<set, log, releases, bootstrapped, killed, genesis, gateway>>

preRelease(u, amount) ==
    /\ ~bootstrapped
    /\ amount <= genesisBalance[u] /\ amount <= genesisCircSupply /\ amount <= balance
    /\ genesisBalance' = [genesisBalance EXCEPT ![u] = @ - amount]
    /\ genesisCircSupply' = genesisCircSupply - amount
    /\ genesisBalanceKeys' = IF genesisBalance[u] = amount THEN genesisBalanceKeys \ {u} ELSE genesisBalanceKeys
    /\ balance' = balance - amount
    /\ UNCHANGED <<set, log, releases, bootstrapped, killed, genesis, gateway>>

isValidator(v) == set.staked[v] # 0
isGenesisValidator(v) == \E i \in DOMAIN genesis : genesis[i].addr = v

\* A plausible slip: the genesis supply is registered as collateral.
bootstrapSubnetIfNeeded_staked(s, b) ==
    IF s.total >= minActivationCollateral /\ Len(s.active) >= MinValidators
    THEN /\ bootstrapped' = TRUE
         /\ balance' = b - s.total - genesisCircSupply
         /\ gateway' = [registered |-> TRUE, stake |-> s.total + genesisCircSupply, circSupply |-> 0]
    ELSE balance' = b /\ UNCHANGED <<bootstrapped, gateway>>

\* bootstrapSubnetIfNeeded, once the set is s and the actor holds b: the collateral and
\* the genesis supply go to the gateway.
bootstrapSubnetIfNeeded(s, b) ==
    IF s.total >= minActivationCollateral /\ Len(s.active) >= MinValidators
    THEN /\ bootstrapped' = TRUE
         /\ balance' = b - s.total - genesisCircSupply
         /\ gateway' = [registered |-> TRUE, stake |-> s.total, circSupply |-> genesisCircSupply]
    ELSE balance' = b /\ UNCHANGED <<bootstrapped, gateway>>

\* LibStaking.depositWithConfirm and the test that follows it.
depositWithConfirm(s, v, amount) ==
    LET r == confirmDeposit([s EXCEPT !.staked[v] = @ + amount], v, amount)
    IN  /\ set' = r
        /\ genesis' = IF isGenesisValidator(v) THEN genesis
                      ELSE Append(genesis, [addr |-> v, weight |-> r.confirmed[v]])
        /\ bootstrapSubnetIfNeeded(r, balance + amount)
        /\ UNCHANGED <<log, releases, killed, funds>>

\* recordChange for each of a list of changes.
recordChanges(cs) ==
    /\ next + Len(cs) <= MaxChanges + 1
    /\ changes' = [i \in start..next + Len(cs) - 1 |-> IF i < next THEN changes[i] ELSE cs[i - next + 1]]
    /\ next' = next + Len(cs)
    /\ UNCHANGED start

Change(op, v, amount) == [op |-> op, validator |-> v, amount |-> amount]

\* A plausible slip: the public key is not recorded when the subnet is bootstrapped.
join_keyless(v, value) ==
    /\ ~killed
    /\ bootstrapped => set.mode = "Collateral"
    /\ ~isValidator(v)
    /\ value <= MaxStake
    /\ IF ~bootstrapped
       THEN depositWithConfirm([set EXCEPT !.metadata = @ \cup {v}], v, value)
       ELSE /\ recordChanges(<<Change("Deposit", v, value)>>)
            /\ set' = [set EXCEPT !.staked[v] = @ + value]
            /\ balance' = balance + value
            /\ UNCHANGED <<releases, bootstrapped, killed, genesis, funds, gateway>>

join(v, value) ==
    /\ ~killed
    /\ bootstrapped => set.mode = "Collateral"
    /\ ~isValidator(v)
    /\ value <= MaxStake
    /\ IF ~bootstrapped
       THEN depositWithConfirm([set EXCEPT !.metadata = @ \cup {v}], v, value)
       ELSE /\ recordChanges(<<Change("SetMetadata", v, 0), Change("Deposit", v, value)>>)
            /\ set' = [set EXCEPT !.staked[v] = @ + value]
            /\ balance' = balance + value
            /\ UNCHANGED <<releases, bootstrapped, killed, genesis, funds, gateway>>

stake(v, value) ==
    /\ ~killed
    /\ set.mode = "Collateral"
    /\ isValidator(v)
    /\ set.staked[v] + value <= MaxStake
    /\ IF ~bootstrapped
       THEN depositWithConfirm(set, v, value)
       ELSE /\ recordChanges(<<Change("Deposit", v, value)>>)
            /\ set' = [set EXCEPT !.staked[v] = @ + value]
            /\ balance' = balance + value
            /\ UNCHANGED <<releases, bootstrapped, killed, genesis, funds, gateway>>

\* LibStaking.withdrawWithConfirm; paid is what the caller has paid out already.
withdrawWithConfirm(v, amount, paid) ==
    /\ canWithdraw(set, v, amount)
    /\ amount + paid <= balance
    /\ set' = confirmWithdraw([set EXCEPT !.staked[v] = @ - amount], v, amount)
    /\ balance' = balance - paid - amount
    /\ UNCHANGED <<log, releases, bootstrapped, killed, genesis, gateway>>

\* A plausible slip: recordWithdraw is left out.
withdraw_unrecorded(v, amount) ==
    /\ recordChanges(<<Change("Withdraw", v, amount)>>)
    /\ UNCHANGED <<set, releases, bootstrapped, killed, genesis, funds, balance, gateway>>

\* LibStaking.withdraw.
withdraw(v, amount) ==
    /\ recordChanges(<<Change("Withdraw", v, amount)>>)
    /\ set' = [set EXCEPT !.staked[v] = @ - amount]
    /\ UNCHANGED <<releases, bootstrapped, killed, genesis, funds, balance, gateway>>

unstake(v, amount) ==
    /\ ~killed /\ set.mode = "Collateral"
    /\ amount < set.staked[v]
    /\ IF ~bootstrapped THEN withdrawWithConfirm(v, amount, 0) /\ UNCHANGED funds
                        ELSE withdraw(v, amount)

\* The genesis balance is paid out; the statement meant to reset it compares.
leave(v) ==
    LET amount == set.staked[v]
        paid == genesisBalance[v]
    IN  /\ ~killed
        /\ bootstrapped => set.mode = "Collateral"
        /\ isValidator(v)
        /\ IF ~bootstrapped
           THEN /\ paid <= genesisCircSupply
                /\ genesisCircSupply' = genesisCircSupply - paid
                /\ genesisBalanceKeys' = IF paid = 0 THEN genesisBalanceKeys ELSE genesisBalanceKeys \ {v}
                /\ UNCHANGED genesisBalance
                /\ withdrawWithConfirm(v, amount, paid)
           ELSE withdraw(v, amount)

\* A call is a list of entries, each with an address and a power.
preBootstrapSetFederatedPower(call) ==
    LET after[i \in 0..Len(call)] ==
            IF i = 0 THEN set
            ELSE confirmFederatedPower([after[i - 1] EXCEPT !.metadata = @ \cup {call[i].addr}],
                                       call[i].addr, call[i].weight)
    IN  /\ Len(call) > MinValidators
        /\ \A i \in DOMAIN call : getPower(set, call[i].addr) = 0
        /\ set' = after[Len(call)]
        /\ genesis' = genesis \o call
        /\ bootstrapped' = TRUE
        /\ balance' = balance - genesisCircSupply
        /\ gateway' = [registered |-> TRUE, stake |-> 0, circSupply |-> genesisCircSupply]
        /\ UNCHANGED <<log, releases, killed, funds>>

postBootstrapSetFederatedPower(call) ==
    /\ recordChanges([i \in DOMAIN call |-> Change("SetFederatedPower", call[i].addr, call[i].weight)])
    /\ UNCHANGED <<set, releases, bootstrapped, killed, genesis, funds, balance, gateway>>

setFederatedPower(call) ==
    /\ ~killed
    /\ set.mode = "Federated"
    /\ IF bootstrapped THEN postBootstrapSetFederatedPower(call)
                       ELSE preBootstrapSetFederatedPower(call)

totalValidators == Len(set.active) + Len(set.waiting)

\* The gateway's kill pays its stake back.
kill ==
    /\ ~killed
    /\ totalValidators = 0
    /\ bootstrapped
    /\ gateway.registered /\ gateway.circSupply = 0
    /\ killed' = TRUE
    /\ balance' = balance + gateway.stake
    /\ gateway' = [registered |-> FALSE, stake |-> 0, circSupply |-> 0]
    /\ UNCHANGED <<set, log, releases, bootstrapped, genesis, funds>>

\* The locking duration is always zero, so that every release is due.
claim(v) ==
    /\ releases[v] # 0
    /\ releases[v] <= balance
    /\ releases' = [releases EXCEPT ![v] = 0]
    /\ balance' = balance - releases[v]
    /\ UNCHANGED <<set, log, bootstrapped, killed, genesis, funds, gateway>>

\* GatewayManagerFacet.fund.
fund(value) ==
    /\ gateway.registered
    /\ gateway.circSupply + value <= MaxFunds
    /\ gateway' = [gateway EXCEPT !.circSupply = @ + value]
    /\ UNCHANGED <<set, log, releases, bootstrapped, killed, genesis, funds, balance>>

----------------------------------------------------------------------------
\* The amount of an operation among the changes i to n, for a validator.
Amounts(op, v, i, n) ==
    MapThenSumSet(LAMBDA j : IF changes[j].op = op /\ changes[j].validator = v THEN changes[j].amount ELSE 0, i..n)
AllAmounts(op, i, n) == Total([v \in Validators |-> Amounts(op, v, i, n)])

\* No turn of the loop reverts: neither the set, nor the actor's payments to the gateway,
\* nor the gateway's payments to the actor.
CanConfirmChange(n) ==
    \A i \in start..n :
        /\ canConfirm(Confirming(set, changes, start, n)[i - 1], changes[i])
        /\ changes[i].op = "Withdraw" =>
              changes[i].amount <= gateway.stake + AllAmounts("Deposit", start, i - 1)
                                   - AllAmounts("Withdraw", start, i - 1)
        /\ changes[i].op = "Deposit" =>
              changes[i].amount <= balance + AllAmounts("Withdraw", start, i - 1)
                                   - AllAmounts("Deposit", start, i - 1)

\* A plausible slip: a confirmed withdrawal is not entered into the release queue.
released_none(n) == releases
released(n) == [v \in Validators |-> releases[v] + Amounts("Withdraw", v, start, n)]

\* submitCheckpoint with a quorum of signatures: the gateway executes messages worth value,
\* then the changes up to number n are confirmed.
submitCheckpoint(n, value) ==
    LET deposits == AllAmounts("Deposit", start, n)
        withdrawals == AllAmounts("Withdraw", start, n)
    IN  /\ gateway.registered
        /\ value <= gateway.circSupply
        /\ n < next
        /\ CanConfirmChange(n)
        /\ set' = IF n < start THEN set ELSE Confirming(set, changes, start, n)[n]
        /\ releases' = released(n)
        /\ balance' = balance + withdrawals - deposits
        /\ gateway' = [gateway EXCEPT !.stake = @ + deposits - withdrawals, !.circSupply = @ - value]
        /\ start' = IF n < start THEN start ELSE n + 1
        /\ changes' = [i \in start'..next - 1 |-> changes[i]]
        /\ UNCHANGED <<next, bootstrapped, killed, genesis, funds>>

ActorNext ==
    \/ \E v \in Validators, n \in 1..MaxStake : join(v, n)
    \/ \E v \in Validators, n \in 1..MaxStake : stake(v, n)
    \/ \E v \in Validators, n \in 1..MaxStake : unstake(v, n)
    \/ \E v \in Validators : leave(v)
    \/ \E v \in Validators : claim(v)
    \/ \E u \in Validators, n \in 1..MaxFunds : preFund(u, n)
    \/ \E u \in Validators, n \in 1..MaxFunds : preRelease(u, n)
    \/ \E call \in FederatedCalls : setFederatedPower(call)
    \/ \E n \in 1..MaxFunds : fund(n)
    \/ kill

\* The actor by itself: the child may have applied any prefix of the changes.
ActorSpec ==
    Init /\ [][ActorNext \/ \E n \in 0..MaxChanges, value \in {0, gateway.circSupply} : submitCheckpoint(n, value)]_actorVars

----------------------------------------------------------------------------
\* No coin is lost or owed twice: what the actor holds, with its stake in the gateway, is
\* the confirmed collateral, the deposits not yet confirmed, the withdrawals not yet
\* claimed and, until the subnet is bootstrapped, the genesis supply; neither account is
\* overdrawn.
FundsAccounted ==
    /\ balance >= 0 /\ gateway.stake >= 0
    /\ balance + gateway.stake =
           set.total + AllAmounts("Deposit", start, next - 1) + Total(releases)
           + (IF bootstrapped THEN 0 ELSE genesisCircSupply)

\* The collateral the gateway holds for a subnet whose power is its collateral is exactly
\* the confirmed one, so that a confirmed withdrawal can always be released.
StakeIsConfirmed == gateway.registered /\ set.mode # "Federated" => gateway.stake = set.total

\* A log of changes can always be confirmed up to any number: whatever was accepted when it
\* was requested does not revert when a checkpoint confirms it.
LogReplays == gateway.registered => \A n \in start..next - 1 : CanConfirmChange(n)

\* totalCollateral is what confirmedCollateral becomes once the log is confirmed.
TotalIsConfirmedLater ==
    Confirming(set, changes, start, next - 1)[next - 1].confirmed = set.staked

\* Every active or waiting validator has its public key on the parent, although the record
\* with the key is deleted when the collateral reaches zero while a new join may be queued.
MembersHaveKeys == Range(set.active) \cup Range(set.waiting) \subseteq set.metadata
=============================================================================
