--------------------------- MODULE AllocationMath ---------------------------
(***************************************************************************)
(* The arithmetic of RevenueRouter.sol: the allocation policy in basis      *)
(* points, the test updateAllocationPolicy makes of a new policy, and the   *)
(* split of an inflow into six shares, rounded down except for the          *)
(* founder's, which is what remains.                                        *)
(*                                                                          *)
(* A policy and a split are both functions over the six bucket names.  The  *)
(* products cannot overflow a uint256 (the ether supply is below 2^97 wei,  *)
(* a policy entry below 2^16), so they are taken over the integers.         *)
(***************************************************************************)
EXTENDS Integers

BPS_DENOMINATOR == 10000
TREASURY_FLOOR_BPS == 4000
FOUNDER_MAX_BPS == 500

SinkNames ==
    {"TREASURY", "MEV", "OPS_DEV", "DATA_YIELD", "DELEGATE_POOLS", "FOUNDER"}

MAX_UINT16 == 65535
UInt16 == {n \in Nat : n <= MAX_UINT16}

AllocationPolicy == [SinkNames -> UInt16]

\* The sum of a function over the six buckets.
Total(f) == f["TREASURY"] + f["MEV"] + f["OPS_DEV"] + f["DATA_YIELD"]
              + f["DELEGATE_POOLS"] + f["FOUNDER"]

PolicyOf(treasury, mev, ops, dataYield, delegate, founder) ==
    [s \in SinkNames |->
        CASE s = "TREASURY"       -> treasury
          [] s = "MEV"            -> mev
          [] s = "OPS_DEV"        -> ops
          [] s = "DATA_YIELD"     -> dataYield
          [] s = "DELEGATE_POOLS" -> delegate
          [] s = "FOUNDER"        -> founder]

\* The policy the constructor installs.
InitialPolicy == PolicyOf(4000, 2500, 1500, 1000, 500, 500)

\* Mutant: the treasury floor is not checked.
PolicyAccepted_NoFloor(p) ==
    /\ Total(p) = BPS_DENOMINATOR
    /\ p["FOUNDER"] <= FOUNDER_MAX_BPS

\* The three checks of updateAllocationPolicy.
PolicyAccepted(p) ==
    /\ Total(p) = BPS_DENOMINATOR
    /\ p["TREASURY"] >= TREASURY_FLOOR_BPS
    /\ p["FOUNDER"] <= FOUNDER_MAX_BPS

\* Integer division rounds a share down.
Share(amount, bps) == (amount * bps) \div BPS_DENOMINATOR

\* Mutant: the founder's share is rounded down like the others.
CalculateAmounts_FounderRounded(p, amount) ==
    [s \in SinkNames |-> Share(amount, p[s])]

\* _calculateAmounts: five rounded shares, and the remainder to the founder.
CalculateAmounts(p, amount) ==
    [s \in SinkNames |->
        IF s # "FOUNDER" THEN Share(amount, p[s])
        ELSE amount - Share(amount, p["TREASURY"]) - Share(amount, p["MEV"])
                    - Share(amount, p["OPS_DEV"]) - Share(amount, p["DATA_YIELD"])
                    - Share(amount, p["DELEGATE_POOLS"])]
-----------------------------------------------------------------------------
\* The founder's exact share is rounded up by less than one wei for each of the
\* five shares that are rounded down.
RoundedShares == 5

\* A split of amount under p hands out the amount to the wei, with no share
\* below zero: the uint256 subtraction in _calculateAmounts never reverts.
SplitExact(p, amount) ==
    /\ \A s \in SinkNames : CalculateAmounts(p, amount)[s] >= 0
    /\ Total(CalculateAmounts(p, amount)) = amount

\* The treasury share is within one wei of the floor of 40 %.
TreasuryFloorKept(shares, amount) ==
    (shares["TREASURY"] + 1) * BPS_DENOMINATOR > amount * TREASURY_FLOOR_BPS

\* What rounding adds to the founder's 5 % is less than RoundedShares wei.
FounderCapKept(shares, amount) ==
    (shares["FOUNDER"] - RoundedShares) * BPS_DENOMINATOR
        < amount * FOUNDER_MAX_BPS
=============================================================================
