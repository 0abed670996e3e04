-------------------------- MODULE MCConfigService --------------------------
(***************************************************************************)
(* ConfigService for TLC.  With calls that only read, the gateway and the  *)
(* consumer meet every disturbance, for either prefetch; in the others the *)
(* service is late, calls and HTTP requests overlap on one row, and the    *)
(* service loses its connection or ends.                                   *)
(***************************************************************************)
EXTENDS ConfigService

CONSTANTS c1, c2, h1, h2

None == [of |-> "none"]
Read == [of |-> "read"]
GetCode(a) == [of |-> "getCode", address |-> a]
Claim(a, g) == [of |-> "claim", referee |-> a, code |-> g]
SetTier(a, t) == [of |-> "tier", address |-> a, tier |-> t]
Provision(a, t) == [of |-> "provision", address |-> a, tier |-> t]
Record(c) == [of |-> "count", column |-> c]
Watch(l) == [of |-> "watch", label |-> l]
Register(t) == [of |-> "register", token |-> t]
Remove(k) == [of |-> "delete", key |-> k]

Plain(n) ==
  [ops |-> [c \in Call |-> Read], http |-> [h \in Http |-> None], rows |-> << >>,
   prefetch |-> n, late |-> FALSE]

Late(x, y, u, v, r) ==
  [ops |-> c1 :> x @@ c2 :> y, http |-> h1 :> u @@ h2 :> v, rows |-> r, prefetch |-> 2,
   late |-> TRUE]

GivenCode == CodeOf("a") :> [code |-> "g1"]
FreshBanner == Banner :> [impressions |-> 0, clicks |-> 0]
KolBadge == <<"badge", 0>> :> [address |-> "a", tier |-> "KOL_TIER1", active |-> TRUE]

MCScenarios ==
  {Plain(1), Plain(2)} \cup
  { \* codes: asked for and provisioned at a time, by one address and by two
    Late(GetCode("a"), None, Provision("a", "NONE"), None, << >>),
    Late(None, None, Provision("a", "KOL_TIER1"), Provision("b", "NONE"), << >>),
    \* claims: of two referrers at a time, and of the claimant's own code
    Late(Claim("b", "g1"), Claim("b", "g2"), None, None, GivenCode @@ CodeOf("c") :> [code |-> "g2"]),
    Late(Claim("a", "g1"), None, Provision("a", "NONE"), None, << >>),
    \* badges
    Late(Read, None, SetTier("a", "KOL_TIER1"), SetTier("a", "NONE"), KolBadge),
    Late(Read, None, SetTier("a", "KOL_TIER2"), Provision("a", "KOL_TIER1"), GivenCode @@ KolBadge),
    \* a banner, and one that is not there
    Late(Record("impressions"), Record("impressions"), None, None, FreshBanner),
    Late(Record("clicks"), Record("impressions"), None, None, << >>),
    \* wallets and faucets
    Late(Watch("x"), None, Watch("y"), Remove(Wallet), << >>),
    Late(Register("x"), None, Register("y"), Remove(Faucet), << >>) }
=============================================================================
