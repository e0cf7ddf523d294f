CONSTANTS
    s1 = s1
    s2 = s2
    o1 = o1
    b1 = b1
    x1 = x1
    x2 = x2
    Stores = {s1, s2}
    Orders = {o1}
    Bookings = {b1}
    StoreOf <- MCStoreOf
    AmountOf <- MCAmountOf
    Reasons = {why, other}
    NoReason = NoReason
    Slots = {t1, t2}
    Requests = {r1, r2}
    MoneyStores = {s1}
    MoneyStoreOf <- MCMoneyStoreOf
    MoneyReasons = {why}
    MoneySlots = {t3, t4}
    MoneyAccounts = {a1}
    CommerceRequests = {c1}
    WalletRequests = {w1}
    Amounts = {1, 2, 3}
    MinimumWithdrawal = 2
    MaxRows = 5
    PurseSales = {x1, x2}
    PurseOpening <- MCOpening
    PurseAccounts = {a2, a3, a4}
    PurseRequests = {p1, p2}
    MaxPurseRows = 4

SPECIFICATION AllSpec
SYMMETRY Symmetry
CHECK_DEADLOCK FALSE

INVARIANT EarnedAtMostOnce
