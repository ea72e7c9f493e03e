SPECIFICATION Spec
CONSTANTS
    c1 = c1
    c2 = c2
    i1 = i1
    i2 = i2
    o1 = o1
    o2 = o2
    gel = gel
    extra = extra
    oils = oils
    tools = tools
    customer = customer
    Callers = {c1, c2}
    Scenarios <- MCScenarios
    MaxCalls <- MCMaxCalls
    MaxCrashes = 1
    Chain <- MCChain
    Items = {i1, i2}
    Buckets = {"STORE", "SALES", "USAGE"}
    Opened <- MCOpened
    LowAt <- MCLowAt
    Change <- MCChange
    Move <- MCMove
    Ordered <- MCOrdered
    Totals = {1, 2}
    ItemOf <- MCItemOf
    AtHand = {"had"}
    MaxReceipts = 2
    Orders = {o1, o2}
    Products = {gel, extra}
    Stocked = {gel}
    Kinds = {oils, tools}
    FirstKind = oils
    Titles = {"soap", "wax"}
    TitleOf <- MCTitleOf
    Edits <- MCEdits
    MaxPictures = 2
    Customers = {customer}
    Goods <- MCGoods
    ShopStock <- MCShopStock
    Savings <- MCSavings
    v1 = v1
    v2 = v2
    v3 = v3
    cut = cut
    colour = colour
    ann = ann
    ben = ben
    kim = kim
    Codes = {"ten"}
    Owner <- MCOwner
    Influencers = {kim}
    Newcomers = {ann, ben}
    SignsUpWith <- MCSignsUpWith
    Campaigns = {"launch"}
    Payees = {kim, ben}
    Limits = {0, 1}
    RewardValue = 1
    braids = braids
    twist = twist
    hair = hair
    nails = nails
    lagos = lagos
    abuja = abuja
    Incomes = {"visit", "walk_in", "home", "sale"}
    Source <- MCSource
    Houses = {lagos, abuja}
    House <- MCHouse
    FromWallet = {"home"}
    Accountants = {kim}
    Home <- MCHome
    LastHalfDay = 4
    Services = {braids, twist}
    Listed = {braids}
    Referenced = {}
    Categories = {hair, nails}
    FirstCategory = hair
    Branches = {lagos}
    Staffed = {}
    Labels = {"old", "new"}
    LabelOf <- MCLabelOf
    ServiceForms <- MCServiceForms
    Offers <- MCOffers
    Visits = {v1, v2, v3}
    Phones = {"080"}
    Wish <- MCWish
    Menu = {cut, colour}
    Price <- MCPrice
    Recipe <- MCRecipe
    Wares <- MCWares
    Rate = 50
    Off = 50
    Replacements <- MCReplacements
    Standing = {v1}
INVARIANTS
    SignedFirst
    StockKept
    PurchasesKept
    SalonKept
    PromotionsKept
    AssortmentKept
    CatalogueKept
    
PROPERTIES
    ShopKept
CHECK_DEADLOCK FALSE
