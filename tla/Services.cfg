SPECIFICATION Spec
CONSTANTS
    Providers = {"anthropic", "vendor.x"}
    Shipped = {"anthropic", "vendor.x"}
    Addressable = {"anthropic"}
    LoginMethods <- MCLoginMethods
    Tasks = {"t1", "t2"}
    Nobody = Nobody
    Missing = Missing
    MaxIssued = 3
    Listable = {"openai-completions"}
    OtherApis = {"anthropic-messages"}
    Ceiling = 2
    ChunkSizes = {1, 2}
    MaxSent = 4
    Omitted = Omitted
    Catalog <- MCCatalog
    NoModel <- MCNoModel
    Offers <- MCOffers
    Protocols = {"openai-completions", "openai-responses", "anthropic-messages"}
    LocalRoutes <- MCLocalRoutes
    Completions = "openai-completions"
    Profiles <- MCProfiles
    Unset = Unset
    Routes = {"local-brain", "deepseek-official", "other"}
    LocalBrainRoutes = {"local-brain"}
    OfficialRoutes = {"deepseek-official"}
    Untold = "untold"
    Places = {1, 2}
    End = 3
    Overlay = "overlay"
    Gap = "gap"
    OtherSections = {"persona", "memory"}
    MemorySections = {"memory"}
    Items = {"read", "memory_search"}
    MemoryItems = {"memory_search"}
    Overlays = {"o1", "o2"}
    Memory = "policy"
INVARIANTS
    SignInsAreKept
    BodyWithinCeiling
    DeclaredLevelsAreOffered
    SwitchesTakeEffect
    CapOnlyWhenNamed
    PreparedCallsAreHonoured
    OverlayFollowsRoute
    MemoryStaysOut
PROPERTIES
    RefreshReplacesItsGrant
    AbortEndsProbe
