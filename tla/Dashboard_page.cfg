SPECIFICATION Spec
CONSTANTS
    me = me
    Me = Me
    other = other
    spaces = spaces
    star = star
    member = member
    Spellings <- SpellingSet
    Plain <- PlainOf
    Blank = Blank
    Star = Star
    Member = Member
    NoAnswer = NoAnswer
    Locs = {l1, l2}
    Ips = {i1}
    NoIp = NoIp
    NoState = NoState
    Page = Page
    Envs <- EnvSet
    Callers <- CallerSet
    Others = {"public_ip"}
    Picks = {l2}
    Rounds = 2
    MaxGets = 2
    MaxChanges = 2
    MaxFaults = 1
CHECK_DEADLOCK FALSE
INVARIANTS
    IInv
    StaleHasReason
PROPERTIES
    PageSettles
