SPECIFICATION FairSpec
CONSTANTS
    Pages = {p}
    Calls = {c1, c2}
    Kinds = {"register", "login", "boot", "me", "enter", "api", "logout", "forgot", "resend", "verify", "choose"}
    Nowhere = Nowhere
    MaxStarts = 3
    MaxTokens = 9
    MaxExpiries = 1
    MaxFaults = 1
INVARIANTS InStep LogoutRevokes
PROPERTIES OneTimeTokens LatestLinkWins EverySettled
CHECK_DEADLOCK FALSE
