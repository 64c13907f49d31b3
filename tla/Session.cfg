\* Two exchanges; the unit ignores packets, stalls once, hangs up once, and once
\* sends something else than a reply.
SPECIFICATION Spec
CONSTANTS
    Attempts = 2
    ConnectTimeout = 2
    Sends = 3
    ReplyTimeout = 2
    Linger = 1
    Settle = 1
    ReplyTime = 1
    Stalls = {2, 4}
    Nothing = Nothing
    MaxRequests = 2
    MaxStalls = 1
    MaxFaults = 1
    MaxHangUps = 1
    MaxExpiries = 1
INVARIANTS RightReply Bounded Accounted CommandRestates CapabilitiesAddUp SentAsTyped
