SPECIFICATION FairSpec
CONSTANTS
    build = build
    fetch = fetch
    question = question
    make = make
    host = host
    Calls <- TwoCalls
    Grants <- MCGrants
    Key <- TwoKeys
    Writing = {}
    Questions = {}
    Configured = {}
    Stored = {host}
    MaxRemovals = 2
INVARIANTS ReplyDecides ListsWhatWaits GrantsAgree
PROPERTIES EveryCallAnswered
CHECK_DEADLOCK FALSE
