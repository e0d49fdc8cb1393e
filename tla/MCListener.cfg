CONSTANTS
    ui = ui
    health = health
    slow1 = slow1
    slow2 = slow2
    page = page
    scraper = scraper
    check = check
    Listeners = {ui, health}
    Peers = {slow1, slow2, page, scraper, check}
    Serves <- MCServes
    Wants <- MCWants
    MaxConnections = 2
    HeaderReadTimeout = 1
SPECIFICATION Spec
INVARIANT PermitsReturn
PROPERTY WaitingIsServed
