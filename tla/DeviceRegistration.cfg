SPECIFICATION MCSpec
CONSTANTS
    Scopes = {"devices"}
    Events = {e1, e2}
    Cooldown = 2
    MaxMinute = 2
    MaxAlerts = 4
    AlertMails = {a1}
    Mails = {m1, m2}
    Texts = {t1}
    Pushes = {p1}
    Attempts = 2
    MaxJobs = 2
    Day = 3
    Endpoints = {n1}
    Placers = {c1, c2}
    MaxOrders = 2
    MaxFollowed = 1
    MaxHooks = 3
    DeviceIds = {d1, d2}
    Commands = {k1, k2}
    OfflineAfter = 1
    HealthOfflineAfter = 2
    MaxTime = 3
INVARIANT RegistrationAccepted
SYMMETRY Symmetry
CHECK_DEADLOCK FALSE
