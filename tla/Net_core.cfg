SPECIFICATION Spec
CONSTANTS
    Fds = {3, 4}
    Servers = {s1, s2}
    Udps = {u1}
    Others = {x1}
    MaxIn = 3
CHECK_DEADLOCK FALSE
INVARIANTS NeverDeaf OwnsItsFd
PROPERTIES ActsOnOwnFile Accepted
