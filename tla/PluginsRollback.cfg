\* A failed replacement of a plugin.
CONSTANTS
    p1 = p1
    p2 = p2
    v1 = v1
    v2 = v2
    PluginIDs = {p1, p2}
    Versions = {v1, v2}
    Missing = Missing
    Torn = Torn

SPECIFICATION PluginsSpec
INVARIANT RolledBack
CHECK_DEADLOCK FALSE
