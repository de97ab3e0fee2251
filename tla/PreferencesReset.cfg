\* Two tabs, two levels, two choices.
CONSTANTS
    Tabs = {b1, b2}
    Wanted = {1, 3}
    Choices = {k1, k2}
SPECIFICATION PrefSpec
PROPERTY ResetClears
