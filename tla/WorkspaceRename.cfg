SPECIFICATION Spec
CONSTANTS
    Parts <- MCParts
    Labels <- MCLabels
    Dropped <- MCDropped
    Texts <- MCTexts
    Template = "ns"
    OnDisk <- MCOnDisk
    MaxClicks = 2
    MaxTabs = 2
    MaxMarks = 1
PROPERTIES
    RenameKeepsText
