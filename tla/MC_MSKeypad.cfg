SPECIFICATION KeypadFairSpec
CONSTANTS
    Rows = 3
    Cols = 2
    button_data <- MC_button_data
    NoButton = 6
    MaxDown = 2
PROPERTIES ReportedIsDown NoRepeat PressesServed
